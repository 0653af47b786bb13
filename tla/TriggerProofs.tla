---------------------------- MODULE TriggerProofs ----------------------------
(***************************************************************************)
(* The arithmetic of the trigger gate, for windows of any length, any      *)
(* contents and any stamps.                                                *)
(*                                                                         *)
(* ScoreEventBatch adds weights up with the fold of the community modules, *)
(* a recursive function over the subsets of the window.  What is needed of *)
(* it (it exists, is a number, and can give up its elements in any order)  *)
(* is proved of the function first, each time from the smallest subset for *)
(* which it would not hold.                                                *)
(***************************************************************************)
EXTENDS TriggerWindow, LeastElement, TLAPS

-----------------------------------------------------------------------------
(* Sums.                                                                   *)

(* The element the fold takes out of a set.                                *)
First(s) == CHOOSE x \in s : TRUE

LEMMA FirstIn == \A s : s # {} => First(s) \in s
BY DEF First

(* iter holds the sum of f over every set of sets, a family that contains  *)
(* what is left of its members when an element is taken out.               *)
Sums(iter, f, sets) ==
    iter = [s \in sets |->
              IF s = {} THEN 0
              ELSE f[First(s)] + iter[s \ {First(s)}]]

(* The value at a set follows from that at a smaller one.                  *)
LEMMA SumsRule ==
    ASSUME NEW iter, NEW f, NEW sets, Sums(iter, f, sets), NEW s \in sets
    PROVE  /\ s = {} => iter[s] = 0
           /\ s # {} => /\ First(s) \in s
                        /\ iter[s] = f[First(s)]
                                        + iter[s \ {First(s)}]
<1>1. PICK g : g = [t \in sets |->
                      IF t = {} THEN 0
                      ELSE f[First(t)] + iter[t \ {First(t)}]]
  OBVIOUS
<1>2. iter = g
  BY <1>1 DEF Sums
<1>3. g[s] = IF s = {} THEN 0
             ELSE f[First(s)] + iter[s \ {First(s)}]
  BY <1>1
<1>4. s # {} => First(s) \in s
  BY FirstIn
<1> QED BY <1>2, <1>3, <1>4

(* The same for the subsets of a set.                                      *)
LEMMA SumsOver ==
    ASSUME NEW iter, NEW f, NEW S, Sums(iter, f, SUBSET S)
    PROVE  \A s \in SUBSET S :
              /\ s = {} => iter[s] = 0
              /\ s # {} => /\ First(s) \in s
                           /\ iter[s] = f[First(s)]
                                           + iter[s \ {First(s)}]
<1>1. PICK sets : sets = SUBSET S
  OBVIOUS
<1>2. \A s \in sets :
         /\ s = {} => iter[s] = 0
         /\ s # {} => /\ First(s) \in s
                      /\ iter[s] = f[First(s)]
                                      + iter[s \ {First(s)}]
  BY <1>1, SumsRule
<1> QED BY <1>1, <1>2

(* Taking an element out makes a set smaller.                              *)
LEMMA TakeOut ==
    ASSUME NEW S, IsFiniteSet(S), NEW s \in SUBSET S, NEW x \in s
    PROVE  /\ s \ {x} \in SUBSET S
           /\ Cardinality(s) \in Nat /\ Cardinality(s \ {x}) \in Nat
           /\ Cardinality(s \ {x}) = Cardinality(s) - 1
<1>1. IsFiniteSet(s)
  BY FS_Subset
<1> QED BY <1>1, FS_RemoveElement, FS_CardinalityType

(* Over a finite set there are sums: if there were none over the subsets   *)
(* of at most n elements, for the least such n, those over the smaller     *)
(* ones could be continued.                                                *)
LEMMA SumsExist ==
    ASSUME NEW S, IsFiniteSet(S), NEW f
    PROVE  \E iter : Sums(iter, f, SUBSET S)
<1> DEFINE UpTo(n) == {s \in SUBSET S : Cardinality(s) <= n}
           T == {n \in Nat : ~\E iter : Sums(iter, f, UpTo(n))}
<1>1. \A s \in SUBSET S : Cardinality(s) \in Nat /\ (Cardinality(s) = 0 <=> s = {})
  BY FS_Subset, FS_CardinalityType, FS_EmptySet
<1>2. ASSUME T # {} PROVE FALSE
  <2>1. PICK n \in T : \A m \in T : n <= m
    BY <1>2, LeastNumber
  <2>2. n # 0
    <3>1. UpTo(0) = {{}}
      BY <1>1
    <3>2. Sums([s \in UpTo(0) |-> 0], f, UpTo(0))
      BY <3>1 DEF Sums
    <3> QED BY <2>1, <3>2
  <2>3. n \in Nat /\ n - 1 \in Nat /\ n - 1 \notin T
    <3>1. T \in SUBSET Nat
      OBVIOUS
    <3> HIDE DEF T
    <3> QED BY <2>1, <2>2, <3>1
  <2>4. PICK g : Sums(g, f, UpTo(n - 1))
    BY <2>3
  <2> DEFINE next(s) == f[First(s)] + g[s \ {First(s)}]
             h == [s \in UpTo(n) |-> IF Cardinality(s) < n THEN g[s] ELSE next(s)]
  <2>5. ASSUME NEW s \in UpTo(n)
        PROVE  h[s] = IF s = {} THEN 0
                      ELSE f[First(s)] + h[s \ {First(s)}]
    <3>1. CASE s = {}
      <4>1. s \in UpTo(n - 1) /\ Cardinality(s) < n
        BY <1>1, <2>2, <2>3, <3>1
      <4>2. h[s] = g[s]
        BY <2>5, <4>1
      <4>3. g[s] = 0
        BY <2>4, <3>1, <4>1, SumsRule
      <4> QED BY <3>1, <4>2, <4>3
    <3>2. CASE s # {}
      <4>1. PICK c : c = First(s)
        OBVIOUS
      <4>2. c \in s
        BY <3>2, <4>1, FirstIn
      <4>3. /\ s \ {c} \in SUBSET S /\ Cardinality(s \ {c}) \in Nat /\ Cardinality(s) \in Nat
            /\ Cardinality(s \ {c}) = Cardinality(s) - 1
        BY <2>5, <4>2, TakeOut
      <4>4. s \ {c} \in UpTo(n) /\ Cardinality(s \ {c}) < n
        BY <2>3, <2>5, <4>3
      <4>5. h[s \ {c}] = g[s \ {c}]
        BY <4>4
      <4>6. h[s] = f[c] + g[s \ {c}]
        <5>1. CASE Cardinality(s) < n
          <6>1. s \in UpTo(n - 1) /\ h[s] = g[s]
            BY <2>3, <2>5, <4>3, <5>1
          <6> HIDE DEF UpTo, h
          <6> QED BY <2>4, <3>2, <4>1, <6>1, SumsRule
        <5>2. CASE ~(Cardinality(s) < n)
          BY <2>5, <4>1, <5>2
        <5> QED BY <5>1, <5>2
      <4> QED BY <3>2, <4>1, <4>5, <4>6
    <3> QED BY <3>1, <3>2
  <2>6. Sums(h, f, UpTo(n))
    <3> DEFINE k == [s \in UpTo(n) |->
                        IF s = {} THEN 0
                        ELSE f[First(s)] + h[s \ {First(s)}]]
    <3>1. h = k
      <4>1. \A s \in UpTo(n) : h[s] = k[s]
        <5> HIDE DEF h
        <5> QED BY <2>5
      <4> QED BY <4>1
    <3> HIDE DEF h
    <3> QED BY <3>1 DEF Sums
  <2> QED BY <2>1, <2>6
<1>3. T = {}
  BY <1>2
<1>4. PICK n \in Nat : n = Cardinality(S)
  BY FS_CardinalityType
<1>5. UpTo(n) = SUBSET S
  BY <1>4, FS_Subset
<1> QED BY <1>3, <1>4, <1>5

(* A sum of numbers is a number.                                           *)
LEMMA SumsNat ==
    ASSUME NEW S, IsFiniteSet(S), NEW f \in [S -> Nat], NEW iter, Sums(iter, f, SUBSET S)
    PROVE  \A s \in SUBSET S : iter[s] \in Nat
<1> DEFINE T == {s \in SUBSET S : iter[s] \notin Nat}
<1>1. ASSUME T # {} PROVE FALSE
  <2>1. PICK s \in T : \A t \in T : Cardinality(s) <= Cardinality(t)
    BY <1>1, SmallestSubset
  <2>2. s # {}
    <3>1. s \in SUBSET S /\ (s = {} => iter[s] = 0)
      BY <2>1, SumsOver
    <3> QED BY <2>1, <3>1
  <2>3. PICK c \in s : iter[s] = f[c] + iter[s \ {c}]
    <3>1. s # {} /\ s \in SUBSET S
      BY <2>1, <2>2
    <3>2. \A t \in SUBSET S :
             t # {} => First(t) \in t /\ iter[t] = f[First(t)] + iter[t \ {First(t)}]
      BY SumsOver
    <3>3. First(s) \in s /\ iter[s] = f[First(s)] + iter[s \ {First(s)}]
      BY <3>1, <3>2
    <3> QED BY <3>3
  <2>4. s \ {c} \in SUBSET S /\ s \ {c} \notin T
    BY <2>1, <2>3, TakeOut
  <2> QED BY <2>1, <2>3, <2>4
<1> QED BY <1>1

(* Any element can be the first that is taken out.                         *)
AnyOrder(iter, f, S) ==
    \A s \in SUBSET S : \A x \in s : iter[s] = f[x] + iter[s \ {x}]

LEMMA SumsRemove ==
    ASSUME NEW S, IsFiniteSet(S), NEW f \in [S -> Nat], NEW iter, Sums(iter, f, SUBSET S)
    PROVE  AnyOrder(iter, f, S)
<1> DEFINE Wrong(s) == \E x \in s : iter[s] # f[x] + iter[s \ {x}]
           T == {s \in SUBSET S : Wrong(s)}
<1>1. ASSUME T # {} PROVE FALSE
  <2>1. PICK s \in T : \A t \in T : Cardinality(s) <= Cardinality(t)
    BY <1>1, SmallestSubset
  <2>2. PICK x \in s : iter[s] # f[x] + iter[s \ {x}]
    BY <2>1
  <2>3. PICK c \in s : iter[s] = f[c] + iter[s \ {c}]
    <3>1. s # {} /\ s \in SUBSET S
      BY <2>1, <2>2
    <3>2. \A t \in SUBSET S :
             t # {} => First(t) \in t /\ iter[t] = f[First(t)] + iter[t \ {First(t)}]
      BY SumsOver
    <3>3. First(s) \in s /\ iter[s] = f[First(s)] + iter[s \ {First(s)}]
      BY <3>1, <3>2
    <3> QED BY <3>3
  <2>4. c # x
    BY <2>2, <2>3
  <2>5. /\ s \ {c} \in SUBSET S /\ s \ {c} \notin T /\ x \in s \ {c}
        /\ s \ {x} \in SUBSET S /\ s \ {x} \notin T /\ c \in s \ {x}
    <3>1. \A y \in s : s \ {y} \in SUBSET S /\ ~(Cardinality(s) <= Cardinality(s \ {y}))
      BY <2>1, TakeOut
    <3>2. \A y \in s : s \ {y} \notin T
      BY <2>1, <3>1
    <3>3. x \in s \ {c} /\ c \in s \ {x}
      BY <2>4
    <3> HIDE DEF T
    <3> QED BY <3>1, <3>2, <3>3
  <2>6. (s \ {c}) \ {x} = (s \ {x}) \ {c} /\ (s \ {x}) \ {c} \in SUBSET S
    BY <2>5
  <2>7. /\ iter[s \ {c}] = f[x] + iter[(s \ {x}) \ {c}]
        /\ iter[s \ {x}] = f[c] + iter[(s \ {x}) \ {c}]
    BY <2>5, <2>6
  <2>8. f[c] \in Nat /\ f[x] \in Nat /\ iter[(s \ {x}) \ {c}] \in Nat
    BY <2>5, <2>6, SumsNat
  <2> QED BY <2>2, <2>3, <2>7, <2>8
<1> QED BY <1>1 DEF AnyOrder

(* A sum of nothing but zeros is zero.                                     *)
LEMMA SumsZero ==
    ASSUME NEW S, IsFiniteSet(S), NEW f, \A x \in S : f[x] = 0,
           NEW iter, Sums(iter, f, SUBSET S)
    PROVE  iter[S] = 0
<1> DEFINE T == {s \in SUBSET S : iter[s] # 0}
<1>1. ASSUME T # {} PROVE FALSE
  <2>1. PICK s \in T : \A t \in T : Cardinality(s) <= Cardinality(t)
    BY <1>1, SmallestSubset
  <2>2. s # {}
    <3>1. s \in SUBSET S /\ (s = {} => iter[s] = 0)
      BY <2>1, SumsOver
    <3> QED BY <2>1, <3>1
  <2>3. PICK c \in s : iter[s] = f[c] + iter[s \ {c}]
    <3>1. s # {} /\ s \in SUBSET S
      BY <2>1, <2>2
    <3>2. \A t \in SUBSET S :
             t # {} => First(t) \in t /\ iter[t] = f[First(t)] + iter[t \ {First(t)}]
      BY SumsOver
    <3>3. First(s) \in s /\ iter[s] = f[First(s)] + iter[s \ {First(s)}]
      BY <3>1, <3>2
    <3> QED BY <3>3
  <2>4. s \ {c} \in SUBSET S /\ s \ {c} \notin T
    BY <2>1, <2>3, TakeOut
  <2> QED BY <2>1, <2>3, <2>4
<1> QED BY <1>1

SameOn(f, g, R) == \A x \in R : f[x] = g[x]

(* Sums over a set depend on the values in it only.                        *)
LEMMA SumsAgree ==
    ASSUME NEW S, IsFiniteSet(S), NEW R \in SUBSET S, NEW f, NEW g,
           SameOn(f, g, R),
           NEW iter, Sums(iter, f, SUBSET S), NEW jter, Sums(jter, g, SUBSET R)
    PROVE  SameOn(iter, jter, SUBSET R)
<1> DEFINE T == {s \in SUBSET R : iter[s] # jter[s]}
<1>1. ASSUME T # {} PROVE FALSE
  <2>1. PICK s \in T : \A t \in T : Cardinality(s) <= Cardinality(t)
    BY <1>1, SmallestSubset
  <2>2. s # {}
    <3>1. s \in SUBSET S /\ s \in SUBSET R
      BY <2>1
    <3>2. s = {} => iter[s] = 0 /\ jter[s] = 0
      BY <3>1, SumsOver
    <3> QED BY <2>1, <3>2
  <2>3. PICK c : c = First(s)
    OBVIOUS
  <2>4. c \in s /\ iter[s] = f[c] + iter[s \ {c}] /\ jter[s] = g[c] + jter[s \ {c}]
    <3>1. s \in SUBSET R /\ s \in SUBSET S /\ s # {}
      BY <2>1, <2>2
    <3>2. iter[s] = f[First(s)] + iter[s \ {First(s)}]
      BY <3>1, SumsOver
    <3>3. jter[s] = g[First(s)] + jter[s \ {First(s)}]
      BY <3>1, SumsOver
    <3> QED BY <2>3, <3>1, <3>2, <3>3, FirstIn
  <2>5. s \ {c} \in SUBSET R /\ s \ {c} \notin T
    BY <2>1, <2>4, TakeOut
  <2>6. f[c] = g[c]
    BY <2>1, <2>4 DEF SameOn
  <2> QED BY <2>1, <2>4, <2>5, <2>6
<1> QED BY <1>1 DEF SameOn

(* An element adds its value to the sum over the others.                   *)
LEMMA SumsGrow ==
    ASSUME NEW S, IsFiniteSet(S), NEW r \in S, NEW R, R = S \ {r},
           NEW f \in [S -> Nat], NEW g, SameOn(f, g, R),
           NEW iter, Sums(iter, f, SUBSET S), NEW jter, Sums(jter, g, SUBSET R)
    PROVE  iter[S] \in Nat /\ jter[R] \in Nat /\ iter[S] = f[r] + jter[R]
<1>1. R \in SUBSET S /\ S \in SUBSET S
  OBVIOUS
<1>2. SameOn(iter, jter, SUBSET R)
  BY <1>1, SumsAgree
<1>3. \A s \in SUBSET S : iter[s] \in Nat
  BY SumsNat
<1>4. AnyOrder(iter, f, S)
  BY SumsRemove
<1>5. iter[S] \in Nat /\ iter[R] \in Nat
  BY <1>1, <1>3
<1>6. iter[S] = f[r] + iter[S \ {r}]
  BY <1>1, <1>4 DEF AnyOrder
<1> QED BY <1>2, <1>5, <1>6 DEF SameOn

-----------------------------------------------------------------------------
(* The score of a window.                                                  *)

(* The rows of a window, and what the gate makes of them.                  *)
Rows(rows) == IsFiniteSet(rows) /\ \A r \in rows : r.what \in What

Intensity(rows) ==
    LET Score(r) == ScoreEvent(r.what) IN MapThenSumSet(Score, rows)

Products(rows) == {r.what.product : r \in rows} \ {NoProduct}

BonusOf(rows, p) == RepeatBonus(Cardinality(ViewsOf(rows, p)))

RepeatBonuses(rows) ==
    LET Bonus(p) == BonusOf(rows, p) IN MapThenSumSet(Bonus, Products(rows))

LEMMA BatchSplits ==
    ASSUME NEW rows
    PROVE  ScoreEventBatch(rows) = Intensity(rows) + RepeatBonuses(rows)
BY DEF ScoreEventBatch, Intensity, RepeatBonuses, Products, BonusOf, MapThenSumSet, MapThenFoldSet

(* Every event is worth a number of eightieths.                            *)
LEMMA ScoreTyped ==
    \A what \in What : ScoreEvent(what) \in Nat
BY WhatAssumption DEF ScoreEvent, EventType, EVENT_WEIGHTS, AtMost, TIME_SPENT_CAP, QUERY_BONUS

(* The intensity is the sum of the scores.                                 *)
LEMMA IntensitySums ==
    ASSUME NEW rows, IsFiniteSet(rows)
    PROVE  \E iter : /\ Sums(iter, [r \in rows |-> ScoreEvent(r.what)], SUBSET rows)
                     /\ Intensity(rows) = iter[rows]
<1> DEFINE f == [r \in rows |-> ScoreEvent(r.what)]
           Fold(iter) == iter = [s \in SUBSET rows |->
                                   IF s = {} THEN 0
                                   ELSE ScoreEvent((CHOOSE x \in s : TRUE).what)
                                            + iter[s \ {CHOOSE x \in s : TRUE}]]
<1>1. Intensity(rows) = (CHOOSE iter : Fold(iter))[rows]
  BY DEF Intensity, MapThenSumSet, MapThenFoldSet
<1>2. ASSUME NEW iter PROVE Fold(iter) <=> Sums(iter, f, SUBSET rows)
  BY DEF Sums, First
<1>3. \E iter : Sums(iter, f, SUBSET rows)
  BY SumsExist
<1> HIDE DEF Fold
<1>4. Fold(CHOOSE iter : Fold(iter))
  BY <1>2, <1>3
<1>5. PICK iter : iter = CHOOSE j : Fold(j)
  OBVIOUS
<1>6. Fold(iter) /\ Intensity(rows) = iter[rows]
  BY <1>1, <1>4, <1>5
<1> QED BY <1>2, <1>6

(* So is the bonus, over the products.                                     *)
LEMMA BonusSums ==
    ASSUME NEW rows, IsFiniteSet(rows)
    PROVE  /\ IsFiniteSet(Products(rows))
           /\ \E iter : /\ Sums(iter, [p \in Products(rows) |-> BonusOf(rows, p)],
                                SUBSET Products(rows))
                        /\ RepeatBonuses(rows) = iter[Products(rows)]
<1>0. PICK set : set = Products(rows)
  OBVIOUS
<1> DEFINE f == [p \in set |-> BonusOf(rows, p)]
           Fold(iter) == iter = [s \in SUBSET set |->
                                   IF s = {} THEN 0
                                   ELSE BonusOf(rows, CHOOSE x \in s : TRUE)
                                            + iter[s \ {CHOOSE x \in s : TRUE}]]
<1>1. RepeatBonuses(rows) = (CHOOSE iter : Fold(iter))[set]
  BY <1>0 DEF RepeatBonuses, MapThenSumSet, MapThenFoldSet
<1>2. ASSUME NEW iter PROVE Fold(iter) <=> Sums(iter, f, SUBSET set)
  BY DEF Sums, First
<1>3. IsFiniteSet(set)
  <2> DEFINE product == [r \in rows |-> r.what.product]
             image == {product[r] : r \in rows}
  <2>1. product \in Surjection(rows, image)
    BY DEF Surjection
  <2>2. IsFiniteSet(image)
    BY <2>1, FS_Surjection
  <2>3. set \in SUBSET image
    BY <1>0 DEF Products
  <2> QED BY <2>2, <2>3, FS_Subset
<1>4. \E iter : Sums(iter, f, SUBSET set)
  BY <1>3, SumsExist
<1> HIDE DEF Fold
<1>5. Fold(CHOOSE iter : Fold(iter))
  BY <1>2, <1>4
<1>6. PICK iter : iter = CHOOSE j : Fold(j)
  OBVIOUS
<1>7. Fold(iter) /\ RepeatBonuses(rows) = iter[set]
  BY <1>1, <1>5, <1>6
<1> QED BY <1>0, <1>2, <1>3, <1>7

(* One row more adds its score to the intensity.                           *)
LEMMA IntensityGrows ==
    ASSUME NEW rows, Rows(rows), NEW r \in rows
    PROVE  /\ Intensity(rows) \in Nat /\ Intensity(rows \ {r}) \in Nat
           /\ Intensity(rows) = ScoreEvent(r.what) + Intensity(rows \ {r})
<1> DEFINE f == [q \in rows |-> ScoreEvent(q.what)]
           less == rows \ {r}
           g == [q \in less |-> ScoreEvent(q.what)]
<1>1. IsFiniteSet(rows) /\ IsFiniteSet(less) /\ f \in [rows -> Nat] /\ less \in SUBSET rows
  BY ScoreTyped, FS_RemoveElement DEF Rows
<1>2. PICK iter : Sums(iter, f, SUBSET rows) /\ Intensity(rows) = iter[rows]
  BY <1>1, IntensitySums
<1>3. PICK jter : Sums(jter, g, SUBSET less) /\ Intensity(less) = jter[less]
  BY <1>1, IntensitySums
<1>4. SameOn(f, g, less)
  BY DEF SameOn
<1>5. f[r] = ScoreEvent(r.what)
  OBVIOUS
<1>6. r \in rows /\ less = rows \ {r}
  OBVIOUS
<1> HIDE DEF f, g, less
<1>7. iter[rows] \in Nat /\ jter[less] \in Nat /\ iter[rows] = f[r] + jter[less]
  BY <1>1, <1>2, <1>3, <1>4, <1>6, SumsGrow
<1> QED BY <1>2, <1>3, <1>5, <1>7 DEF less

(* A bonus is a number, and there is none without a repeated view.         *)
LEMMA BonusTyped ==
    ASSUME NEW rows, IsFiniteSet(rows), NEW p
    PROVE  /\ IsFiniteSet(ViewsOf(rows, p)) /\ Cardinality(ViewsOf(rows, p)) \in Nat
           /\ Cardinality(ViewsOf(rows, p)) <= Cardinality(rows)
           /\ Cardinality(ViewsOf(rows, p)) = Cardinality(rows) => ViewsOf(rows, p) = rows
           /\ BonusOf(rows, p) \in Nat
           /\ BonusOf(rows, p) # 0 => Cardinality(ViewsOf(rows, p)) > 1
<1>1. PICK views \in SUBSET rows : views = ViewsOf(rows, p)
  BY DEF ViewsOf
<1>2. /\ IsFiniteSet(views) /\ Cardinality(views) \in Nat
      /\ Cardinality(views) <= Cardinality(rows)
      /\ Cardinality(views) = Cardinality(rows) => views = rows
  BY FS_Subset, FS_CardinalityType
<1>3. PICK n \in Nat : n = Cardinality(ViewsOf(rows, p))
  BY <1>1, <1>2
<1>4. RepeatBonus(n) \in Nat /\ (RepeatBonus(n) # 0 => n > 1)
  BY DEF RepeatBonus, AtMost, REPEAT_VIEW_BONUS, REPEAT_VIEW_CAP
<1> QED BY <1>1, <1>2, <1>3, <1>4 DEF BonusOf

LEMMA BonusesTyped ==
    ASSUME NEW rows, IsFiniteSet(rows)
    PROVE  /\ RepeatBonuses(rows) \in Nat
           /\ (\A p \in Products(rows) : BonusOf(rows, p) = 0) => RepeatBonuses(rows) = 0
<1>0. PICK set : set = Products(rows)
  OBVIOUS
<1>1. PICK f : f = [p \in set |-> BonusOf(rows, p)]
  OBVIOUS
<1>2. IsFiniteSet(set) /\ f \in [set -> Nat] /\ \A p \in set : f[p] = BonusOf(rows, p)
  BY <1>0, <1>1, BonusSums, BonusTyped
<1>3. PICK iter : Sums(iter, f, SUBSET set) /\ RepeatBonuses(rows) = iter[set]
  BY <1>0, <1>1, BonusSums
<1>4. iter[set] \in Nat
  BY <1>2, <1>3, SumsNat
<1>5. ASSUME \A p \in set : f[p] = 0 PROVE iter[set] = 0
  BY <1>2, <1>3, <1>5, SumsZero
<1> QED BY <1>0, <1>2, <1>3, <1>4, <1>5

(* Two views of one product are worth the score threshold without bonus.   *)
LEMMA TwoViewsEnough ==
    ASSUME NEW rows, Rows(rows), Cardinality(rows) = 2,
           \A r \in rows : r.what.type = "product_view"
    PROVE  Intensity(rows) >= MIN_SCORE_THRESHOLD
<1>1. \A r \in rows : ScoreEvent(r.what) = 120
  BY DEF ScoreEvent, EVENT_WEIGHTS
<1>2. rows # {}
  BY FS_EmptySet
<1>3. PICK r \in rows : TRUE
  BY <1>2
<1>4. PICK less : less = rows \ {r}
  OBVIOUS
<1>5. Rows(less) /\ Cardinality(less) = 1
  BY <1>4, FS_RemoveElement DEF Rows
<1>6. less # {}
  BY <1>5, FS_EmptySet
<1>7. PICK q \in less : TRUE
  BY <1>6
<1>8. Intensity(rows) = 120 + Intensity(less)
  BY <1>1, <1>4, IntensityGrows
<1>9. Intensity(less \ {q}) \in Nat /\ Intensity(less) = 120 + Intensity(less \ {q})
  BY <1>1, <1>4, <1>5, IntensityGrows
<1> QED BY <1>8, <1>9 DEF MIN_SCORE_THRESHOLD

(* Among fewer than three rows the bonus is nothing or not needed.         *)
LEMMA BonusIdle ==
    ASSUME NEW rows, Rows(rows), Cardinality(rows) < 3
    PROVE  RepeatBonuses(rows) = 0 \/ Intensity(rows) >= MIN_SCORE_THRESHOLD
<1>1. IsFiniteSet(rows) /\ Cardinality(rows) \in Nat
  BY FS_CardinalityType DEF Rows
<1>2. CASE \A p \in Products(rows) : BonusOf(rows, p) = 0
  BY <1>1, <1>2, BonusesTyped
<1>3. ASSUME NEW p \in Products(rows), BonusOf(rows, p) # 0
      PROVE  Intensity(rows) >= MIN_SCORE_THRESHOLD
  <2>1. Cardinality(rows) = 2 /\ ViewsOf(rows, p) = rows
    BY <1>1, <1>3, BonusTyped
  <2>2. \A r \in rows : r.what.type = "product_view"
    BY <2>1 DEF ViewsOf
  <2> QED BY <2>1, <2>2, TwoViewsEnough
<1> QED BY <1>2, <1>3

(* The intensity of a window is a number.                                  *)
LEMMA IntensityTyped ==
    ASSUME NEW rows, Rows(rows)
    PROVE  Intensity(rows) \in Nat
<1>1. CASE rows = {}
  <2>1. PICK iter : Sums(iter, [r \in rows |-> ScoreEvent(r.what)], SUBSET rows)
                       /\ Intensity(rows) = iter[rows]
    BY IntensitySums DEF Rows
  <2>2. iter[rows] = 0
    BY <1>1, <2>1, SumsOver
  <2> QED BY <2>1, <2>2
<1>2. CASE rows # {}
  BY <1>2, IntensityGrows
<1> QED BY <1>1, <1>2

(* What EnoughActivity comes to.                                           *)
LEMMA EnoughWithoutBonus ==
    ASSUME NEW rows, Rows(rows)
    PROVE  EnoughActivity(rows, Cardinality(rows))
              <=> \/ Cardinality(rows) >= EVENT_THRESHOLD
                  \/ Cardinality(rows) > 0 /\ Intensity(rows) >= MIN_SCORE_THRESHOLD
<1>1. PICK n \in Nat : n = Cardinality(rows)
  BY FS_CardinalityType DEF Rows
<1>2. PICK base \in Nat : base = Intensity(rows)
  BY IntensityTyped
<1>3. PICK bonus \in Nat : bonus = RepeatBonuses(rows)
  BY BonusesTyped DEF Rows
<1>4. ScoreEventBatch(rows) = base + bonus
  BY <1>2, <1>3, BatchSplits
<1>5. n < 3 => bonus = 0 \/ base >= MIN_SCORE_THRESHOLD
  BY <1>1, <1>2, <1>3, BonusIdle
<1> QED BY <1>1, <1>2, <1>4, <1>5 DEF EnoughActivity, EVENT_THRESHOLD, MIN_SCORE_THRESHOLD

-----------------------------------------------------------------------------
(* The gate over a growing window.                                         *)
WindowInv ==
    /\ IsFiniteSet(window)
    /\ window \subseteq [at : Stamp, what : What]

(* A window stays a finite set of rows.                                    *)
LEMMA WindowInvariant == Spec => []WindowInv
<1>1. Init => WindowInv
  BY FS_EmptySet DEF Init, WindowInv
<1>2. WindowInv /\ [Next]_windowVars => WindowInv'
  <2> SUFFICES ASSUME WindowInv, [Next]_windowVars PROVE WindowInv'
    OBVIOUS
  <2>1. CASE Arrive
    <3>1. PICK at \in Stamp, what \in What :
              /\ at \notin {r.at : r \in window}
              /\ window' = window \cup {[at |-> at, what |-> what]}
      BY <2>1 DEF Arrive
    <3>2. IsFiniteSet(window')
      BY <3>1, FS_AddElement DEF WindowInv
    <3> QED BY <3>1, <3>2 DEF WindowInv
  <2>2. CASE UNCHANGED window
    BY <2>2 DEF WindowInv
  <2> QED BY <2>1, <2>2 DEF Next, CooldownEnds, RecommendationAges, windowVars
<1> QED BY <1>1, <1>2, PTL DEF Spec

LEMMA WindowRows == WindowInv => Rows(window)
BY DEF WindowInv, Rows

(* The bonus for repeated views never makes the difference, in no window   *)
(* whatsoever (score_event_batch, should_trigger).                         *)
THEOREM BonusNeverDecides == Spec => []RepeatBonusNeverDecides
<1>1. WindowInv => RepeatBonusNeverDecides
  <2> SUFFICES ASSUME WindowInv PROVE RepeatBonusNeverDecides
    OBVIOUS
  <2>1. EnoughActivity(window, Cardinality(window))
              <=> \/ Cardinality(window) >= EVENT_THRESHOLD
                  \/ Cardinality(window) > 0 /\ Intensity(window) >= MIN_SCORE_THRESHOLD
    BY WindowRows, EnoughWithoutBonus
  <2> QED BY <2>1 DEF RepeatBonusNeverDecides, Intensity, MapThenSumSet, MapThenFoldSet
<1> QED BY <1>1, WindowInvariant, PTL

(* A cart or a checkout opens the gate by itself, whatever lies beside it  *)
(* in the window (should_trigger).                                         *)
THEOREM IntentOpens == Spec => []BuyingIntentOpens
<1>1. WindowInv => BuyingIntentOpens
  <2> SUFFICES ASSUME WindowInv, ~cooling, NEW r \in window,
                      r.what.type \in {"add_to_cart", "checkout_start"}
               PROVE  GateOpen
    BY DEF BuyingIntentOpens
  <2>1. Rows(window)
    BY WindowRows
  <2>2. ScoreEvent(r.what) \in Nat /\ ScoreEvent(r.what) >= MIN_SCORE_THRESHOLD
    BY DEF ScoreEvent, EVENT_WEIGHTS, MIN_SCORE_THRESHOLD
  <2>3. Intensity(window) >= MIN_SCORE_THRESHOLD
    <3>1. /\ Intensity(window \ {r}) \in Nat
          /\ Intensity(window) = ScoreEvent(r.what) + Intensity(window \ {r})
      BY <2>1, IntensityGrows
    <3> QED BY <2>2, <3>1 DEF MIN_SCORE_THRESHOLD
  <2>4. Cardinality(window) > 0
    BY <2>1, FS_EmptySet, FS_CardinalityType DEF Rows
  <2>5. EnoughActivity(window, Cardinality(window))
    BY <2>1, <2>3, <2>4, EnoughWithoutBonus
  <2>6. ~FreshRecommendationBlocks(window, fresh)
    BY DEF FreshRecommendationBlocks, STRONG_SIGNAL_TYPES
  <2> QED BY <2>5, <2>6 DEF GateOpen, Opens
<1> QED BY <1>1, WindowInvariant, PTL

(* An open gate stays open until a run, whatever arrives or runs out.      *)
THEOREM StaysOpen == Spec => OnlyARunCloses
<1>1. WindowInv /\ WindowInv' /\ [Next]_windowVars => [GateOpen => GateOpen']_windowVars
  <2> SUFFICES ASSUME WindowInv, WindowInv', Next, GateOpen PROVE GateOpen'
    OBVIOUS
  <2>1. ~cooling /\ EnoughActivity(window, Cardinality(window))
    BY DEF GateOpen, Opens
  <2>2. CASE Arrive
    <3>1. PICK at \in Stamp, what \in What :
              /\ at \notin {r.at : r \in window}
              /\ window' = window \cup {[at |-> at, what |-> what]}
      BY <2>2 DEF Arrive
    <3>2. PICK new \in window' : new = [at |-> at, what |-> what]
      BY <3>1
    <3>3. new \notin window /\ window = window' \ {new}
      BY <3>1, <3>2
    <3>4. Rows(window) /\ Rows(window')
      BY WindowRows DEF WindowInv, Rows
    <3>5. /\ Intensity(window) \in Nat
          /\ Intensity(window') = ScoreEvent(what) + Intensity(window)
          /\ ScoreEvent(what) \in Nat
      BY <3>2, <3>3, <3>4, IntensityGrows, ScoreTyped
    <3>6. Cardinality(window) \in Nat /\ Cardinality(window') = Cardinality(window) + 1
      BY <3>1, <3>2, <3>3, <3>4, FS_AddElement, FS_CardinalityType DEF Rows
    <3>7. EnoughActivity(window', Cardinality(window'))
      BY <2>1, <3>4, <3>5, <3>6, EnoughWithoutBonus DEF EVENT_THRESHOLD, MIN_SCORE_THRESHOLD
    <3>8. ~FreshRecommendationBlocks(window', fresh')
      BY <2>2, <3>1 DEF Arrive, GateOpen, Opens, FreshRecommendationBlocks
    <3> QED BY <2>1, <2>2, <3>7, <3>8 DEF Arrive, GateOpen, Opens
  <2>3. CASE RecommendationAges
    BY <2>3 DEF RecommendationAges, GateOpen, Opens, FreshRecommendationBlocks
  <2> QED BY <2>1, <2>2, <2>3 DEF Next, CooldownEnds
<1> QED BY <1>1, WindowInvariant, PTL DEF Spec, OnlyARunCloses

=============================================================================
