------------------------ MODULE TensorGeometryProofs ------------------------
(***************************************************************************)
(* What holds of slices in any number of dimensions: the intersection of   *)
(* two slices is the intersection of their cells, Numel counts the cells   *)
(* of a slice, and a sum of element counts counts the cells of slices that *)
(* do not overlap.                                                         *)
(*                                                                         *)
(* Sums and products are folds of the community modules, recursive         *)
(* functions on the subsets of a finite set.  Where a proof needs          *)
(* induction on them it takes a smallest subset of which a claim is false. *)
(***************************************************************************)
EXTENDS TensorGeometry, FiniteSetTheorems, WellFoundedInduction, TLAPS

-----------------------------------------------------------------------------
(* Folds over finite sets *)

LEMMA SmallestSubset ==
  ASSUME NEW S, IsFiniteSet(S), NEW T \in SUBSET (SUBSET S), T # {}
  PROVE  \E x \in T : \A y \in T : y \subseteq x => y = x
<1>1. IsWellFoundedOn(StrictSubsetOrdering(S), FiniteSubsetsOf(S))
  BY FS_StrictSubsetOrderingWellFounded
<1>2. FiniteSubsetsOf(S) = SUBSET S
  BY FS_FiniteSubsetsOfFinite
<1>3. \E x \in T : \A y \in T : ~ (<<y, x>> \in StrictSubsetOrdering(S))
  BY <1>1, <1>2, WFMin
<1> QED BY <1>3 DEF StrictSubsetOrdering

(* The two folds that the model uses, and the equation that defines them.  *)
Combine(by, m, n) == IF by = "sum" THEN m + n ELSE m * n
Neutral(by) == IF by = "sum" THEN 0 ELSE 1
Pick(s) == CHOOSE x \in s : TRUE

IsFold(by, fun, S, g) ==
  g = [s \in SUBSET S |->
         IF s = {} THEN Neutral(by)
         ELSE Combine(by, fun[Pick(s)], g[s \ {Pick(s)}])]

Fold(by, fun, S) == (CHOOSE g : IsFold(by, fun, S, g))[S]

LEMMA SumIsFold ==
  ASSUME NEW fun, NEW S
  PROVE  SumFunctionOnSet(fun, S) = Fold("sum", fun, S)
BY DEF SumFunctionOnSet, FoldFunctionOnSet, MapThenFoldSet, Fold, IsFold,
       Combine, Neutral, Pick

LEMMA NumelIsFold ==
  ASSUME NEW shape
  PROVE  Numel(shape) = Fold("product", shape, DOMAIN shape)
BY DEF Numel, FoldFunction, FoldFunctionOnSet, MapThenFoldSet, Fold, IsFold,
       Combine, Neutral, Pick

LEMMA Picked ==
  ASSUME NEW s, s # {}
  PROVE  Pick(s) \in s
BY DEF Pick

(* Folds over two sets agree on their common subsets. *)
LEMMA FoldsAgree ==
  ASSUME NEW by, NEW fun, NEW S, NEW T, IsFiniteSet(S), NEW g, NEW h,
         IsFold(by, fun, S, g), IsFold(by, fun, T, h),
         NEW s, s \subseteq S, s \subseteq T
  PROVE  g[s] = h[s]
<1> DEFINE Bad == { u \in SUBSET S : u \subseteq T /\ g[u] # h[u] }
<1> SUFFICES ASSUME Bad # {} PROVE FALSE
  OBVIOUS
<1>1. PICK u \in Bad : \A w \in Bad : w \subseteq u => w = u
  <2>1. Bad \in SUBSET (SUBSET S)
    OBVIOUS
  <2> HIDE DEF Bad
  <2> QED BY <2>1, SmallestSubset
<1>2. g[u] = IF u = {} THEN Neutral(by)
             ELSE Combine(by, fun[Pick(u)], g[u \ {Pick(u)}])
  BY DEF IsFold
<1>3. h[u] = IF u = {} THEN Neutral(by)
             ELSE Combine(by, fun[Pick(u)], h[u \ {Pick(u)}])
  BY DEF IsFold
<1>4. u # {}
  BY <1>2, <1>3
<1>5. u \ {Pick(u)} \subseteq u /\ u \ {Pick(u)} # u
  BY <1>4, Picked
<1>6. g[u \ {Pick(u)}] = h[u \ {Pick(u)}]
  BY <1>1, <1>5
<1> QED BY <1>2, <1>3, <1>4, <1>6

(* A fold over a finite set exists. *)
LEMMA FoldExists ==
  ASSUME NEW by, NEW fun, NEW S, IsFiniteSet(S)
  PROVE  \E g : IsFold(by, fun, S, g)
<1> DEFINE Bad == { u \in SUBSET S : ~ \E g : IsFold(by, fun, u, g) }
<1> SUFFICES ASSUME Bad # {} PROVE FALSE
  OBVIOUS
<1>1. PICK u \in Bad : \A w \in Bad : w \subseteq u => w = u
  <2>1. Bad \in SUBSET (SUBSET S)
    OBVIOUS
  <2> HIDE DEF Bad
  <2> QED BY <2>1, SmallestSubset
<1> DEFINE G(w) == CHOOSE g : IsFold(by, fun, w, g)
           Step(w, g) == IF w = {} THEN Neutral(by)
                         ELSE Combine(by, fun[Pick(w)], g[w \ {Pick(w)}])
           new == [w \in SUBSET u |->
                     IF w = u THEN Step(u, G(u \ {Pick(u)})) ELSE G(w)[w]]
<1>2. ASSUME NEW w \in SUBSET u, w # u
      PROVE  IsFold(by, fun, w, G(w))
  <2>1. \E g : IsFold(by, fun, w, g)
    BY <1>1, <1>2
  <2> QED BY <2>1
<1>3. ASSUME NEW w \in SUBSET u PROVE new[w] = Step(w, new)
  <2>1. CASE w = {}
    <3>1. CASE w = u
      <4>1. new[w] = Step(u, G(u \ {Pick(u)}))
        BY <3>1
      <4> HIDE DEF new, G
      <4> QED BY <2>1, <3>1, <4>1
    <3>2. CASE w # u
      <4>1. new[w] = G(w)[w]
        BY <3>2
      <4>2. IsFold(by, fun, w, G(w))
        BY <1>2, <3>2
      <4> HIDE DEF new, G
      <4>3. G(w)[w] = Neutral(by)
        BY <2>1, <4>2 DEF IsFold
      <4> QED BY <2>1, <4>1, <4>3
    <3> QED BY <3>1, <3>2
  <2>2. CASE w # {}
    <3> DEFINE x == Pick(w)
               less == w \ {x}
    <3>1. less \in SUBSET u /\ less # u /\ less \subseteq w /\ less # w
      BY <2>2, Picked
    <3>2. new[less] = G(less)[less]
      BY <3>1
    <3>3. IsFold(by, fun, less, G(less))
      BY <1>2, <3>1
    <3>4. CASE w = u
      <4>1. new[w] = Combine(by, fun[x], G(less)[less])
        BY <2>2, <3>4
      <4> QED BY <2>2, <3>2, <4>1
    <3>5. CASE w # u
      <4>1. IsFold(by, fun, w, G(w)) /\ new[w] = G(w)[w]
        BY <1>2, <3>5
      <4>2. G(w)[w] = Combine(by, fun[x], G(w)[less])
        BY <2>2, <4>1 DEF IsFold
      <4>3. G(w)[less] = G(less)[less]
        <5>1. IsFiniteSet(w)
          BY FS_Subset
        <5> HIDE DEF G, less
        <5> QED BY <3>1, <3>3, <4>1, <5>1, FoldsAgree
      <4> QED BY <2>2, <3>2, <4>1, <4>2, <4>3
    <3> QED BY <3>4, <3>5
  <2> QED BY <2>1, <2>2
<1>4. new = [w \in SUBSET u |-> new[w]]
  OBVIOUS
<1> HIDE DEF new
<1>5. IsFold(by, fun, u, new)
  BY <1>3, <1>4 DEF IsFold
<1> QED BY <1>1, <1>5

(* The equations that a fold satisfies. *)
LEMMA FoldEquations ==
  ASSUME NEW by, NEW fun, NEW S, IsFiniteSet(S)
  PROVE  /\ S = {} => Fold(by, fun, S) = Neutral(by)
         /\ S # {} => /\ Pick(S) \in S
                      /\ Fold(by, fun, S) =
                           Combine(by, fun[Pick(S)], Fold(by, fun, S \ {Pick(S)}))
<1> DEFINE g == CHOOSE f : IsFold(by, fun, S, f)
           less == S \ {Pick(S)}
           h == CHOOSE f : IsFold(by, fun, less, f)
<1>1. IsFiniteSet(less)
  BY FS_Subset
<1>2. IsFold(by, fun, S, g) /\ IsFold(by, fun, less, h)
  BY <1>1, FoldExists
<1>3. Fold(by, fun, S) = g[S] /\ Fold(by, fun, less) = h[less]
  BY DEF Fold
<1> HIDE DEF g, h
<1>4. g[less] = h[less]
  BY <1>2, FoldsAgree
<1>5. g[S] = IF S = {} THEN Neutral(by) ELSE Combine(by, fun[Pick(S)], g[less])
  BY <1>2 DEF IsFold
<1> QED BY <1>3, <1>4, <1>5, Picked

LEMMA SumEquations ==
  ASSUME NEW fun, NEW S, IsFiniteSet(S)
  PROVE  /\ S = {} => SumFunctionOnSet(fun, S) = 0
         /\ S # {} => /\ Pick(S) \in S
                      /\ SumFunctionOnSet(fun, S) =
                           fun[Pick(S)] + SumFunctionOnSet(fun, S \ {Pick(S)})
<1>1. \A m, n : Combine("sum", m, n) = m + n
  BY DEF Combine
<1>2. Neutral("sum") = 0
  BY DEF Neutral
<1> QED BY <1>1, <1>2, SumIsFold, FoldEquations

-----------------------------------------------------------------------------
(* Counting *)

(***************************************************************************)
(* The sum of the sizes of sets that do not overlap is the size of their   *)
(* union.                                                                  *)
(***************************************************************************)
LEMMA SumCounts ==
  ASSUME NEW S, IsFiniteSet(S), NEW size, NEW part,
         \A t \in S : IsFiniteSet(part[t]) /\ size[t] = Cardinality(part[t]),
         \A t, u \in S : t # u => part[t] \cap part[u] = {}
  PROVE  /\ IsFiniteSet(UNION { part[t] : t \in S })
         /\ SumFunctionOnSet(size, S) = Cardinality(UNION { part[t] : t \in S })
<1> DEFINE all(u) == UNION { part[t] : t \in u }
           Right(u) == /\ IsFiniteSet(all(u))
                       /\ SumFunctionOnSet(size, u) = Cardinality(all(u))
           Bad == { u \in SUBSET S : ~Right(u) }
<1> SUFFICES ASSUME Bad # {} PROVE FALSE
  OBVIOUS
<1>1. PICK u \in Bad : \A w \in Bad : w \subseteq u => w = u
  <2>1. Bad \in SUBSET (SUBSET S)
    OBVIOUS
  <2> HIDE DEF Bad
  <2> QED BY <2>1, SmallestSubset
<1>2. IsFiniteSet(u)
  BY FS_Subset
<1>3. u # {}
  <2>1. SUFFICES ASSUME u = {} PROVE Right(u)
    BY <1>1
  <2>2. all(u) = {}
    BY <2>1
  <2>3. SumFunctionOnSet(size, u) = 0
    BY <1>2, <2>1, SumEquations
  <2> HIDE DEF all
  <2> QED BY <2>2, <2>3, FS_EmptySet
<1> DEFINE x == Pick(u)
           less == u \ {x}
<1>4. x \in u /\ less \subseteq u /\ less # u
  BY <1>3, Picked
<1>5. Right(less)
  <2>1. less \notin Bad
    BY <1>1, <1>4
  <2> HIDE DEF Right
  <2> QED BY <1>1, <1>4, <2>1
<1>6. /\ IsFiniteSet(part[x]) /\ size[x] = Cardinality(part[x])
      /\ all(less) \cap part[x] = {}
      /\ all(u) = all(less) \cup part[x]
  <2> HIDE DEF x
  <2> QED BY <1>4
<1>7. SumFunctionOnSet(size, u) = size[x] + SumFunctionOnSet(size, less)
  BY <1>2, <1>3, SumEquations
<1> HIDE DEF all, x, less
<1>8. /\ IsFiniteSet(all(u))
      /\ Cardinality(all(u)) = Cardinality(all(less)) + Cardinality(part[x]) - Cardinality({})
  BY <1>5, <1>6, FS_Union
<1>9. /\ Cardinality(all(less)) \in Nat /\ Cardinality(part[x]) \in Nat
      /\ Cardinality({}) = 0
  BY <1>5, <1>6, FS_CardinalityType, FS_EmptySet
<1>10. SumFunctionOnSet(size, u) = Cardinality(all(u))
  BY <1>5, <1>6, <1>7, <1>8, <1>9
<1> QED BY <1>1, <1>8, <1>10

(* When the sets may overlap, the union has no more than that. *)
LEMMA SumBounds ==
  ASSUME NEW S, IsFiniteSet(S), NEW size, NEW part,
         \A t \in S : IsFiniteSet(part[t]) /\ size[t] = Cardinality(part[t])
  PROVE  /\ IsFiniteSet(UNION { part[t] : t \in S })
         /\ Cardinality(UNION { part[t] : t \in S }) <= SumFunctionOnSet(size, S)
<1> DEFINE all(u) == UNION { part[t] : t \in u }
           Right(u) == /\ IsFiniteSet(all(u)) /\ SumFunctionOnSet(size, u) \in Nat
                       /\ Cardinality(all(u)) <= SumFunctionOnSet(size, u)
           Bad == { u \in SUBSET S : ~Right(u) }
<1> SUFFICES ASSUME Bad # {} PROVE FALSE
  OBVIOUS
<1>1. PICK u \in Bad : \A w \in Bad : w \subseteq u => w = u
  <2>1. Bad \in SUBSET (SUBSET S)
    OBVIOUS
  <2> HIDE DEF Bad
  <2> QED BY <2>1, SmallestSubset
<1>2. IsFiniteSet(u)
  BY FS_Subset
<1>3. u # {}
  <2>1. SUFFICES ASSUME u = {} PROVE Right(u)
    BY <1>1
  <2>2. all(u) = {}
    BY <2>1
  <2>3. SumFunctionOnSet(size, u) = 0
    BY <1>2, <2>1, SumEquations
  <2> HIDE DEF all
  <2> QED BY <2>2, <2>3, FS_EmptySet
<1> DEFINE x == Pick(u)
           less == u \ {x}
<1>4. x \in u /\ less \subseteq u /\ less # u
  BY <1>3, Picked
<1>5. Right(less)
  <2>1. less \notin Bad
    BY <1>1, <1>4
  <2> HIDE DEF Right
  <2> QED BY <1>1, <1>4, <2>1
<1>6. /\ IsFiniteSet(part[x]) /\ size[x] = Cardinality(part[x])
      /\ all(u) = all(less) \cup part[x]
  <2> HIDE DEF x
  <2> QED BY <1>4
<1>7. SumFunctionOnSet(size, u) = size[x] + SumFunctionOnSet(size, less)
  BY <1>2, <1>3, SumEquations
<1> HIDE DEF all, x, less
<1>8. /\ IsFiniteSet(all(u))
      /\ Cardinality(all(u)) = Cardinality(all(less)) + Cardinality(part[x])
                                 - Cardinality(all(less) \cap part[x])
  BY <1>5, <1>6, FS_Union
<1>9. /\ Cardinality(all(less)) \in Nat /\ Cardinality(part[x]) \in Nat
      /\ Cardinality(all(less) \cap part[x]) \in Nat
  BY <1>5, <1>6, FS_CardinalityType, FS_Intersection
<1>10. /\ SumFunctionOnSet(size, u) \in Nat
       /\ Cardinality(all(u)) <= SumFunctionOnSet(size, u)
  BY <1>5, <1>6, <1>7, <1>8, <1>9
<1> QED BY <1>1, <1>8, <1>10

(* The points of a box in the dimensions s, which starts at "from" and is  *)
(* "long" in each of them.                                                 *)
Box(s, from, long) ==
  { x \in [s -> 0..(Extent - 1)] :
      \A d \in s : from[d] <= x[d] /\ x[d] < from[d] + long[d] }

LEMMA IntervalCounts ==
  ASSUME NEW m \in Nat, NEW n \in Nat
  PROVE  IsFiniteSet(m..(m + n - 1)) /\ Cardinality(m..(m + n - 1)) = n
<1> DEFINE b == m + n - 1
<1>1. m \in Int /\ b \in Int /\ (m > b => n = 0) /\ (m <= b => b - m + 1 = n)
  OBVIOUS
<1> HIDE DEF b
<1>2. IsFiniteSet(m..b)
  BY <1>1, FS_Interval
<1>3. Cardinality(m..b) = IF m > b THEN 0 ELSE b - m + 1
  BY <1>1, FS_Interval
<1> QED BY <1>1, <1>2, <1>3 DEF b

LEMMA BoxOfNothing ==
  ASSUME NEW from, NEW long
  PROVE  IsFiniteSet(Box({}, from, long)) /\ Cardinality(Box({}, from, long)) = 1
<1> DEFINE e == [d \in {} |-> 0]
<1>1. Box({}, from, long) = {e}
  <2>1. \A x \in [{} -> 0..(Extent - 1)] : x = e
    OBVIOUS
  <2>2. e \in [{} -> 0..(Extent - 1)]
    OBVIOUS
  <2> QED BY <2>1, <2>2 DEF Box
<1> HIDE DEF e
<1> QED BY <1>1, FS_Singleton

(* One more dimension multiplies the number of points by its length.       *)
LEMMA BoxGrows ==
  ASSUME NEW s, NEW d, d \in s, NEW from, NEW long,
         from[d] \in Nat, long[d] \in Nat, from[d] + long[d] <= Extent,
         IsFiniteSet(Box(s \ {d}, from, long))
  PROVE  /\ IsFiniteSet(Box(s, from, long))
         /\ Cardinality(Box(s, from, long))
              = long[d] * Cardinality(Box(s \ {d}, from, long))
<1> DEFINE less == Box(s \ {d}, from, long)
           side == from[d]..(from[d] + long[d] - 1)
           point(p) == [e \in s |-> IF e = d THEN p[2] ELSE p[1][e]]
           f == [p \in less \X side |-> point(p)]
<1>1. IsFiniteSet(side) /\ Cardinality(side) = long[d]
  BY IntervalCounts
<1>2. /\ IsFiniteSet(less \X side)
      /\ Cardinality(less \X side) = Cardinality(less) * long[d]
  BY <1>1, FS_Product
<1>3. ASSUME NEW p \in less \X side
      PROVE  /\ f[p] \in Box(s, from, long)
             /\ f[p][d] = p[2]
             /\ \A e \in s \ {d} : f[p][e] = p[1][e]
  <2>1. f[p] = [e \in s |-> IF e = d THEN p[2] ELSE p[1][e]]
    OBVIOUS
  <2>2. /\ p[1] \in [s \ {d} -> 0..(Extent - 1)] /\ p[2] \in side
        /\ \A e \in s \ {d} : from[e] <= p[1][e] /\ p[1][e] < from[e] + long[e]
    BY DEF Box
  <2>3. /\ p[2] \in 0..(Extent - 1)
        /\ from[d] <= p[2] /\ p[2] < from[d] + long[d]
    BY <2>2, ExtentAssumption
  <2> HIDE DEF f
  <2>4. f[p] \in [s -> 0..(Extent - 1)]
    BY <2>1, <2>2, <2>3
  <2>5. \A e \in s : from[e] <= f[p][e] /\ f[p][e] < from[e] + long[e]
    BY <2>1, <2>2, <2>3
  <2> QED BY <2>1, <2>4, <2>5 DEF Box
<1>4. f \in [less \X side -> Box(s, from, long)]
  BY <1>3
<1>5. f \in Injection(less \X side, Box(s, from, long))
  <2> SUFFICES ASSUME NEW p \in less \X side, NEW q \in less \X side, f[p] = f[q]
               PROVE  p = q
    BY <1>4 DEF Injection, IsInjective
  <2>1. p[2] = q[2] /\ \A e \in s \ {d} : p[1][e] = q[1][e]
    BY <1>3
  <2>2. /\ p[1] \in [s \ {d} -> 0..(Extent - 1)]
        /\ q[1] \in [s \ {d} -> 0..(Extent - 1)]
    BY DEF Box
  <2>3. p[1] = q[1]
    BY <2>1, <2>2
  <2> QED BY <2>1, <2>3
<1>6. f \in Surjection(less \X side, Box(s, from, long))
  <2> SUFFICES ASSUME NEW x \in Box(s, from, long)
               PROVE  \E p \in less \X side : f[p] = x
    BY <1>4 DEF Surjection
  <2> DEFINE y == [e \in s \ {d} |-> x[e]]
  <2>1. /\ x \in [s -> 0..(Extent - 1)]
        /\ \A e \in s : from[e] <= x[e] /\ x[e] < from[e] + long[e]
    BY DEF Box
  <2>2. y \in less
    BY <2>1 DEF Box
  <2>3. x[d] \in side
    BY <2>1, ExtentAssumption
  <2>4. <<y, x[d]>> \in less \X side
    BY <2>2, <2>3
  <2>5. f[<<y, x[d]>>] = x
    BY <2>1, <2>4
  <2> QED BY <2>4, <2>5
<1>7. ExistsBijection(less \X side, Box(s, from, long))
  BY <1>5, <1>6 DEF ExistsBijection, Bijection
<1>8. Cardinality(less) \in Nat
  BY FS_CardinalityType
<1> HIDE DEF less
<1>9. Cardinality(less) * long[d] = long[d] * Cardinality(less)
  BY <1>8
<1> QED BY <1>2, <1>7, <1>9, FS_Bijection DEF less

LEMMA ProductCounts ==
  ASSUME NEW D, IsFiniteSet(D), NEW from, NEW long,
         \A d \in D : /\ from[d] \in Nat /\ long[d] \in Nat
                      /\ from[d] + long[d] <= Extent
  PROVE  /\ IsFiniteSet(Box(D, from, long))
         /\ Fold("product", long, D) = Cardinality(Box(D, from, long))
<1> DEFINE Right(u) == /\ IsFiniteSet(Box(u, from, long))
                       /\ Fold("product", long, u) = Cardinality(Box(u, from, long))
           Bad == { u \in SUBSET D : ~Right(u) }
<1> SUFFICES ASSUME Bad # {} PROVE FALSE
  OBVIOUS
<1>1. PICK u \in Bad : \A w \in Bad : w \subseteq u => w = u
  <2>1. Bad \in SUBSET (SUBSET D)
    OBVIOUS
  <2> HIDE DEF Bad
  <2> QED BY <2>1, SmallestSubset
<1>2. IsFiniteSet(u)
  BY FS_Subset
<1>3. u # {}
  <2>1. SUFFICES ASSUME u = {} PROVE Right(u)
    BY <1>1
  <2>2. Fold("product", long, u) = 1
    BY <1>2, <2>1, FoldEquations DEF Neutral
  <2> QED BY <2>1, <2>2, BoxOfNothing
<1> DEFINE d == Pick(u)
           less == u \ {d}
<1>4. d \in u /\ less \subseteq u /\ less # u
  BY <1>3, Picked
<1>5. Right(less)
  <2>1. less \notin Bad
    BY <1>1, <1>4
  <2> HIDE DEF Right
  <2> QED BY <1>1, <1>4, <2>1
<1>6. Fold("product", long, u) = long[d] * Fold("product", long, less)
  BY <1>2, <1>3, FoldEquations DEF Combine
<1> HIDE DEF d
<1>7. d \in D
  BY <1>1, <1>4
<1>8. /\ IsFiniteSet(Box(u, from, long))
      /\ Cardinality(Box(u, from, long)) = long[d] * Cardinality(Box(less, from, long))
  <2>1. /\ IsFiniteSet(Box(u \ {d}, from, long))
        /\ from[d] \in Nat /\ long[d] \in Nat /\ from[d] + long[d] <= Extent
    BY <1>5, <1>7
  <2> HIDE DEF Right, Bad
  <2> QED BY <1>4, <2>1, BoxGrows
<1> QED BY <1>1, <1>5, <1>6, <1>8

-----------------------------------------------------------------------------
(* Ranks in a finite order *)

IsOrder(S, R) ==
  /\ \A p \in S : <<p, p>> \notin R
  /\ \A p, q \in S : p # q => <<p, q>> \in R \/ <<q, p>> \in R
  /\ \A p, q, r \in S : <<p, q>> \in R /\ <<q, r>> \in R => <<p, r>> \in R

Under(S, R, p) == { q \in S : <<q, p>> \in R }

LEMMA RankGrows ==
  ASSUME NEW S, IsFiniteSet(S), NEW R, IsOrder(S, R)
  PROVE  /\ \A p \in S : /\ IsFiniteSet(Under(S, R, p))
                        /\ Cardinality(Under(S, R, p)) \in Nat
                        /\ Cardinality(Under(S, R, p)) < Cardinality(S)
         /\ \A p, q \in S : <<p, q>> \in R =>
              Cardinality(Under(S, R, p)) < Cardinality(Under(S, R, q))
<1>1. ASSUME NEW T, IsFiniteSet(T), NEW U \in SUBSET T, U # T
      PROVE  /\ IsFiniteSet(U) /\ Cardinality(U) \in Nat
             /\ Cardinality(U) < Cardinality(T)
  <2>1. /\ IsFiniteSet(U) /\ Cardinality(U) <= Cardinality(T)
        /\ Cardinality(U) # Cardinality(T)
    BY <1>1, FS_Subset
  <2>2. Cardinality(U) \in Nat /\ Cardinality(T) \in Nat
    BY <1>1, <2>1, FS_CardinalityType
  <2> QED BY <2>1, <2>2
<1>2. ASSUME NEW p \in S
      PROVE  /\ IsFiniteSet(Under(S, R, p))
             /\ Cardinality(Under(S, R, p)) \in Nat
             /\ Cardinality(Under(S, R, p)) < Cardinality(S)
  <2>1. Under(S, R, p) \in SUBSET S /\ p \notin Under(S, R, p)
    BY DEF Under, IsOrder
  <2> QED BY <1>1, <2>1
<1>3. ASSUME NEW p \in S, NEW q \in S, <<p, q>> \in R
      PROVE  Cardinality(Under(S, R, p)) < Cardinality(Under(S, R, q))
  <2>1. /\ Under(S, R, p) \in SUBSET Under(S, R, q)
        /\ p \in Under(S, R, q) /\ p \notin Under(S, R, p)
    BY <1>3 DEF Under, IsOrder
  <2> QED BY <1>1, <1>2, <2>1
<1> QED BY <1>2, <1>3

(* For each smaller count, some element has that many below it. *)
LEMMA RankExists ==
  ASSUME NEW S, IsFiniteSet(S), NEW R, IsOrder(S, R),
         NEW j \in Nat, j < Cardinality(S)
  PROVE  \E p \in S : Cardinality(Under(S, R, p)) = j
<1> DEFINE n == Cardinality(S)
           rank == [p \in S |-> Cardinality(Under(S, R, p))]
<1>1. n \in Nat
  BY FS_CardinalityType
<1>2. \A p \in S : rank[p] \in Nat /\ rank[p] < n
  BY RankGrows
<1>3. ASSUME NEW p \in S, NEW q \in S, <<p, q>> \in R
      PROVE  rank[p] < rank[q]
  BY <1>3, RankGrows
<1> HIDE DEF n
<1>4. rank \in [S -> 0..(n - 1)]
  <2>1. \A p \in S : rank[p] \in 0..(n - 1)
    BY <1>1, <1>2
  <2> QED BY <2>1
<1>5. rank \in Injection(S, 0..(n - 1))
  <2>1. ASSUME NEW p \in S, NEW q \in S, rank[p] = rank[q] PROVE p = q
    <3> HIDE DEF rank
    <3>1. <<p, q>> \notin R /\ <<q, p>> \notin R
      BY <1>2, <1>3, <2>1
    <3> QED BY <3>1 DEF IsOrder
  <2> QED BY <1>4, <2>1 DEF Injection, IsInjective
<1>6. IsFiniteSet(0..(n - 1)) /\ Cardinality(0..(n - 1)) = n
  <2>1. 0..(n - 1) = 0..(0 + n - 1)
    BY <1>1
  <2> QED BY <1>1, <2>1, IntervalCounts
<1>7. rank \in Surjection(S, 0..(n - 1))
  BY <1>5, <1>6, FS_Injection DEF n
<1>8. j \in 0..(n - 1)
  BY <1>1 DEF n
<1>9. PICK p \in S : rank[p] = j
  BY <1>7, <1>8 DEF Surjection
<1> QED BY <1>9

Least(S, f, d) == \A e \in S : f[e] \subseteq f[d] => f[e] = f[d]

LEMMA LeastExists ==
  ASSUME NEW S, IsFiniteSet(S), S # {}, NEW f \in [S -> SUBSET S]
  PROVE  \E d \in S : Least(S, f, d)
<1> DEFINE T == { f[d] : d \in S }
<1>1. T \in SUBSET (SUBSET S) /\ T # {}
  OBVIOUS
<1>2. PICK x \in T : \A y \in T : y \subseteq x => y = x
  <2> HIDE DEF T
  <2> QED BY <1>1, SmallestSubset
<1>3. PICK d \in S : x = f[d]
  BY <1>2
<1>4. \A e \in S : f[e] \in T
  OBVIOUS
<1> HIDE DEF T
<1> QED BY <1>2, <1>3, <1>4 DEF Least

LEMMA SmallestNumber ==
  ASSUME NEW S \in SUBSET Int, IsFiniteSet(S), S # {}
  PROVE  \E d \in S : \A e \in S : d <= e
<1> DEFINE below(d) == { e \in S : e < d }
           f == [d \in S |-> below(d)]
<1>1. PICK d \in S : Least(S, f, d)
  <2>1. f \in [S -> SUBSET S]
    OBVIOUS
  <2> HIDE DEF f
  <2> QED BY <2>1, LeastExists
<1>2. \A e \in S : below(e) \subseteq below(d) => below(e) = below(d)
  BY <1>1 DEF Least
<1>4. ASSUME NEW e \in S, e < d PROVE FALSE
  <2>1. d \in Int /\ e \in Int
    OBVIOUS
  <2>2. ASSUME NEW c \in below(e) PROVE c \in below(d)
    <3>1. c \in Int /\ c < e
      OBVIOUS
    <3> QED BY <1>4, <2>1, <3>1
  <2>3. below(e) = below(d)
    BY <1>2, <2>2
  <2>4. e \in below(d) /\ e \notin below(e)
    BY <1>4, <2>1
  <2> QED BY <2>3, <2>4
<1>5. \A e \in S : d \in Int /\ e \in Int
  OBVIOUS
<1> QED BY <1>4, <1>5

-----------------------------------------------------------------------------
(* The order of indices *)

(* Two different indices differ in a first dimension. *)
LEMMA LexIsTotal ==
  ASSUME NEW D, IsFiniteSet(D), D \subseteq Int, NEW i \in [D -> Int],
         NEW j \in [D -> Int], i # j
  PROVE  LexBefore(i, j) \/ LexBefore(j, i)
<1> DEFINE differ == { d \in D : i[d] # j[d] }
<1>1. differ # {}
  OBVIOUS
<1>2. differ \in SUBSET D /\ differ \subseteq Int
  OBVIOUS
<1>3. IsFiniteSet(differ)
  BY <1>2, FS_Subset
<1>4. PICK d \in differ : \A e \in differ : d <= e
  BY <1>1, <1>2, <1>3, SmallestNumber
<1>5. \A e \in D : e < d => i[e] = j[e]
  <2> SUFFICES ASSUME NEW e \in D, e < d, i[e] # j[e] PROVE FALSE
    OBVIOUS
  <2>1. e \in differ /\ e \in Int /\ d \in Int
    OBVIOUS
  <2> QED BY <1>4, <2>1
<1>6. i[d] \in Int /\ j[d] \in Int /\ i[d] # j[d]
  OBVIOUS
<1> QED BY <1>5, <1>6 DEF LexBefore

LEMMA LexIsTransitive ==
  ASSUME NEW D, D \subseteq Int, NEW i \in [D -> Int], NEW j \in [D -> Int],
         NEW k \in [D -> Int], LexBefore(i, j), LexBefore(j, k)
  PROVE  LexBefore(i, k)
<1>1. PICK c \in D : i[c] < j[c] /\ \A e \in D : e < c => i[e] = j[e]
  BY DEF LexBefore
<1>2. PICK d \in D : j[d] < k[d] /\ \A e \in D : e < d => j[e] = k[e]
  BY DEF LexBefore
<1>3. c \in Int /\ d \in Int /\ \A e \in D : e \in Int
  OBVIOUS
<1>4. \A e \in D : i[e] \in Int /\ j[e] \in Int /\ k[e] \in Int
  OBVIOUS
<1>5. CASE c <= d
  <2>1. i[c] < k[c]
    BY <1>1, <1>2, <1>3, <1>4, <1>5
  <2>2. \A e \in D : e < c => i[e] = k[e]
    BY <1>1, <1>2, <1>3, <1>5
  <2> QED BY <2>1, <2>2 DEF LexBefore
<1>6. CASE d < c
  <2>1. i[d] < k[d]
    BY <1>1, <1>2, <1>3, <1>4, <1>6
  <2>2. \A e \in D : e < d => i[e] = k[e]
    BY <1>1, <1>2, <1>3, <1>6
  <2> QED BY <2>1, <2>2 DEF LexBefore
<1> QED BY <1>3, <1>5, <1>6

LEMMA LexIsOrder ==
  ASSUME NEW D, IsFiniteSet(D), D \subseteq Int, NEW S, S \subseteq [D -> Int],
         NEW R, \A i, j \in S : <<i, j>> \in R <=> LexBefore(i, j)
  PROVE  IsOrder(S, R)
<1>1. \A i \in S : i \in [D -> Int]
  OBVIOUS
<1>2. ASSUME NEW i \in S PROVE <<i, i>> \notin R
  <2>1. ~LexBefore(i, i)
    BY <1>1 DEF LexBefore
  <2> QED BY <2>1
<1>3. ASSUME NEW i \in S, NEW j \in S, i # j
      PROVE  <<i, j>> \in R \/ <<j, i>> \in R
  BY <1>1, <1>3, LexIsTotal
<1>4. ASSUME NEW i \in S, NEW j \in S, NEW k \in S, <<i, j>> \in R, <<j, k>> \in R
      PROVE  <<i, k>> \in R
  BY <1>1, <1>4, LexIsTransitive
<1> QED BY <1>2, <1>3, <1>4 DEF IsOrder

-----------------------------------------------------------------------------
(* Slices *)

(* A slice of a tensor of this shape, spelled out. *)
LEMMA SliceFacts ==
  ASSUME NEW D, NEW shape \in [D -> 0..Extent], NEW s \in SlicesOf(shape)
  PROVE  /\ s = [offsets      |-> s.offsets,
                 local_shape  |-> s.local_shape,
                 global_shape |-> s.global_shape]
         /\ s.offsets \in [D -> Nat]
         /\ s.local_shape \in [D -> Nat]
         /\ s.global_shape = shape
         /\ Dims(s) = D
         /\ \A d \in D :
              /\ s.offsets[d] \in Nat /\ s.local_shape[d] \in Nat
              /\ End(s, d) \in Nat /\ End(s, d) = s.offsets[d] + s.local_shape[d]
              /\ End(s, d) <= shape[d] /\ End(s, d) <= Extent
BY ExtentAssumption DEF SlicesOf, Dims, End

(***************************************************************************)
(* get_slice_intersection returns the cells that two slices share, and     *)
(* returns None only if they share none.                                   *)
(***************************************************************************)
THEOREM IntersectionIsExact ==
  ASSUME NEW D, NEW shape \in [D -> 0..Extent], NEW a \in SlicesOf(shape),
         NEW b \in SlicesOf(shape)
  PROVE  /\ Intersects(a, b) => Cells(Intersection(a, b)) = Cells(a) \cap Cells(b)
         /\ ~Intersects(a, b) => Cells(a) \cap Cells(b) = {}
<1> DEFINE c == Intersection(a, b)
<1>1. Dims(a) = D /\ Dims(b) = D /\ Dims(c) = D
      /\ a.global_shape = b.global_shape
  BY SliceFacts DEF Dims, Intersection
<1>2. \A d \in D : /\ a.offsets[d] \in Nat /\ b.offsets[d] \in Nat
                   /\ End(a, d) \in Nat /\ End(b, d) \in Nat
                   /\ a.local_shape[d] \in Nat /\ b.local_shape[d] \in Nat
  BY SliceFacts
<1>3. \A d \in D : /\ c.offsets[d] = MaxOf(a.offsets[d], b.offsets[d])
                   /\ End(c, d) = MinOf(End(a, d), End(b, d))
  <2> TAKE d \in D
  <2>1. /\ c.offsets[d] = SharedStart(a, b, d)
        /\ c.local_shape[d] = SharedEnd(a, b, d) - SharedStart(a, b, d)
    BY <1>1 DEF Intersection
  <2>2. SharedStart(a, b, d) \in Int /\ SharedEnd(a, b, d) \in Int
    BY <1>2 DEF SharedStart, SharedEnd, MaxOf, MinOf
  <2>3. End(c, d) = SharedEnd(a, b, d)
    BY <2>1, <2>2 DEF End
  <2> QED BY <2>1, <2>3 DEF SharedStart, SharedEnd
<1>4. ASSUME NEW x \in [D -> 0..(Extent - 1)], NEW d \in D
      PROVE  (c.offsets[d] <= x[d] /\ x[d] < End(c, d))
               <=> /\ a.offsets[d] <= x[d] /\ x[d] < End(a, d)
                   /\ b.offsets[d] <= x[d] /\ x[d] < End(b, d)
  <2>1. x[d] \in Int
    BY ExtentAssumption
  <2> QED BY <2>1, <1>2, <1>3 DEF MaxOf, MinOf
<1>5. Cells(c) = Cells(a) \cap Cells(b)
  BY <1>1, <1>4 DEF Cells
<1>6. ASSUME ~Intersects(a, b), NEW x \in Cells(a), x \in Cells(b)
      PROVE  FALSE
  <2>1. PICK d \in D : ~(SharedStart(a, b, d) < SharedEnd(a, b, d))
    BY <1>1, <1>6 DEF Intersects
  <2>2. x[d] \in Int
    BY <1>1, ExtentAssumption DEF Cells
  <2>3. /\ a.offsets[d] <= x[d] /\ x[d] < End(a, d)
        /\ b.offsets[d] <= x[d] /\ x[d] < End(b, d)
    BY <1>1, <1>6 DEF Cells
  <2> QED BY <2>1, <2>2, <2>3, <1>2 DEF SharedStart, SharedEnd, MaxOf, MinOf
<1> QED BY <1>5, <1>6

(***************************************************************************)
(* A shard answers a request for at least one cell exactly if it has all   *)
(* of them: on sets of cells, _get_sharded_tensor tests for containment.   *)
(***************************************************************************)
THEOREM ContainsIsSubset ==
  ASSUME NEW D, NEW shape \in [D -> 0..Extent], NEW a \in SlicesOf(shape),
         NEW b \in SlicesOf(shape), Cells(b) # {}
  PROVE  Contains(a, b) <=> Cells(b) \subseteq Cells(a)
<1> DEFINE c == Intersection(a, b)
<1>1. Dims(a) = D /\ Dims(b) = D
      /\ a.global_shape = shape /\ b.global_shape = shape
  BY SliceFacts DEF Dims
<1>2. \A d \in D : /\ a.offsets[d] \in Nat /\ b.offsets[d] \in Nat
                   /\ End(a, d) \in Nat /\ End(b, d) \in Nat
                   /\ b.local_shape[d] \in Nat
                   /\ End(b, d) = b.offsets[d] + b.local_shape[d]
  BY SliceFacts DEF End
<1>3. Contains(a, b) => Cells(b) \subseteq Cells(a)
  <2> SUFFICES ASSUME Contains(a, b) PROVE Cells(b) \subseteq Cells(a)
    OBVIOUS
  <2>1. Cells(c) = Cells(a) \cap Cells(b)
    BY IntersectionIsExact DEF Contains
  <2> QED BY <2>1 DEF Contains
<1>4. ASSUME Cells(b) \subseteq Cells(a)
      PROVE  Contains(a, b)
  <2>1. PICK x : x \in Cells(b)
    OBVIOUS
  <2>2. \A d \in D : /\ x[d] \in 0..(Extent - 1)
                     /\ b.offsets[d] <= x[d] /\ x[d] < End(b, d)
                     /\ End(b, d) <= Extent
    BY <2>1, <1>1, SliceFacts DEF Cells
  <2> DEFINE first == [d \in D |-> b.offsets[d]]
             last  == [d \in D |-> End(b, d) - 1]
  <2>3. first \in Cells(b) /\ last \in Cells(b)
    <3>1. \A d \in D : /\ b.offsets[d] \in 0..(Extent - 1)
                       /\ End(b, d) - 1 \in 0..(Extent - 1)
                       /\ b.offsets[d] <= End(b, d) - 1
                       /\ b.offsets[d] < End(b, d)
                       /\ End(b, d) - 1 < End(b, d)
      <4> TAKE d \in D
      <4>1. x[d] \in Int /\ b.offsets[d] \in Nat /\ End(b, d) \in Nat /\ Extent \in Nat
        BY <2>2, <1>2, ExtentAssumption
      <4> QED BY <4>1, <2>2
    <3>2. first \in [D -> 0..(Extent - 1)] /\ last \in [D -> 0..(Extent - 1)]
      BY <3>1
    <3>3. \A d \in D : /\ b.offsets[d] <= first[d] /\ first[d] < End(b, d)
                       /\ b.offsets[d] <= last[d] /\ last[d] < End(b, d)
      BY <3>1, <1>2
    <3> QED BY <1>1, <3>2, <3>3 DEF Cells
  <2>4. \A d \in D : a.offsets[d] <= b.offsets[d] /\ End(b, d) <= End(a, d)
    <3> TAKE d \in D
    <3>1. a.offsets[d] <= first[d] /\ last[d] < End(a, d)
      BY <1>1, <1>4, <2>3 DEF Cells
    <3> QED BY <3>1, <1>2
  <2>5. \A d \in D : /\ SharedStart(a, b, d) = b.offsets[d]
                     /\ SharedEnd(a, b, d) = End(b, d)
                     /\ b.offsets[d] < End(b, d)
    <3> TAKE d \in D
    <3>1. x[d] \in Int
      BY <2>2
    <3> QED BY <3>1, <1>2, <2>2, <2>4 DEF SharedStart, SharedEnd, MinOf, MaxOf
  <2>6. Intersects(a, b)
    BY <1>1, <1>2, <2>5 DEF Intersects
  <2>7. c = b
    <3>1. \A d \in D : SharedEnd(a, b, d) - SharedStart(a, b, d) = b.local_shape[d]
      BY <1>2, <2>5
    <3>2. /\ b.offsets = [d \in D |-> SharedStart(a, b, d)]
          /\ b.local_shape = [d \in D |-> SharedEnd(a, b, d) - SharedStart(a, b, d)]
      BY <2>5, <3>1, SliceFacts
    <3> QED BY <3>2, <1>1, SliceFacts DEF Intersection
  <2> QED BY <2>6, <2>7 DEF Contains
<1> QED BY <1>3, <1>4

LEMMA WholeIsSlice ==
  ASSUME NEW D, NEW shape \in [D -> 0..Extent]
  PROVE  Whole(shape) \in SlicesOf(shape)
BY ExtentAssumption DEF Whole, SlicesOf

(* What two slices share is a slice of the same tensor. *)
LEMMA IntersectionIsSlice ==
  ASSUME NEW D, NEW shape \in [D -> 0..Extent], NEW a \in SlicesOf(shape),
         NEW b \in SlicesOf(shape), Intersects(a, b)
  PROVE  Intersection(a, b) \in SlicesOf(shape)
<1>1. /\ Dims(a) = D /\ Dims(b) = D
      /\ a.global_shape = shape /\ b.global_shape = shape
  BY SliceFacts DEF Dims
<1>2. ASSUME NEW d \in D
      PROVE  /\ SharedStart(a, b, d) \in 0..Extent
             /\ SharedEnd(a, b, d) - SharedStart(a, b, d) \in 0..Extent
             /\ SharedStart(a, b, d) + (SharedEnd(a, b, d) - SharedStart(a, b, d))
                  <= shape[d]
  <2>1. /\ a.offsets[d] \in Nat /\ b.offsets[d] \in Nat
        /\ a.local_shape[d] \in Nat /\ b.local_shape[d] \in Nat
        /\ End(a, d) = a.offsets[d] + a.local_shape[d]
        /\ End(b, d) = b.offsets[d] + b.local_shape[d]
        /\ End(a, d) <= shape[d] /\ End(b, d) <= shape[d]
        /\ shape[d] \in 0..Extent /\ Extent \in Nat
    BY SliceFacts, ExtentAssumption
  <2>2. \/ SharedStart(a, b, d) < SharedEnd(a, b, d)
        \/ MatchingEmpty(a, b, d)
    BY <1>1 DEF Intersects
  <2> QED BY <2>1, <2>2 DEF SharedStart, SharedEnd, MaxOf, MinOf, MatchingEmpty
<1> DEFINE c == Intersection(a, b)
<1>3. /\ c.offsets = [d \in D |-> SharedStart(a, b, d)]
      /\ c.local_shape = [d \in D |-> SharedEnd(a, b, d) - SharedStart(a, b, d)]
      /\ c.global_shape = shape
      /\ c = [offsets |-> c.offsets, local_shape |-> c.local_shape,
              global_shape |-> c.global_shape]
  BY <1>1 DEF Intersection
<1>4. DOMAIN shape = D
  OBVIOUS
<1> HIDE DEF c
<1>5. c.offsets \in [D -> 0..Extent] /\ c.local_shape \in [D -> 0..Extent]
  BY <1>2, <1>3
<1>6. \A d \in D : c.offsets[d] + c.local_shape[d] <= shape[d]
  BY <1>2, <1>3
<1>7. c \in [offsets : [D -> 0..Extent], local_shape : [D -> 0..Extent],
             global_shape : {shape}]
  BY <1>3, <1>5
<1> QED BY <1>4, <1>6, <1>7 DEF SlicesOf, c

(***************************************************************************)
(* get_slice_numel counts the cells of a slice, in any number of           *)
(* dimensions.                                                             *)
(***************************************************************************)
THEOREM NumelCounts ==
  ASSUME NEW D, IsFiniteSet(D), NEW shape \in [D -> 0..Extent],
         NEW s \in SlicesOf(shape)
  PROVE  /\ IsFiniteSet(Cells(s))
         /\ Numel(s.local_shape) = Cardinality(Cells(s))
<1>1. /\ Dims(s) = D /\ DOMAIN s.local_shape = D
      /\ \A d \in D : /\ s.offsets[d] \in Nat /\ s.local_shape[d] \in Nat
                      /\ End(s, d) = s.offsets[d] + s.local_shape[d]
                      /\ s.offsets[d] + s.local_shape[d] <= Extent
  BY SliceFacts
<1>2. Cells(s) = Box(D, s.offsets, s.local_shape)
  BY <1>1 DEF Cells, Box, End
<1>3. Numel(s.local_shape) = Fold("product", s.local_shape, D)
  BY <1>1, NumelIsFold
<1> QED BY <1>1, <1>2, <1>3, ProductCounts
=============================================================================
