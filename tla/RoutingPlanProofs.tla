------------------------- MODULE RoutingPlanProofs -------------------------
(***************************************************************************)
(* What holds of the plans of RoutingPlan for any number of publishers,    *)
(* requesters and state dicts and for tensors of any shape: a plan that    *)
(* the element count accepts is exact, replicas are chosen alike, one      *)
(* sharding is never refused, and a get returns all that was planned or    *)
(* nothing, and never nothing once all publishers have put the state dict. *)
(***************************************************************************)
EXTENDS RoutingPlan, TensorGeometryProofs

-----------------------------------------------------------------------------
(* The choice of a replica *)

Below(S, p) == { q \in S : q < p }

(* In a finite set of numbers, for each smaller count some number has that *)
(* many below it.                                                          *)
LEMMA NumberOfRank ==
  ASSUME NEW S \in SUBSET Nat, IsFiniteSet(S), NEW j \in Nat, j < Cardinality(S)
  PROVE  \E p \in S : Cardinality(Below(S, p)) = j
<1> DEFINE R == { e \in S \X S : e[1] < e[2] }
<1>1. \A p, q \in S : <<p, q>> \in R <=> p < q
  OBVIOUS
<1>2. \A p \in S : p \in Nat
  OBVIOUS
<1> HIDE DEF R
<1>3. IsOrder(S, R)
  BY <1>1, <1>2 DEF IsOrder
<1>4. PICK p \in S : Cardinality(Under(S, R, p)) = j
  BY <1>3, RankExists
<1>5. Under(S, R, p) = Below(S, p)
  BY <1>1 DEF Under, Below
<1> QED BY <1>4, <1>5

-----------------------------------------------------------------------------
(* What has been registered *)

(* Where the keys of a namespace are known, and what is known of them.     *)
RegisteredInv ==
  /\ \A n \in Namespace : \A p \in Publisher :
       registered[n][p] = None \/ registered[n][p] \in Menu[n][p]
  /\ \A r \in Requester : want[r] \in Wants[r]

AllRegistered(n) == \A p \in Publisher : registered[n][p] # None

LEMMA HeldKeys ==
  ASSUME RegisteredInv, NEW n \in Namespace, AllRegistered(n),
         NEW p \in Publisher, NEW k \in DOMAIN registered[n][p]
  PROVE  k \in KeysOf(n) /\ IsSlice(registered[n][p][k])
<1>1. registered[n][p] \in Menu[n][p]
  BY DEF RegisteredInv, AllRegistered
<1>2. k \in UNION { DOMAIN slices : slices \in Menu[n][p] }
  BY <1>1
<1>3. k \in KeysOf(n)
  BY <1>2 DEF KeysOf
<1>4. \A slices \in Menu[n][p] : \A l \in DOMAIN slices : IsSlice(slices[l])
  BY SliceAssumption
<1> QED BY <1>1, <1>3, <1>4

LEMMA WantedKeys ==
  ASSUME RegisteredInv, NEW n \in Namespace, NEW r \in Requester,
         NEW k \in DOMAIN want[r][n]
  PROVE  k \in KeysOf(n) /\ IsSlice(want[r][n][k])
<1>1. want[r] \in Wants[r]
  BY DEF RegisteredInv
<1>2. k \in UNION { DOMAIN w[n] : w \in Wants[r] }
  BY <1>1
<1>4. k \in KeysOf(n)
  BY <1>2 DEF KeysOf
<1>3. \A w \in Wants[r] : \A l \in DOMAIN w[n] : IsSlice(w[n][l])
  BY SliceAssumption
<1> QED BY <1>1, <1>3, <1>4

LEMMA GroupsAreFinite ==
  ASSUME NEW n, NEW k
  PROVE  /\ IsFiniteSet(Holders(n, k)) /\ IsFiniteSet(Groups(n, k))
         /\ \A g \in Groups(n, k) :
              Replicas(n, k, g) # {} /\ IsFiniteSet(Replicas(n, k, g))
<1>1. Holders(n, k) \in SUBSET Publisher /\ IsFiniteSet(Publisher)
  BY PublisherAssumption DEF Holders
<1>2. IsFiniteSet(Holders(n, k))
  BY <1>1, FS_Subset
<1> DEFINE f == [p \in Holders(n, k) |-> registered[n][p][k]]
<1>3. f \in Surjection(Holders(n, k), Groups(n, k))
  BY DEF Surjection, Groups
<1>4. IsFiniteSet(Groups(n, k))
  BY <1>2, <1>3, FS_Surjection
<1>5. ASSUME NEW g \in Groups(n, k)
      PROVE  Replicas(n, k, g) # {} /\ IsFiniteSet(Replicas(n, k, g))
  <2>1. Replicas(n, k, g) # {}
    BY DEF Replicas, Groups
  <2>2. Replicas(n, k, g) \in SUBSET Holders(n, k)
    BY DEF Replicas
  <2> QED BY <1>2, <2>1, <2>2, FS_Subset
<1> QED BY <1>2, <1>4, <1>5

(* _Rotate.choose returns one of the candidates. *)
LEMMA SourceIsReplica ==
  ASSUME NEW n, NEW k, Hash[k] \in Nat, NEW g \in Groups(n, k), NEW i \in Nat
  PROVE  Source(n, k, g, i) \in Replicas(n, k, g)
<1> DEFINE S == Replicas(n, k, g)
           c == Cardinality(S)
           j == (Hash[k] + i) % c
<1>1. S \in SUBSET Nat /\ S # {} /\ IsFiniteSet(S)
  <2>1. S # {} /\ IsFiniteSet(S)
    BY GroupsAreFinite
  <2>2. S \in SUBSET Nat
    BY PublisherAssumption DEF Replicas, Holders
  <2> QED BY <2>1, <2>2
<1>2. c \in Nat /\ c # 0
  BY <1>1, FS_CardinalityType, FS_EmptySet
<1> HIDE DEF c
<1>3. j \in Nat /\ j < c
  BY <1>2
<1> HIDE DEF S
<1>4. \E p \in S : Cardinality(Below(S, p)) = j
  BY <1>1, <1>3, NumberOfRank DEF c
<1>5. Source(n, k, g, i) = CHOOSE p \in S : Cardinality(Below(S, p)) = j
  BY DEF Source, Below, S, c
<1> QED BY <1>4, <1>5 DEF S

LEMMA IndexIsNat ==
  ASSUME NEW n, NEW k, NEW g
  PROVE  IndexIn(Groups(n, k), g) \in Nat
<1>1. { h \in Groups(n, k) : Precedes(h, g) } \in SUBSET Groups(n, k)
  OBVIOUS
<1>2. IsFiniteSet({ h \in Groups(n, k) : Precedes(h, g) })
  BY <1>1, GroupsAreFinite, FS_Subset
<1> QED BY <1>2, FS_CardinalityType DEF IndexIn

(* A read comes from a publisher that holds what is read. *)
LEMMA ReadsAreOfReplicas ==
  ASSUME NEW n, NEW k, Hash[k] \in Nat, NEW target,
         NEW t \in Transfers(n, k, target)
  PROVE  \E g \in Groups(n, k) :
           /\ Intersects(target, g)
           /\ t = [source |-> Source(n, k, g, IndexIn(Groups(n, k), g)),
                   segment |-> Intersection(target, g)]
           /\ t.source \in Holders(n, k) /\ registered[n][t.source][k] = g
<1>1. PICK g \in Groups(n, k) :
        /\ Intersects(target, g)
        /\ t = [source |-> Source(n, k, g, IndexIn(Groups(n, k), g)),
                segment |-> Intersection(target, g)]
  BY DEF Transfers
<1>2. t.source \in Replicas(n, k, g)
  BY <1>1, SourceIsReplica, IndexIsNat
<1> QED BY <1>1, <1>2 DEF Replicas

-----------------------------------------------------------------------------
(* What the element count says *)

LEMMA TransfersAreFinite ==
  ASSUME NEW n, NEW k, NEW target
  PROVE  IsFiniteSet(Transfers(n, k, target))
<1> DEFINE touched == { g \in Groups(n, k) : Intersects(target, g) }
           read(g) == [source  |-> Source(n, k, g, IndexIn(Groups(n, k), g)),
                       segment |-> Intersection(target, g)]
           f == [g \in touched |-> read(g)]
<1>1. touched \in SUBSET Groups(n, k)
  OBVIOUS
<1>2. IsFiniteSet(touched)
  BY <1>1, GroupsAreFinite, FS_Subset
<1>3. Transfers(n, k, target) = { read(g) : g \in touched }
  BY DEF Transfers
<1> HIDE DEF read, touched
<1>4. f \in Surjection(touched, Transfers(n, k, target))
  BY <1>3 DEF Surjection
<1> QED BY <1>2, <1>4, FS_Surjection

(* The slices of a key all lie in a tensor of one shape.                   *)
Alike(n, k, target) ==
  /\ IsSlice(target)
  /\ \A g \in Groups(n, k) : IsSlice(g) /\ g.global_shape = target.global_shape

(* The cells that the publishers have of what is asked for.                *)
Published(n, k, target) ==
  Cells(target) \cap UNION { Cells(g) : g \in Groups(n, k) }

(* A read brings the cells that its group and the target share.            *)
LEMMA ReadBrings ==
  ASSUME NEW n, NEW k, NEW target, Alike(n, k, target), NEW g \in Groups(n, k)
  PROVE  /\ Intersects(target, g) =>
              /\ Cells(Intersection(target, g)) = Cells(target) \cap Cells(g)
              /\ IsFiniteSet(Cells(Intersection(target, g)))
              /\ Numel(Intersection(target, g).local_shape)
                   = Cardinality(Cells(Intersection(target, g)))
         /\ ~Intersects(target, g) => Cells(target) \cap Cells(g) = {}
<1> DEFINE shape == target.global_shape
           D == DOMAIN shape
<1>1. /\ IsFiniteSet(D) /\ shape \in [D -> 0..Extent]
      /\ target \in SlicesOf(shape) /\ g \in SlicesOf(shape)
  BY DEF Alike, IsSlice
<1> HIDE DEF shape, D
<1>2. /\ Intersects(target, g)
           => Cells(Intersection(target, g)) = Cells(target) \cap Cells(g)
      /\ ~Intersects(target, g) => Cells(target) \cap Cells(g) = {}
  BY <1>1, IntersectionIsExact
<1>3. ASSUME Intersects(target, g)
      PROVE  /\ IsFiniteSet(Cells(Intersection(target, g)))
             /\ Numel(Intersection(target, g).local_shape)
                  = Cardinality(Cells(Intersection(target, g)))
  <2>1. Intersection(target, g) \in SlicesOf(shape)
    BY <1>1, <1>3, IntersectionIsSlice
  <2> QED BY <1>1, <2>1, NumelCounts
<1> QED BY <1>2, <1>3

LEMMA TransfersBring ==
  ASSUME NEW n, NEW k, NEW target, Alike(n, k, target)
  PROVE  UNION { Cells(t.segment) : t \in Transfers(n, k, target) }
           = Published(n, k, target)
<1> DEFINE read(g) == [source  |-> Source(n, k, g, IndexIn(Groups(n, k), g)),
                       segment |-> Intersection(target, g)]
           brought == UNION { Cells(t.segment) : t \in Transfers(n, k, target) }
<1>1. ASSUME NEW c \in brought PROVE c \in Published(n, k, target)
  <2>1. PICK t \in Transfers(n, k, target) : c \in Cells(t.segment)
    OBVIOUS
  <2>2. PICK g \in Groups(n, k) : Intersects(target, g) /\ t = read(g)
    BY DEF Transfers
  <2>3. c \in Cells(target) \cap Cells(g)
    BY <2>1, <2>2, ReadBrings
  <2> QED BY <2>3 DEF Published
<1>2. ASSUME NEW c \in Published(n, k, target) PROVE c \in brought
  <2>1. PICK g \in Groups(n, k) : c \in Cells(target) /\ c \in Cells(g)
    BY DEF Published
  <2>2. Intersects(target, g)
        /\ Cells(Intersection(target, g)) = Cells(target) \cap Cells(g)
    BY <2>1, ReadBrings
  <2>3. read(g) \in Transfers(n, k, target)
    BY <2>2 DEF Transfers
  <2>4. c \in Cells(read(g).segment)
    BY <2>1, <2>2
  <2> HIDE DEF read
  <2> QED BY <2>3, <2>4
<1> QED BY <1>1, <1>2

(* Reads of slices that do not overlap bring no cell twice.                *)
LEMMA TransfersApart ==
  ASSUME NEW n, NEW k, NEW target, Alike(n, k, target), Disjoint(Groups(n, k)),
         NEW t \in Transfers(n, k, target), NEW u \in Transfers(n, k, target),
         t # u
  PROVE  Cells(t.segment) \cap Cells(u.segment) = {}
<1> DEFINE read(g) == [source  |-> Source(n, k, g, IndexIn(Groups(n, k), g)),
                       segment |-> Intersection(target, g)]
<1>1. PICK g \in Groups(n, k) : Intersects(target, g) /\ t = read(g)
  BY DEF Transfers
<1>2. PICK h \in Groups(n, k) : Intersects(target, h) /\ u = read(h)
  BY DEF Transfers
<1>3. Cells(g) \cap Cells(h) = {}
  BY <1>1, <1>2 DEF Disjoint
<1>4. /\ Cells(t.segment) = Cells(target) \cap Cells(g)
      /\ Cells(u.segment) = Cells(target) \cap Cells(h)
  BY <1>1, <1>2, ReadBrings
<1> QED BY <1>3, <1>4

(* So the sum of the elements read is the number of cells they fill.       *)
LEMMA ReadNumelCounts ==
  ASSUME NEW n, NEW k, NEW target, Alike(n, k, target), Disjoint(Groups(n, k))
  PROVE  /\ IsFiniteSet(Published(n, k, target))
         /\ ReadNumel(n, k, target) = Cardinality(Published(n, k, target))
         /\ IsFiniteSet(Cells(target))
         /\ Numel(target.local_shape) = Cardinality(Cells(target))
<1> DEFINE S == Transfers(n, k, target)
           part == [t \in S |-> Cells(t.segment)]
           size == [t \in S |-> Numel(t.segment.local_shape)]
<1>1. IsFiniteSet(S)
  BY TransfersAreFinite
<1>2. \A t \in S : IsFiniteSet(part[t]) /\ size[t] = Cardinality(part[t])
  <2>1. ASSUME NEW t \in S
        PROVE  /\ IsFiniteSet(Cells(t.segment))
               /\ Numel(t.segment.local_shape) = Cardinality(Cells(t.segment))
    <3>1. PICK g \in Groups(n, k) :
            Intersects(target, g) /\ t.segment = Intersection(target, g)
      BY DEF Transfers
    <3> QED BY <3>1, ReadBrings
  <2> QED BY <2>1
<1>3. \A t, u \in S : t # u => part[t] \cap part[u] = {}
  BY TransfersApart
<1>4. UNION { part[t] : t \in S } = Published(n, k, target)
  <2>1. { part[t] : t \in S } = { Cells(t.segment) : t \in S }
    OBVIOUS
  <2> QED BY <2>1, TransfersBring
<1>5. ReadNumel(n, k, target) = SumFunctionOnSet(size, S)
  BY DEF ReadNumel, SumFunction
<1> HIDE DEF S, part, size
<1>6. /\ IsFiniteSet(Published(n, k, target))
      /\ ReadNumel(n, k, target) = Cardinality(Published(n, k, target))
  <2>1. /\ IsFiniteSet(UNION { part[t] : t \in S })
        /\ SumFunctionOnSet(size, S) = Cardinality(UNION { part[t] : t \in S })
    BY <1>1, <1>2, <1>3, SumCounts, SMTT(60)
  <2> QED BY <1>4, <1>5, <2>1
<1>7. /\ IsFiniteSet(Cells(target))
      /\ Numel(target.local_shape) = Cardinality(Cells(target))
  BY NumelCounts DEF Alike, IsSlice
<1> QED BY <1>6, <1>7

(* The count is right exactly when every cell asked for is published.      *)
LEMMA CountIsCover ==
  ASSUME NEW n, NEW k, NEW target, Alike(n, k, target), Disjoint(Groups(n, k))
  PROVE  Counted(n, k, target) <=> Published(n, k, target) = Cells(target)
<1>1. Published(n, k, target) \in SUBSET Cells(target)
  BY DEF Published
<1>2. Cardinality(Cells(target)) = Cardinality(Published(n, k, target))
        => Cells(target) = Published(n, k, target)
  BY <1>1, ReadNumelCounts, FS_Subset
<1> QED BY <1>2, ReadNumelCounts DEF Counted

-----------------------------------------------------------------------------
(* What stays when all publishers of a namespace have registered *)

LEMMA SameHolders ==
  ASSUME NEW n, registered'[n] = registered[n], NEW k
  PROVE  /\ Holders(n, k)' = Holders(n, k)
         /\ Groups(n, k)' = Groups(n, k)
         /\ \A g : Replicas(n, k, g)' = Replicas(n, k, g)
         /\ PublishedKeys(n)' = PublishedKeys(n)
<1>1. Holders(n, k)' = Holders(n, k)
  BY DEF Holders
<1> QED BY <1>1 DEF Groups, Replicas, PublishedKeys

LEMMA SameTransfers ==
  ASSUME NEW n, registered'[n] = registered[n], NEW k
  PROVE  /\ \A g, i : Source(n, k, g, i)' = Source(n, k, g, i)
         /\ \A target : Transfers(n, k, target)' = Transfers(n, k, target)
         /\ \A target : ReadNumel(n, k, target)' = ReadNumel(n, k, target)
<1>1. ASSUME NEW g, NEW i PROVE Source(n, k, g, i)' = Source(n, k, g, i)
  BY SameHolders DEF Source
<1>2. ASSUME NEW target
      PROVE  Transfers(n, k, target)' = Transfers(n, k, target)
  <2>1. Groups(n, k)' = Groups(n, k)
    BY SameHolders
  <2> QED BY <1>1, <2>1 DEF Transfers
<1>3. ASSUME NEW target
      PROVE  ReadNumel(n, k, target)' = ReadNumel(n, k, target)
  BY <1>2 DEF ReadNumel
<1> QED BY <1>1, <1>2, <1>3

-----------------------------------------------------------------------------
(* The invariant *)

Slices == {None} \cup UNION { Menu[n][p] : n \in Namespace, p \in Publisher }
Wanted == UNION { Wants[r] : r \in Requester }

TypeInv ==
  /\ registered \in [Namespace -> [Publisher -> Slices]]
  /\ stored \in [Namespace -> SUBSET Publisher]
  /\ want \in [Requester -> Wanted]
  /\ DOMAIN routes = Requester /\ routes = [r \in Requester |-> routes[r]]
  /\ installed \in [Requester -> SUBSET Namespace]
  /\ refused \in [Requester -> SUBSET [of : Namespace, strict : BOOLEAN]]

(* The reads of key k are those planned for state dict n.                  *)
IsPlanOf(r, n, k) ==
  /\ k \in DOMAIN want[r][n] /\ k \in PublishedKeys(n)
  /\ routes[r][k] = Transfers(n, k, want[r][n][k])
  /\ ReadNumel(n, k, want[r][n][k]) = Numel(want[r][n][k].local_shape)
  /\ \A g \in Groups(n, k) : g.global_shape = want[r][n][k].global_shape

RoutesArePlans ==
  \A r \in Requester : \A k \in DOMAIN routes[r] :
    \E n \in installed[r] : IsPlanOf(r, n, k)

InstalledAreRegistered ==
  \A r \in Requester : \A n \in installed[r] : AllRegistered(n)

RefusedRightly ==
  \A r \in Requester : \A plan \in refused[r] :
    /\ AllRegistered(plan.of)
    /\ ~Accepts(r, plan.of, Asked(r, plan.of, plan.strict))

PlanInv ==
  /\ TypeInv /\ RegisteredInv /\ RoutesArePlans /\ InstalledAreRegistered
  /\ RefusedRightly

(* A key tells the state dict it belongs to.                               *)
LEMMA KeyTellsNamespace ==
  ASSUME NEW n \in Namespace, NEW m \in Namespace, NEW k \in KeysOf(n),
         k \in KeysOf(m)
  PROVE  m = n
BY KeyAssumption

(* So the reads of a key that is wanted of n are those planned for n.      *)
LEMMA PlannedIsPlan ==
  ASSUME TypeInv, RegisteredInv, RoutesArePlans, InstalledAreRegistered,
         NEW r \in Requester, NEW n \in Namespace, NEW k \in DOMAIN routes[r],
         k \in KeysOf(n)
  PROVE  n \in installed[r] /\ IsPlanOf(r, n, k)
<1>1. PICK m \in installed[r] : IsPlanOf(r, m, k)
  BY DEF RoutesArePlans
<1>2. m \in Namespace
  BY DEF TypeInv
<1>3. k \in KeysOf(m)
  BY <1>1, <1>2, WantedKeys DEF IsPlanOf
<1>4. m = n
  BY <1>2, <1>3, KeyTellsNamespace
<1> QED BY <1>1, <1>4

LEMMA GroupsAreSlices ==
  ASSUME RegisteredInv, NEW n \in Namespace, AllRegistered(n), NEW k,
         NEW g \in Groups(n, k)
  PROVE  IsSlice(g) /\ k \in KeysOf(n) /\ k \in PublishedKeys(n)
<1>1. PICK p \in Holders(n, k) : g = registered[n][p][k]
  BY DEF Groups
<1>2. p \in Publisher /\ k \in DOMAIN registered[n][p]
  BY DEF Holders
<1> QED BY <1>1, <1>2, HeldKeys DEF PublishedKeys

LEMMA PlannedAlike ==
  ASSUME PlanInv, NEW r \in Requester, NEW n \in Namespace, NEW k \in Planned(r, n)
  PROVE  /\ n \in installed[r] /\ IsPlanOf(r, n, k)
         /\ Alike(n, k, want[r][n][k])
         /\ Hash[k] \in Nat
<1>1. k \in KeysOf(n) /\ IsSlice(want[r][n][k])
  BY WantedKeys DEF PlanInv, Planned
<1>2. n \in installed[r] /\ IsPlanOf(r, n, k)
  BY <1>1, PlannedIsPlan DEF PlanInv, Planned
<1>3. AllRegistered(n)
  BY <1>2 DEF PlanInv, InstalledAreRegistered
<1>4. \A g \in Groups(n, k) : IsSlice(g)
  BY <1>3, GroupsAreSlices DEF PlanInv
<1>5. Hash[k] \in Nat
  BY <1>1, KeyAssumption
<1> QED BY <1>1, <1>2, <1>4, <1>5 DEF Alike, IsPlanOf

LEMMA PlansAreExact ==
  ASSUME PlanInv
  PROVE  PlanIsExact
<1> SUFFICES ASSUME NEW r \in Requester, NEW n \in Namespace,
                    NEW k \in Planned(r, n), Disjoint(Groups(n, k))
             PROVE  /\ UNION { Cells(t.segment) : t \in routes[r][k] }
                         = Cells(want[r][n][k])
                    /\ \A t, u \in routes[r][k] :
                         t # u => Cells(t.segment) \cap Cells(u.segment) = {}
  BY DEF PlanIsExact
<1>1. PICK target : target = want[r][n][k]
  OBVIOUS
<1>2. /\ Alike(n, k, target) /\ routes[r][k] = Transfers(n, k, target)
      /\ Counted(n, k, target)
  BY <1>1, PlannedAlike DEF IsPlanOf, Counted
<1>3. Published(n, k, target) = Cells(target)
  BY <1>2, CountIsCover
<1> QED BY <1>1, <1>2, <1>3, TransfersBring, TransfersApart

LEMMA ReplicasAreChosenAlike ==
  ASSUME PlanInv
  PROVE  SourcesAgree
<1> SUFFICES ASSUME NEW r \in Requester, NEW s \in Requester, NEW n \in Namespace,
                    NEW k \in Planned(r, n), k \in Planned(s, n),
                    NEW t \in routes[r][k], NEW u \in routes[s][k],
                    registered[n][t.source][k] = registered[n][u.source][k]
             PROVE  t.source = u.source
  BY DEF SourcesAgree
<1>1. /\ Hash[k] \in Nat
      /\ t \in Transfers(n, k, want[r][n][k])
      /\ u \in Transfers(n, k, want[s][n][k])
  BY PlannedAlike DEF IsPlanOf
<1>2. PICK g \in Groups(n, k) :
        /\ t.source = Source(n, k, g, IndexIn(Groups(n, k), g))
        /\ registered[n][t.source][k] = g
  <2>1. PICK target : target = want[r][n][k]
    OBVIOUS
  <2> QED BY <1>1, <2>1, ReadsAreOfReplicas
<1>3. PICK h \in Groups(n, k) :
        /\ u.source = Source(n, k, h, IndexIn(Groups(n, k), h))
        /\ registered[n][u.source][k] = h
  <2>1. PICK target : target = want[s][n][k]
    OBVIOUS
  <2> QED BY <1>1, <2>1, ReadsAreOfReplicas
<1> QED BY <1>2, <1>3

LEMMA CellsOfWhole ==
  ASSUME NEW s, IsSlice(s)
  PROVE  Cells(s) \subseteq Cells(Whole(s.global_shape))
<1> DEFINE shape == s.global_shape
           D == DOMAIN shape
<1>1. shape \in [D -> 0..Extent] /\ s \in SlicesOf(shape)
  BY DEF IsSlice
<1>2. Dims(Whole(shape)) = D /\ Dims(s) = D
  BY DEF Dims, Whole
<1> HIDE DEF D
<1>3. ASSUME NEW x \in Cells(s) PROVE x \in Cells(Whole(shape))
  <2>1. x \in [D -> 0..(Extent - 1)]
    BY <1>2 DEF Cells
  <2>2. ASSUME NEW d \in D
        PROVE  /\ Whole(shape).offsets[d] <= x[d]
               /\ x[d] < End(Whole(shape), d)
    <3>1. /\ s.offsets[d] + s.local_shape[d] <= shape[d]
          /\ s.offsets[d] \in Nat /\ s.local_shape[d] \in Nat
      BY <1>1 DEF SlicesOf, D
    <3>2. x[d] \in Nat /\ x[d] < s.offsets[d] + s.local_shape[d]
      BY <1>2, <2>1, ExtentAssumption DEF Cells, End
    <3>3. /\ Whole(shape).offsets[d] = 0
          /\ Whole(shape).local_shape[d] = shape[d]
      BY DEF Whole, D
    <3>4. shape[d] \in Nat
      BY <1>1, ExtentAssumption
    <3> QED BY <3>1, <3>2, <3>3, <3>4 DEF End
  <2> QED BY <1>2, <2>1, <2>2 DEF Cells
<1> QED BY <1>3

LEMMA ShardedIsAccepted ==
  ASSUME PlanInv
  PROVE  ShardingIsAccepted
<1> SUFFICES ASSUME NEW r \in Requester, NEW plan \in refused[r],
                    NEW n, n = plan.of, NEW keys,
                    keys = Asked(r, n, plan.strict),
                    \A k \in keys \cup PublishedKeys(n) : Sharded(n, k),
                    \A k \in keys : \A g \in Groups(n, k) :
                      g.global_shape = want[r][n][k].global_shape
             PROVE  Accepts(r, n, keys)
  BY DEF ShardingIsAccepted, PlanInv, RefusedRightly
<1>1. n \in Namespace /\ AllRegistered(n)
  BY DEF PlanInv, TypeInv, RefusedRightly
<1>2. RegisteredInv
  BY DEF PlanInv
<1>3. keys \subseteq DOMAIN want[r][n]
  BY DEF Asked
<1>4. keys \subseteq PublishedKeys(n)
  <2>1. ASSUME NEW k \in keys PROVE k \in PublishedKeys(n)
    <3>1. PICK g \in Groups(n, k) : TRUE
      BY DEF Sharded
    <3> QED BY <1>1, <1>2, GroupsAreSlices
  <2> QED BY <2>1
<1>5. Consistent(n, r, keys)
  <2> SUFFICES ASSUME NEW k \in keys \cup PublishedKeys(n),
                      NEW g \in Groups(n, k) \cup { want[r][n][k] : j \in keys \cap {k} },
                      NEW h \in Groups(n, k) \cup { want[r][n][k] : j \in keys \cap {k} }
               PROVE  g.global_shape = h.global_shape
    BY DEF Consistent
  <2>1. PICK b \in Groups(n, k) : TRUE
    BY DEF Sharded
  <2>2. \A x \in Groups(n, k) : x.global_shape = b.global_shape
    BY DEF Sharded
  <2>3. k \in keys => want[r][n][k].global_shape = b.global_shape
    BY <2>1
  <2> QED BY <2>2, <2>3
<1>6. ASSUME NEW k \in keys
      PROVE  Counted(n, k, want[r][n][k])
  <2>1. PICK target : target = want[r][n][k]
    OBVIOUS
  <2>2. IsSlice(target)
    BY <1>1, <1>2, <1>3, <2>1, WantedKeys
  <2>3. Alike(n, k, target) /\ Disjoint(Groups(n, k))
    BY <1>1, <1>2, <2>1, <2>2, GroupsAreSlices DEF Alike, Sharded
  <2>4. PICK g \in Groups(n, k) : TRUE
    BY DEF Sharded
  <2>5. UNION { Cells(h) : h \in Groups(n, k) } = Cells(Whole(target.global_shape))
    BY <2>1, <2>4 DEF Sharded
  <2>6. Published(n, k, target) = Cells(target)
    BY <2>2, <2>5, CellsOfWhole DEF Published
  <2> QED BY <2>1, <2>3, <2>6, CountIsCover
<1> QED BY <1>4, <1>5, <1>6 DEF Accepts

(* A key whose reads bring cells is read from somewhere.                   *)
LEMMA PlanIsRead ==
  ASSUME PlanInv, NEW r \in Requester, NEW n \in Namespace, NEW k \in Planned(r, n),
         Cells(want[r][n][k]) # {}
  PROVE  \E t \in routes[r][k] : t.source \in Publisher
                                 /\ k \in DOMAIN registered[n][t.source]
<1>1. PICK target : target = want[r][n][k]
  OBVIOUS
<1>2. /\ Alike(n, k, target) /\ routes[r][k] = Transfers(n, k, target)
      /\ ReadNumel(n, k, target) = Numel(target.local_shape)
      /\ Hash[k] \in Nat
  BY <1>1, PlannedAlike DEF IsPlanOf
<1>3. Transfers(n, k, target) # {}
  <2> SUFFICES ASSUME Transfers(n, k, target) = {} PROVE FALSE
    OBVIOUS
  <2> DEFINE size == [t \in Transfers(n, k, target) |-> Numel(t.segment.local_shape)]
  <2>1. DOMAIN size = {} /\ ReadNumel(n, k, target) = SumFunctionOnSet(size, DOMAIN size)
    BY DEF ReadNumel, SumFunction
  <2>2. ReadNumel(n, k, target) = 0
    BY <2>1, SumEquations, FS_EmptySet
  <2>3. /\ IsFiniteSet(Cells(target))
        /\ Numel(target.local_shape) = Cardinality(Cells(target))
    BY <1>2, NumelCounts DEF Alike, IsSlice
  <2>4. Cardinality(Cells(target)) # 0
    BY <1>1, <2>3, FS_EmptySet
  <2> QED BY <1>2, <2>2, <2>3, <2>4
<1>4. PICK t \in Transfers(n, k, target) : TRUE
  BY <1>3
<1>5. t.source \in Holders(n, k)
  BY <1>2, <1>4, ReadsAreOfReplicas
<1> QED BY <1>2, <1>4, <1>5 DEF Holders

(* The mapping is read from volumes that know all that was planned.        *)
LEMMA MappingIsPlanned ==
  ASSUME PlanInv, NEW r \in Requester, NEW n \in Namespace, n \in installed[r],
         Planned(r, n) # {}, \A k \in Planned(r, n) : Cells(want[r][n][k]) # {}
  PROVE  /\ ObjectVolumes(r) # {} /\ ObjectVolumes(r) \subseteq Publisher
         /\ Mapping(r, n) = Planned(r, n)
         /\ \A k \in Mapping(r, n) : routes[r][k] # {}
<1>1. RegisteredInv /\ AllRegistered(n)
  BY DEF PlanInv, InstalledAreRegistered
<1>2. ASSUME NEW k \in Planned(r, n)
      PROVE  /\ routes[r][k] # {}
             /\ \E p \in ObjectVolumes(r) : k \in DOMAIN registered[n][p]
  <2>1. PICK t \in routes[r][k] : k \in DOMAIN registered[n][t.source]
    BY PlanIsRead
  <2>2. t.source \in ObjectVolumes(r)
    BY <2>1 DEF ObjectVolumes, Planned
  <2> QED BY <2>1, <2>2
<1>3. ASSUME NEW p \in ObjectVolumes(r) PROVE p \in Publisher
  <2>1. PICK k \in DOMAIN routes[r] : \E t \in routes[r][k] : p = t.source
    BY DEF ObjectVolumes
  <2>2. PICK m \in installed[r] : IsPlanOf(r, m, k)
    BY DEF PlanInv, RoutesArePlans
  <2>3. m \in Namespace
    BY DEF PlanInv, TypeInv
  <2>4. k \in Planned(r, m)
    BY <2>1, <2>2 DEF Planned, IsPlanOf
  <2>5. Hash[k] \in Nat
    BY <2>3, <2>4, PlannedAlike
  <2>6. PICK target : target = want[r][m][k]
    OBVIOUS
  <2>7. PICK t \in Transfers(m, k, target) : p = t.source
    BY <2>1, <2>2, <2>6 DEF IsPlanOf
  <2>8. t.source \in Holders(m, k)
    BY <2>5, <2>7, ReadsAreOfReplicas
  <2> QED BY <2>7, <2>8 DEF Holders
<1>4. ASSUME NEW k \in Mapping(r, n) PROVE k \in Planned(r, n)
  <2>1. PICK p \in ObjectVolumes(r) : k \in DOMAIN registered[n][p]
    BY DEF Mapping
  <2>2. k \in KeysOf(n)
    BY <1>1, <1>3, <2>1, HeldKeys
  <2>3. k \in DOMAIN want[r][n]
    BY <2>2, PlannedIsPlan DEF PlanInv, IsPlanOf, Mapping
  <2> QED BY <2>3 DEF Mapping, Planned
<1>5. ASSUME NEW k \in Planned(r, n) PROVE k \in Mapping(r, n)
  BY <1>2 DEF Mapping, Planned
<1>6. Mapping(r, n) = Planned(r, n)
  BY <1>4, <1>5
<1> QED BY <1>2, <1>3, <1>6

LEMMA GetsAreComplete ==
  ASSUME PlanInv
  PROVE  GetIsComplete
<1> SUFFICES ASSUME NEW r \in Requester, NEW n \in installed[r],
                    NEW strict \in BOOLEAN, Planned(r, n) # {},
                    \A k \in Planned(r, n) : Cells(want[r][n][k]) # {}
             PROVE  /\ Get(r, n, strict) \in {{}, Planned(r, n)}
                    /\ stored[n] = Publisher
                         /\ (strict => DOMAIN want[r][n] \subseteq DOMAIN routes[r])
                         => Get(r, n, strict) = Planned(r, n)
  BY DEF GetIsComplete
<1>1. n \in Namespace
  BY DEF PlanInv, TypeInv
<1>2. /\ ObjectVolumes(r) # {} /\ ObjectVolumes(r) \subseteq Publisher
      /\ Mapping(r, n) = Planned(r, n)
      /\ \A k \in Mapping(r, n) : routes[r][k] # {}
  BY <1>1, MappingIsPlanned
<1>3. DOMAIN want[r][n] \subseteq DOMAIN routes[r] => Planned(r, n) = DOMAIN want[r][n]
  BY DEF Planned
<1> QED BY <1>2, <1>3 DEF Get, MappingIsFound

-----------------------------------------------------------------------------
(* Every step keeps the invariant *)

LEMMA PlanStays ==
  ASSUME NEW n, registered'[n] = registered[n], want' = want,
         NEW r, NEW k, routes'[r][k] = routes[r][k], IsPlanOf(r, n, k)
  PROVE  IsPlanOf(r, n, k)'
<1>1. PICK target : target = want[r][n][k]
  OBVIOUS
<1>2. /\ PublishedKeys(n)' = PublishedKeys(n)
      /\ Groups(n, k)' = Groups(n, k)
  BY SameHolders
<1>3. /\ Transfers(n, k, target)' = Transfers(n, k, target)
      /\ ReadNumel(n, k, target)' = ReadNumel(n, k, target)
  BY SameTransfers
<1>4. want'[r][n][k] = target
  BY <1>1
<1>5. /\ Transfers(n, k, want[r][n][k])' = Transfers(n, k, target)
      /\ ReadNumel(n, k, want[r][n][k])' = ReadNumel(n, k, target)
  BY <1>3, <1>4
<1> QED BY <1>1, <1>2, <1>4, <1>5 DEF IsPlanOf

LEMMA VerdictStays ==
  ASSUME NEW n, registered'[n] = registered[n], want' = want, NEW r, NEW strict
  PROVE  Accepts(r, n, Asked(r, n, strict))' <=> Accepts(r, n, Asked(r, n, strict))
<1>1. PublishedKeys(n)' = PublishedKeys(n)
  BY SameHolders
<1>2. PICK keys : keys = Asked(r, n, strict)
  OBVIOUS
<1>3. Asked(r, n, strict)' = keys
  BY <1>1, <1>2 DEF Asked
<1>4. ASSUME NEW k PROVE Counted(n, k, want[r][n][k])' <=> Counted(n, k, want[r][n][k])
  <2>1. PICK target : target = want[r][n][k]
    OBVIOUS
  <2>2. want'[r][n][k] = target
    BY <2>1
  <2>3. ReadNumel(n, k, target)' = ReadNumel(n, k, target)
    BY SameTransfers
  <2>4. ReadNumel(n, k, want[r][n][k])' = ReadNumel(n, k, target)
    BY <2>2, <2>3
  <2> QED BY <2>1, <2>2, <2>4 DEF Counted
<1>5. Consistent(n, r, keys)' <=> Consistent(n, r, keys)
  <2>1. \A k : Groups(n, k)' = Groups(n, k)
    BY SameHolders
  <2> QED BY <1>1, <2>1 DEF Consistent
<1>6. Accepts(r, n, keys)' <=> Accepts(r, n, keys)
  BY <1>1, <1>4, <1>5 DEF Accepts
<1> QED BY <1>2, <1>3, <1>6

(* A namespace that all have registered changes no more.                   *)
LEMMA RegisteredStays ==
  ASSUME PlanInv, [Next]_vars, NEW n \in Namespace, AllRegistered(n)
  PROVE  registered'[n] = registered[n] /\ AllRegistered(n)'
<1>1. registered'[n] = registered[n]
  <2>1. ASSUME NEW m \in Namespace, NEW p \in Publisher, NEW slices \in Menu[m][p],
               Register(p, m, slices)
        PROVE  registered'[n] = registered[n]
    <3>1. m # n
      BY <2>1 DEF Register, AllRegistered
    <3> QED BY <2>1, <3>1 DEF Register, PlanInv, TypeInv
  <2>2. ASSUME UNCHANGED registered PROVE registered'[n] = registered[n]
    BY <2>2
  <2> QED BY <2>1, <2>2 DEF Next, Plan, Store, vars
<1> QED BY <1>1 DEF AllRegistered

LEMMA WantStays ==
  ASSUME [Next]_vars
  PROVE  want' = want
BY DEF Next, Register, Store, Plan, vars

LEMMA PlanInvInit ==
  ASSUME Init
  PROVE  PlanInv
<1>1. TypeInv
  BY DEF Init, TypeInv, Slices, Wanted
<1>2. RegisteredInv
  BY DEF Init, RegisteredInv
<1>3. RoutesArePlans
  BY DEF Init, RoutesArePlans, NoRoutes
<1>4. InstalledAreRegistered /\ RefusedRightly
  BY DEF Init, InstalledAreRegistered, RefusedRightly
<1> QED BY <1>1, <1>2, <1>3, <1>4 DEF PlanInv

(* What planned reads and refusals rest on is as before.                   *)
LEMMA OldPlansStay ==
  ASSUME PlanInv, [Next]_vars
  PROVE  /\ \A r \in Requester : \A n \in installed[r] : AllRegistered(n)'
         /\ \A r \in Requester : \A n \in installed[r] : \A k :
              IsPlanOf(r, n, k) /\ routes'[r][k] = routes[r][k]
                => IsPlanOf(r, n, k)'
         /\ \A r \in Requester : \A plan \in refused[r] :
              /\ AllRegistered(plan.of)'
              /\ ~Accepts(r, plan.of, Asked(r, plan.of, plan.strict))'
<1>1. want' = want
  BY WantStays
<1>2. ASSUME NEW r \in Requester, NEW n \in installed[r]
      PROVE  registered'[n] = registered[n] /\ AllRegistered(n)'
  <2>1. n \in Namespace /\ AllRegistered(n)
    BY DEF PlanInv, TypeInv, InstalledAreRegistered
  <2> QED BY <2>1, RegisteredStays
<1>3. ASSUME NEW r \in Requester, NEW n \in installed[r], NEW k,
             IsPlanOf(r, n, k), routes'[r][k] = routes[r][k]
      PROVE  IsPlanOf(r, n, k)'
  BY <1>1, <1>2, <1>3, PlanStays
<1>4. ASSUME NEW r \in Requester, NEW plan \in refused[r]
      PROVE  /\ AllRegistered(plan.of)'
             /\ ~Accepts(r, plan.of, Asked(r, plan.of, plan.strict))'
  <2>1. PICK n, strict : n = plan.of /\ strict = plan.strict
    OBVIOUS
  <2>2. n \in Namespace
    BY <2>1 DEF PlanInv, TypeInv
  <2>3. AllRegistered(n) /\ ~Accepts(r, n, Asked(r, n, strict))
    BY <2>1 DEF PlanInv, RefusedRightly
  <2>4. registered'[n] = registered[n] /\ AllRegistered(n)'
    BY <2>2, <2>3, RegisteredStays
  <2>5. ~Accepts(r, n, Asked(r, n, strict))'
    BY <1>1, <2>3, <2>4, VerdictStays
  <2> QED BY <2>1, <2>4, <2>5
<1> QED BY <1>2, <1>3, <1>4

LEMMA QuietKeeps ==
  ASSUME PlanInv, [Next]_vars, TypeInv', RegisteredInv',
         UNCHANGED <<routes, installed, refused>>
  PROVE  PlanInv'
<1>1. RoutesArePlans'
  <2> SUFFICES ASSUME NEW r \in Requester, NEW k \in DOMAIN routes[r]
               PROVE  \E n \in installed[r] : IsPlanOf(r, n, k)'
    BY DEF RoutesArePlans
  <2>1. PICK n \in installed[r] : IsPlanOf(r, n, k)
    BY DEF PlanInv, RoutesArePlans
  <2> QED BY <2>1, OldPlansStay
<1>2. InstalledAreRegistered' /\ RefusedRightly'
  BY OldPlansStay DEF InstalledAreRegistered, RefusedRightly
<1> QED BY <1>1, <1>2 DEF PlanInv

LEMMA RegisterKeeps ==
  ASSUME PlanInv, [Next]_vars, NEW n \in Namespace, NEW p \in Publisher,
         NEW slices \in Menu[n][p], Register(p, n, slices)
  PROVE  PlanInv'
<1>1. /\ registered' = [registered EXCEPT ![n][p] = slices]
      /\ UNCHANGED <<stored, want, routes, installed, refused>>
  BY DEF Register
<1>2. slices \in Slices
  BY DEF Slices
<1>3. TypeInv'
  BY <1>1, <1>2 DEF PlanInv, TypeInv
<1>4. RegisteredInv'
  BY <1>1 DEF PlanInv, TypeInv, RegisteredInv
<1> QED BY <1>1, <1>3, <1>4, QuietKeeps

LEMMA StoreKeeps ==
  ASSUME PlanInv, [Next]_vars, NEW n \in Namespace, NEW p \in Publisher,
         Store(p, n)
  PROVE  PlanInv'
<1>1. /\ stored' = [stored EXCEPT ![n] = @ \cup {p}]
      /\ UNCHANGED <<registered, want, routes, installed, refused>>
  BY DEF Store
<1>2. TypeInv' /\ RegisteredInv'
  BY <1>1 DEF PlanInv, TypeInv, RegisteredInv
<1> QED BY <1>1, <1>2, QuietKeeps

LEMMA StutterKeeps ==
  ASSUME PlanInv, UNCHANGED vars
  PROVE  PlanInv'
<1>1. TypeInv' /\ RegisteredInv'
  BY DEF PlanInv, TypeInv, RegisteredInv, vars
<1> QED BY <1>1, QuietKeeps DEF vars

LEMMA RefusalKeeps ==
  ASSUME PlanInv, [Next]_vars, NEW r \in Requester, NEW n \in Namespace,
         NEW strict \in BOOLEAN, Plan(r, n, strict),
         ~Accepts(r, n, Asked(r, n, strict))
  PROVE  PlanInv'
<1> DEFINE new == [of |-> n, strict |-> strict]
<1>1. /\ refused' = [refused EXCEPT ![r] = @ \cup {new}]
      /\ UNCHANGED <<registered, stored, want, routes, installed>>
      /\ AllRegistered(n)
  BY DEF Plan, AllRegistered
<1>2. TypeInv' /\ RegisteredInv'
  BY <1>1 DEF PlanInv, TypeInv, RegisteredInv
<1>3. RoutesArePlans'
  <2> SUFFICES ASSUME NEW s \in Requester, NEW k \in DOMAIN routes[s]
               PROVE  \E m \in installed[s] : IsPlanOf(s, m, k)'
    BY <1>1 DEF RoutesArePlans
  <2>1. PICK m \in installed[s] : IsPlanOf(s, m, k)
    BY DEF PlanInv, RoutesArePlans
  <2> QED BY <1>1, <2>1, OldPlansStay
<1>4. InstalledAreRegistered'
  BY <1>1, OldPlansStay DEF InstalledAreRegistered
<1>5. RefusedRightly'
  <2> SUFFICES ASSUME NEW s \in Requester, NEW plan \in refused'[s]
               PROVE  /\ AllRegistered(plan.of)'
                      /\ ~Accepts(s, plan.of, Asked(s, plan.of, plan.strict))'
    BY DEF RefusedRightly
  <2>1. CASE plan \in refused[s]
    BY <2>1, OldPlansStay
  <2>2. CASE plan \notin refused[s]
    <3>1. s = r /\ plan = new
      BY <1>1, <2>2 DEF PlanInv, TypeInv
    <3>2. /\ registered'[n] = registered[n] /\ AllRegistered(n)'
          /\ want' = want
      BY <1>1, RegisteredStays
    <3>3. ~Accepts(r, n, Asked(r, n, strict))'
      BY <3>2, VerdictStays
    <3>4. plan.of = n /\ plan.strict = strict
      BY <3>1
    <3> QED BY <3>1, <3>2, <3>3, <3>4
  <2> QED BY <2>1, <2>2
<1> QED BY <1>2, <1>3, <1>4, <1>5 DEF PlanInv

LEMMA InstallKeeps ==
  ASSUME PlanInv, [Next]_vars, NEW r \in Requester, NEW n \in Namespace,
         NEW strict \in BOOLEAN, Plan(r, n, strict),
         Accepts(r, n, Asked(r, n, strict))
  PROVE  PlanInv'
<1>1. PICK keys : keys = Asked(r, n, strict)
  OBVIOUS
<1> DEFINE table == [k \in keys \cup DOMAIN routes[r] |->
                       IF k \in keys THEN Transfers(n, k, want[r][n][k])
                       ELSE routes[r][k]]
<1>2. /\ n \notin installed[r]
      /\ routes' = [routes EXCEPT ![r] = table]
      /\ installed' = [installed EXCEPT ![r] = @ \cup {n}]
      /\ UNCHANGED <<registered, stored, want, refused>>
      /\ AllRegistered(n)
  BY <1>1 DEF Plan, Install, AllRegistered
<1>3. /\ keys \subseteq DOMAIN want[r][n] /\ keys \subseteq PublishedKeys(n)
      /\ Consistent(n, r, keys)
      /\ \A k \in keys : Counted(n, k, want[r][n][k])
  BY <1>1 DEF Accepts, Asked
<1>4. /\ DOMAIN routes'[r] = keys \cup DOMAIN routes[r]
      /\ \A k \in keys : routes'[r][k] = Transfers(n, k, want[r][n][k])
      /\ \A k \in DOMAIN routes[r] : k \notin keys => routes'[r][k] = routes[r][k]
      /\ \A s \in Requester : s # r => routes'[s] = routes[s]
  BY <1>2 DEF PlanInv, TypeInv
<1>5. /\ installed'[r] = installed[r] \cup {n}
      /\ \A s \in Requester : s # r => installed'[s] = installed[s]
  BY <1>2 DEF PlanInv, TypeInv
<1>6. TypeInv'
  <2>1. DOMAIN routes' = Requester /\ routes' = [s \in Requester |-> routes'[s]]
    BY <1>2 DEF PlanInv, TypeInv
  <2>2. installed' \in [Requester -> SUBSET Namespace]
    BY <1>2 DEF PlanInv, TypeInv
  <2> QED BY <1>2, <2>1, <2>2 DEF PlanInv, TypeInv
<1>7. RegisteredInv'
  BY <1>2 DEF PlanInv, RegisteredInv
<1> HIDE DEF table
<1>8. ASSUME NEW k \in keys PROVE IsPlanOf(r, n, k)'
  <2>1. PICK target : target = want[r][n][k]
    OBVIOUS
  <2>2. /\ Transfers(n, k, target)' = Transfers(n, k, target)
        /\ ReadNumel(n, k, target)' = ReadNumel(n, k, target)
        /\ Groups(n, k)' = Groups(n, k)
        /\ PublishedKeys(n)' = PublishedKeys(n)
    BY <1>2, SameTransfers, SameHolders
  <2>3. want'[r][n][k] = target
    BY <1>2, <2>1
  <2>4. /\ Transfers(n, k, want[r][n][k])' = Transfers(n, k, target)
        /\ ReadNumel(n, k, want[r][n][k])' = ReadNumel(n, k, target)
    BY <2>2, <2>3
  <2>5. \A g \in Groups(n, k) : g.global_shape = target.global_shape
    BY <1>3, <2>1 DEF Consistent
  <2>6. ReadNumel(n, k, target) = Numel(target.local_shape)
    BY <1>3, <2>1 DEF Counted
  <2> QED BY <1>2, <1>3, <1>4, <2>1, <2>2, <2>3, <2>4, <2>5, <2>6 DEF IsPlanOf
<1>9. RoutesArePlans'
  <2> SUFFICES ASSUME NEW s \in Requester, NEW k \in DOMAIN routes'[s]
               PROVE  \E m \in installed'[s] : IsPlanOf(s, m, k)'
    BY DEF RoutesArePlans
  <2>1. CASE s = r /\ k \in keys
    BY <1>5, <1>8, <2>1
  <2>2. CASE ~(s = r /\ k \in keys)
    <3>1. k \in DOMAIN routes[s] /\ routes'[s][k] = routes[s][k]
      BY <1>4, <2>2
    <3>2. PICK m \in installed[s] : IsPlanOf(s, m, k)
      BY <3>1 DEF PlanInv, RoutesArePlans
    <3>3. m \in installed'[s]
      BY <1>5
    <3> QED BY <3>1, <3>2, <3>3, OldPlansStay
  <2> QED BY <2>1, <2>2
<1>10. InstalledAreRegistered'
  <2> SUFFICES ASSUME NEW s \in Requester, NEW m \in installed'[s]
               PROVE  AllRegistered(m)'
    BY DEF InstalledAreRegistered
  <2>1. CASE m \in installed[s]
    BY <2>1, OldPlansStay
  <2>2. CASE m \notin installed[s]
    BY <1>2, <1>5, <2>2, RegisteredStays
  <2> QED BY <2>1, <2>2
<1>11. RefusedRightly'
  BY <1>2, OldPlansStay DEF RefusedRightly
<1> QED BY <1>6, <1>7, <1>9, <1>10, <1>11 DEF PlanInv

LEMMA PlanInvStep ==
  ASSUME PlanInv, [Next]_vars
  PROVE  PlanInv'
<1>1. ASSUME NEW n \in Namespace, NEW p \in Publisher, NEW slices \in Menu[n][p],
             Register(p, n, slices)
      PROVE  PlanInv'
  BY <1>1, RegisterKeeps
<1>2. ASSUME NEW n \in Namespace, NEW r \in Requester, NEW strict \in BOOLEAN,
             Plan(r, n, strict)
      PROVE  PlanInv'
  BY <1>2, InstallKeeps, RefusalKeeps
<1>3. ASSUME NEW n \in Namespace, NEW p \in Publisher, Store(p, n)
      PROVE  PlanInv'
  BY <1>3, StoreKeeps
<1>4. CASE UNCHANGED vars
  BY <1>4, StutterKeeps
<1> QED BY <1>1, <1>2, <1>3, <1>4 DEF Next

LEMMA PlanInvariant == Spec => []PlanInv
<1>1. PlanInv /\ [Next]_vars => PlanInv'
  BY PlanInvStep
<1> QED BY PlanInvInit, <1>1, PTL DEF Spec

-----------------------------------------------------------------------------
(* The theorems *)

(***************************************************************************)
(* The reads of a plan that the element count accepts fill the requested   *)
(* slice without a gap and never a cell twice, for tensors of any shape.   *)
(***************************************************************************)
THEOREM AcceptedPlansAreExact == Spec => []PlanIsExact
<1>1. PlanInv => PlanIsExact
  BY PlansAreExact
<1> QED BY <1>1, PlanInvariant, PTL

(***************************************************************************)
(* All requesters read a replicated slice from the same publisher: the     *)
(* choice depends on the key and on all its groups, never on the request.  *)
(***************************************************************************)
THEOREM ChoiceIsShared == Spec => []SourcesAgree
<1>1. PlanInv => SourcesAgree
  BY ReplicasAreChosenAlike
<1> QED BY <1>1, PlanInvariant, PTL

(***************************************************************************)
(* Keys that are published in one sharding, replicated or not, are planned *)
(* for every slice that a requester may want of them.                      *)
(***************************************************************************)
THEOREM OneShardingIsAccepted == Spec => []ShardingIsAccepted
<1>1. PlanInv => ShardingIsAccepted
  BY ShardedIsAccepted
<1> QED BY <1>1, PlanInvariant, PTL

(***************************************************************************)
(* A get with a plan returns all that was planned or raises, whatever      *)
(* other state dicts were planned before or since, if no planned slice is  *)
(* empty; once all publishers have put the state dict, it does not raise.  *)
(***************************************************************************)
THEOREM PlannedGetIsComplete == Spec => []GetIsComplete
<1>1. PlanInv => GetIsComplete
  BY GetsAreComplete
<1> QED BY <1>1, PlanInvariant, PTL
=============================================================================
