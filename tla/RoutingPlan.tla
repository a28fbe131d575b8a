---------------------------- MODULE RoutingPlan ----------------------------
(***************************************************************************)
(* How a requester turns the layouts of all publishers into a table of     *)
(* fixed reads, and what it can get with it: replicas are grouped by their *)
(* slice and one of them is chosen, the pieces are counted against the     *)
(* requested slice, and the table grows with every state dict (namespace)  *)
(* that is pulled.  A get reads one mapping from the sources of them all.  *)
(***************************************************************************)
EXTENDS TensorGeometry

CONSTANTS
  Publisher,    \* publisher ranks, numbered in the order of their names
  Requester,
  Namespace,    \* the state dicts
  Menu,         \* per namespace and publisher, the layouts it may register
  Wants,        \* per requester, what it may want: slices per namespace
  Hash,         \* the hash of each storage key
  None

ASSUME PublisherAssumption ==
  Publisher \subseteq Nat /\ Publisher # {} /\ IsFiniteSet(Publisher)
ASSUME NoneAssumption ==
  \A n \in Namespace : \A p \in Publisher : None \notin Menu[n][p]

(* A slice lies in the tensor whose shape it names. *)
IsSlice(s) ==
  LET shape == s.global_shape
  IN  /\ IsFiniteSet(DOMAIN shape)
      /\ shape \in [DOMAIN shape -> 0..Extent]
      /\ s \in SlicesOf(shape)

ASSUME SliceAssumption ==
  \A n \in Namespace :
    /\ \A p \in Publisher : \A slices \in Menu[n][p] :
         \A k \in DOMAIN slices : IsSlice(slices[k])
    /\ \A r \in Requester : \A w \in Wants[r] : \A k \in DOMAIN w[n] : IsSlice(w[n][k])

(* The storage keys of a namespace.  They carry its name, which the code   *)
(* takes to tell those of any two namespaces apart.                        *)
KeysOf(n) ==
  LET published(p) == UNION { DOMAIN slices : slices \in Menu[n][p] }
      wanted(r) == UNION { DOMAIN w[n] : w \in Wants[r] }
  IN  UNION ({ published(p) : p \in Publisher } \cup { wanted(r) : r \in Requester })

ASSUME KeyAssumption ==
  \A n \in Namespace :
    /\ \A k \in KeysOf(n) : Hash[k] \in Nat
    /\ \A m \in Namespace \ {n} : KeysOf(m) \cap KeysOf(n) = {}

VARIABLES
  registered,   \* per namespace and publisher, its slices per storage key
  stored,       \* per namespace, the publishers whose mapping is stored
  want,         \* per requester and namespace, the slices it asks for
  routes,       \* per requester, the reads planned for each storage key
  installed,    \* per requester, the namespaces it has a plan for
  refused       \* per requester, the plans that raised, with their strictness

vars == <<registered, stored, want, routes, installed, refused>>

NoRoutes == [k \in {} |-> {}]

Init ==
  /\ registered = [n \in Namespace |-> [p \in Publisher |-> None]]
  /\ stored = [n \in Namespace |-> {}]
  /\ want \in [Requester -> UNION { Wants[r] : r \in Requester }]
  /\ \A r \in Requester : want[r] \in Wants[r]
  /\ routes = [r \in Requester |-> NoRoutes]
  /\ installed = [r \in Requester |-> {}]
  /\ refused = [r \in Requester |-> {}]

-----------------------------------------------------------------------------
(* Replicas *)

Holders(n, k) == { p \in Publisher : k \in DOMAIN registered[n][p] }

PublishedKeys(n) == UNION { DOMAIN registered[n][p] : p \in Publisher }

(* _group_by_geometry: the different slices of a key, and who holds each. *)
Groups(n, k) == { registered[n][p][k] : p \in Holders(n, k) }

Replicas(n, k, g) == { p \in Holders(n, k) : registered[n][p][k] = g }

(* The order of sorted(): offsets first, then shapes. *)
Precedes(a, b) ==
  \/ LexBefore(a.offsets, b.offsets)
  \/ a.offsets = b.offsets /\ LexBefore(a.local_shape, b.local_shape)

IndexIn(groups, g) == Cardinality({ h \in groups : Precedes(h, g) })

(* _Rotate.choose *)
Source(n, k, g, index) ==
  LET candidates == Replicas(n, k, g)
  IN  CHOOSE p \in candidates :
        Cardinality({ q \in candidates : q < p })
          = (Hash[k] + index) % Cardinality(candidates)

(* Variant: only the groups that matter to this requester are numbered. *)
TransfersOfTouched(n, k, target) ==
  LET touched == { g \in Groups(n, k) : Intersects(target, g) }
  IN  { [source  |-> Source(n, k, g, IndexIn(touched, g)),
         segment |-> Intersection(target, g)] : g \in touched }

(* Variant: every replica is read. *)
TransfersOfAll(n, k, target) ==
  { [source  |-> p, segment |-> Intersection(target, registered[n][p][k])] :
      p \in { q \in Holders(n, k) : Intersects(target, registered[n][q][k]) } }

(* _publisher_transfers: one read of each different slice that overlaps. *)
Transfers(n, k, target) ==
  { [source  |-> Source(n, k, g, IndexIn(Groups(n, k), g)),
     segment |-> Intersection(target, g)] :
      g \in { h \in Groups(n, k) : Intersects(target, h) } }

ReadNumel(n, k, target) ==
  SumFunction([t \in Transfers(n, k, target) |-> Numel(t.segment.local_shape)])

(* Variant: a piece is missing, but that is all right. *)
CountedLoosely(n, k, target) ==
  ReadNumel(n, k, target) <= Numel(target.local_shape)

(* The covering check counts elements. *)
Counted(n, k, target) ==
  ReadNumel(n, k, target) = Numel(target.local_shape)

-----------------------------------------------------------------------------

(* register_layout, with which put_state_dict begins. *)
Register(p, n, slices) ==
  /\ registered[n][p] = None
  /\ registered' = [registered EXCEPT ![n][p] = slices]
  /\ UNCHANGED <<stored, want, routes, installed, refused>>

(* The rest of put_state_dict: the tensors and, last, the mapping.  A rank *)
(* with nothing in this state dict never gets there: put_batch raises.     *)
Store(p, n) ==
  /\ registered[n][p] # None
  /\ DOMAIN registered[n][p] # {}
  /\ stored' = [stored EXCEPT ![n] = @ \cup {p}]
  /\ UNCHANGED <<registered, want, routes, installed, refused>>

(* Without strict, get_layouts leaves out what nobody publishes. *)
Asked(r, n, strict) ==
  IF strict THEN DOMAIN want[r][n] ELSE DOMAIN want[r][n] \cap PublishedKeys(n)

(* _validate: all agree on the global shape of every key. *)
Consistent(n, r, keys) ==
  \A k \in keys \cup PublishedKeys(n) :
    \A g, h \in Groups(n, k) \cup { want[r][n][k] : j \in keys \cap {k} } :
      g.global_shape = h.global_shape

Accepts(r, n, keys) ==
  /\ keys \subseteq PublishedKeys(n)
  /\ Consistent(n, r, keys)
  /\ \A k \in keys : Counted(n, k, want[r][n][k])

(* Keys carry their namespace, so tables merge without collision. *)
Install(r, n, keys) ==
  /\ routes' = [routes EXCEPT ![r] =
       [k \in keys \cup DOMAIN @ |->
          IF k \in keys THEN Transfers(n, k, want[r][n][k]) ELSE @[k]]]
  /\ installed' = [installed EXCEPT ![r] = @ \cup {n}]

(* get_layouts, once all publishers have registered; later calls do nothing. *)
Plan(r, n, strict) ==
  /\ \A p \in Publisher : registered[n][p] # None
  /\ n \notin installed[r]
  /\ IF Accepts(r, n, Asked(r, n, strict))
     THEN Install(r, n, Asked(r, n, strict)) /\ UNCHANGED refused
     ELSE /\ refused' = [refused EXCEPT ![r] = @ \cup {[of |-> n, strict |-> strict]}]
          /\ UNCHANGED <<routes, installed>>
  /\ UNCHANGED <<registered, stored, want>>

(* Variant: one volume will do, as LocalClient takes one for an object. *)
OneObjectVolume(r) ==
  LET sources == { t.source : t \in UNION { routes[r][k] : k \in DOMAIN routes[r] } }
  IN  { p \in sources : \A q \in sources : p <= q }

(* _object_volumes: every volume that some tensor of the table comes from. *)
ObjectVolumes(r) ==
  { t.source : t \in UNION { routes[r][k] : k \in DOMAIN routes[r] } }

(* One of them without a mapping of this state dict ends the get.  Without *)
(* any source the requester's own volume is asked, which does not exist.   *)
MappingIsFound(r, n) ==
  ObjectVolumes(r) # {} /\ ObjectVolumes(r) \subseteq stored[n]

(* The merged mapping, of which the planned keys are retained. *)
Mapping(r, n) ==
  { k \in DOMAIN routes[r] :
      \E p \in ObjectVolumes(r) : k \in DOMAIN registered[n][p] }

(***************************************************************************)
(* get_state_dict with a plan: the keys of what it returns, none when it   *)
(* raises.  With strict the mapping must be that of the state dict given   *)
(* to it.  Nothing may be asked for in vain: get_batch refuses an empty    *)
(* batch, and a key of the mapping that no read fills.                     *)
(***************************************************************************)
Get(r, n, strict) ==
  IF /\ MappingIsFound(r, n)
     /\ strict => Mapping(r, n) = DOMAIN want[r][n]
     /\ \A k \in Mapping(r, n) : routes[r][k] # {}
  THEN Mapping(r, n) ELSE {}

Next ==
  \/ \E n \in Namespace :
       \/ \E p \in Publisher :
            \/ \E slices \in Menu[n][p] : Register(p, n, slices)
            \/ Store(p, n)
       \/ \E r \in Requester : \E strict \in BOOLEAN : Plan(r, n, strict)

Spec == Init /\ [][Next]_vars

-----------------------------------------------------------------------------
(* Properties *)

Planned(r, n) == DOMAIN routes[r] \cap DOMAIN want[r][n]

Disjoint(slices) ==
  \A g, h \in slices : g # h => Cells(g) \cap Cells(h) = {}

(***************************************************************************)
(* "Cheap stand-in for a full disjointness proof": as long as different    *)
(* published slices of a key do not overlap, the element count is enough.  *)
(* The reads of every accepted plan fill the requested slice without a gap *)
(* and never the same cell twice, however many replicas there are.         *)
(***************************************************************************)
PlanIsExact ==
  \A r \in Requester, n \in Namespace : \A k \in Planned(r, n) :
    n \in installed[r] /\ Disjoint(Groups(n, k)) =>
      /\ UNION { Cells(t.segment) : t \in routes[r][k] } = Cells(want[r][n][k])
      /\ \A t, u \in routes[r][k] : t # u => Cells(t.segment) \cap Cells(u.segment) = {}

(***************************************************************************)
(* "A pure function of the key, so every local planner makes the same      *)
(* choice": two requesters that need parts of the same replicated slice    *)
(* read it from the same publisher, however much of the rest they need.    *)
(***************************************************************************)
SourcesAgree ==
  \A r, s \in Requester, n \in Namespace : \A k \in Planned(r, n) \cap Planned(s, n) :
    \A t \in routes[r][k], u \in routes[s][k] :
      registered[n][t.source][k] = registered[n][u.source][k] => t.source = u.source

(***************************************************************************)
(* When each key is published in one sharding, replicated or not, no       *)
(* requester that knows its shape is refused, whatever slice it wants.     *)
(***************************************************************************)
Sharded(n, k) ==
  /\ Groups(n, k) # {} /\ Disjoint(Groups(n, k))
  /\ \A g, h \in Groups(n, k) : g.global_shape = h.global_shape
  /\ \A g \in Groups(n, k) :
       UNION { Cells(h) : h \in Groups(n, k) } = Cells(Whole(g.global_shape))

ShardingIsAccepted ==
  \A r \in Requester : \A plan \in refused[r] :
    LET keys == Asked(r, plan.of, plan.strict)
    IN  ~(/\ \A k \in keys \cup PublishedKeys(plan.of) : Sharded(plan.of, k)
          /\ \A k \in keys : \A g \in Groups(plan.of, k) :
               g.global_shape = want[r][plan.of][k].global_shape)

(***************************************************************************)
(* "All-or-nothing": a get with a plan raises or returns every tensor that *)
(* was planned, if none of them is an empty shard, whatever other state    *)
(* dicts were planned or put in between; and once every publisher has put  *)
(* this one, it does not raise.                                            *)
(***************************************************************************)
GetIsComplete ==
  \A r \in Requester : \A n \in installed[r], strict \in BOOLEAN :
    Planned(r, n) # {} /\ (\A k \in Planned(r, n) : Cells(want[r][n][k]) # {}) =>
      /\ Get(r, n, strict) \in {{}, Planned(r, n)}
      /\ stored[n] = Publisher /\ (strict => DOMAIN want[r][n] \subseteq DOMAIN routes[r])
           => Get(r, n, strict) = Planned(r, n)

(***************************************************************************)
(* "Tables for different state dicts merge without collision": what a      *)
(* requester can get of a state dict that has been put, it can still get   *)
(* when it has planned another one.  It is not so: a source of the other   *)
(* need not have any part of this one.                                     *)
(***************************************************************************)
PutByAll(n) ==
  \A p \in Publisher : p \in stored[n] \/ DOMAIN registered[n][p] = {}

StillGettable(r, n, strict) == Get(r, n, strict) # {} => Get(r, n, strict)' # {}

MergeIsHarmless ==
  [][\A r \in Requester : \A n \in installed[r], strict \in BOOLEAN :
       PutByAll(n) => StillGettable(r, n, strict)]_vars
=============================================================================
