-------------------------- MODULE RoutedSyncProofs --------------------------
(***************************************************************************)
(* Proofs about the routed state dict exchange, for any number of ranks,   *)
(* requesters, layouts, pushes and initialisations, and any faults.        *)
(***************************************************************************)
EXTENDS RoutedSync, TLAPS

USE MeshAssumption, LayoutsAssumption, InitsAssumption, ReadsAssumption,
    BoundsAssumption

(* The type correctness of each component's share of a step. *)
LEMMA CoordinatorTypes ==
  ASSUME TypeOK
  PROVE  /\ \A g \in 1..MaxInit : layouts[g] \in [Mesh -> Layout \cup {Unknown}]
         /\ \A g \in 1..MaxInit : Complete(g) => layouts[g] \in [Mesh -> Layout]
         /\ \A r \in Requester : waiter[r].state # "none" =>
              waiter[r].gen \in 1..gen /\ waiter[r].gen \in 1..MaxInit
         /\ gen > 0 => gen \in 1..MaxInit
<1>1. \A g \in 1..MaxInit : layouts[g] \in [Mesh -> Layout \cup {Unknown}]
  BY DEF TypeOK
<1>2. \A g \in 1..MaxInit : Complete(g) => layouts[g] \in [Mesh -> Layout]
  BY <1>1 DEF Complete, Registered
<1>3. \A r \in Requester : waiter[r].state # "none" =>
              waiter[r].gen \in 1..gen /\ waiter[r].gen \in 1..MaxInit
  <2> TAKE r \in Requester
  <2>1. gen \in 0..MaxInit /\ waiter[r].gen \in 0..gen
    BY DEF TypeOK
  <2>2. waiter[r].state # "none" => waiter[r].gen # 0
    BY DEF TypeOK
  <2> QED BY <2>1, <2>2
<1>4. gen > 0 => gen \in 1..MaxInit
  BY DEF TypeOK
<1> QED BY <1>1, <1>2, <1>3, <1>4

LEMMA TypeInit == Init => TypeOK
  BY DEF Init, CoordinatorInit, TypeOK, NotWaiting, Resting, EmptyVolume, Stages

-----------------------------------------------------------------------------
(* Type correctness, one part of the state at a time. *)

CoordinatorTypeOK ==
  /\ gen \in 0..MaxInit
  /\ layouts \in [1..MaxInit -> [Mesh -> Layout \cup {Unknown}]]
  /\ waiter \in [Requester -> [state : {"none", "waiting", "woken"}, gen : 0..gen]]

PublisherTypeOK ==
  /\ push \in [Rank -> [stage : Stages, layout : Layout \cup {Unknown}]]
  /\ \A p \in Rank : push[p].stage # "idle" => gen > 0 /\ push[p].layout \in Layout
  /\ version \in [Rank -> Nat]
  /\ table \in [Rank -> Layout \cup {Unknown}]
  /\ marked \subseteq Mesh

VolumeTypeOK ==
  volume \in [1..MaxInit -> [Rank ->
    [tensors : Nat, mapping : Nat, layout : Layout \cup {Unknown}]]]

RequesterTypeOK ==
  /\ home \in [Requester -> 0..gen]
  /\ plan \in [Requester -> [Mesh -> Layout] \cup {Unknown}]
  /\ pull \in [Requester -> {"idle", "layouts", "mapping", "tensors"}]
  /\ \A r \in Requester :
       /\ pull[r] # "idle" => home[r] # 0
       /\ waiter[r].state = "none" <=> waiter[r].gen = 0
       /\ pull[r] = "layouts" <=> waiter[r].state # "none"
       /\ pull[r] \in {"mapping", "tensors"} => plan[r] # Unknown
  /\ left \in [Requester -> SUBSET Mesh]

LEMMA TypeParts ==
  /\ TypeOK <=>
       CoordinatorTypeOK /\ PublisherTypeOK /\ VolumeTypeOK /\ RequesterTypeOK
  /\ TypeOK' <=>
       CoordinatorTypeOK' /\ PublisherTypeOK' /\ VolumeTypeOK' /\ RequesterTypeOK'
  BY DEF TypeOK, CoordinatorTypeOK, PublisherTypeOK, VolumeTypeOK, RequesterTypeOK

LEMMA NotifyTypes ==
  ASSUME TypeOK, NEW g \in 1..gen, waiter' = NotifyAll(g), gen' = gen
  PROVE  /\ waiter' \in
              [Requester -> [state : {"none", "waiting", "woken"}, gen : 0..gen]]
         /\ \A r \in Requester :
              /\ waiter'[r].gen = waiter[r].gen
              /\ waiter'[r].state = "none" <=> waiter[r].state = "none"
  BY DEF TypeOK, NotifyAll, Asleep, Woken

LEMMA RegisterTypes ==
  ASSUME TypeOK, NEW p \in Mesh, NEW l \in Layout, RegisterLayout(p, l)
  PROVE  /\ CoordinatorTypeOK'
         /\ gen' = gen
         /\ \A r \in Requester :
              /\ waiter'[r].gen = waiter[r].gen
              /\ waiter'[r].state = "none" <=> waiter[r].state = "none"
<1>1. gen \in 1..gen /\ gen \in 1..MaxInit /\ gen' = gen
  <2>1. gen \in 0..MaxInit
    BY DEF TypeOK
  <2>2. gen > 0 /\ gen' = gen
    BY DEF RegisterLayout
  <2> QED BY <2>1, <2>2
<1>2. layouts' \in [1..MaxInit -> [Mesh -> Layout \cup {Unknown}]]
  <2>1. layouts \in [1..MaxInit -> [Mesh -> Layout \cup {Unknown}]]
    BY DEF TypeOK
  <2>2. layouts' = layouts \/ layouts' = [layouts EXCEPT ![gen][p] = l]
    BY DEF RegisterLayout
  <2>3. CASE layouts' = layouts
    BY <2>1, <2>3
  <2>4. CASE layouts' = [layouts EXCEPT ![gen][p] = l]
    <3>1. [layouts[gen] EXCEPT ![p] = l] \in [Mesh -> Layout \cup {Unknown}]
      BY <1>1, <2>1
    <3>2. layouts' = [layouts EXCEPT ![gen] = [layouts[gen] EXCEPT ![p] = l]]
      BY <2>4
    <3> QED BY <1>1, <2>1, <3>1, <3>2
  <2> QED BY <2>2, <2>3, <2>4
<1>3. waiter' = waiter \/ waiter' = NotifyAll(gen)
  BY DEF RegisterLayout
<1>4. CASE waiter' = waiter
  BY <1>1, <1>2, <1>4 DEF TypeOK, CoordinatorTypeOK
<1>5. CASE waiter' = NotifyAll(gen)
  BY <1>1, <1>2, <1>5, NotifyTypes DEF TypeOK, CoordinatorTypeOK
<1> QED BY <1>1, <1>3, <1>4, <1>5

LEMMA LearnTypes ==
  ASSUME TypeOK, NEW r \in Requester, NEW ls \in [Mesh -> Layout], Learn(r, ls)
  PROVE  /\ plan' \in [Requester -> [Mesh -> Layout] \cup {Unknown}]
         /\ pull' \in [Requester -> {"idle", "layouts", "mapping", "tensors"}]
         /\ pull'[r] # "layouts"
         /\ pull'[r] \in {"mapping", "tensors"} => plan'[r] # Unknown
         /\ \A q \in Requester \ {r} : pull'[q] = pull[q] /\ plan'[q] = plan[q]
         /\ left' \in [Requester -> SUBSET Mesh]
<1>0. /\ plan \in [Requester -> [Mesh -> Layout] \cup {Unknown}]
      /\ pull \in [Requester -> {"idle", "layouts", "mapping", "tensors"}]
      /\ left \in [Requester -> SUBSET Mesh]
      /\ Reads[r] \in SUBSET Mesh
      /\ ls # Unknown
  BY DEF TypeOK
<1>1. CASE plan' = [plan EXCEPT ![r] = ls] /\ ReadOn(r, "mapping")
  BY <1>0, <1>1 DEF ReadOn
<1>2. CASE plan' = plan /\ PullEnds(r)
  BY <1>0, <1>2 DEF PullEnds
<1> QED BY <1>1, <1>2 DEF Learn

(***************************************************************************)
(* Lemma.  The requesters' share of the type follows when a step changes   *)
(* one requester only, and the coordinator forgets or keeps its coroutine. *)
(***************************************************************************)
LEMMA PullEndsTypes ==
  ASSUME TypeOK, NEW r \in Requester, PullEnds(r), StopWaiting(r),
         UNCHANGED <<home, plan>>
  PROVE  CoordinatorTypeOK' /\ RequesterTypeOK'
<1>1. /\ pull' = [pull EXCEPT ![r] = "idle"]
      /\ left' = [left EXCEPT ![r] = {}]
      /\ waiter' = [waiter EXCEPT ![r] = [state |-> "none", gen |-> 0]]
      /\ gen' = gen /\ layouts' = layouts /\ home' = home /\ plan' = plan
  BY DEF PullEnds, StopWaiting, NotWaiting
<1>2. gen \in 0..MaxInit /\ 0 \in 0..gen
  BY DEF TypeOK
<1>3. waiter' \in [Requester -> [state : {"none", "waiting", "woken"}, gen : 0..gen]]
  BY <1>1, <1>2 DEF TypeOK
<1>4. CoordinatorTypeOK'
  BY <1>1, <1>3 DEF TypeOK, CoordinatorTypeOK
<1>5. RequesterTypeOK'
  BY <1>1, <1>3 DEF TypeOK, RequesterTypeOK
<1> QED BY <1>4, <1>5

(* What a requester's step has to establish about the other variables. *)
RequesterIsWell(r) ==
  /\ pull[r] # "idle" => home[r] # 0
  /\ waiter[r].state = "none" <=> waiter[r].gen = 0
  /\ pull[r] = "layouts" <=> waiter[r].state # "none"
  /\ pull[r] \in {"mapping", "tensors"} => plan[r] # Unknown

LEMMA OneRequesterTypes ==
  ASSUME TypeOK, NEW r \in Requester, RequesterIsWell(r)',
         home' \in [Requester -> 0..gen]', gen' = gen,
         plan' \in [Requester -> [Mesh -> Layout] \cup {Unknown}],
         pull' \in [Requester -> {"idle", "layouts", "mapping", "tensors"}],
         left' \in [Requester -> SUBSET Mesh],
         \A q \in Requester \ {r} : /\ home'[q] = home[q] /\ plan'[q] = plan[q]
                                    /\ pull'[q] = pull[q] /\ waiter'[q] = waiter[q]
  PROVE  RequesterTypeOK'
<1>0. \A q \in Requester : RequesterIsWell(q)
  BY DEF TypeOK, RequesterIsWell
<1>1. \A q \in Requester \ {r} : RequesterIsWell(q)'
  BY <1>0 DEF RequesterIsWell
<1>2. \A q \in Requester : RequesterIsWell(q)'
  BY <1>1
<1> QED BY <1>2 DEF RequesterTypeOK, RequesterIsWell

LEMMA TypeStep == TypeOK /\ [Next]_vars => TypeOK'
<1> SUFFICES ASSUME TypeOK, [Next]_vars PROVE TypeOK'
  OBVIOUS
<1> USE DEF coordinatorVars, publisherVars, requesterVars
<1>0. CoordinatorTypeOK /\ PublisherTypeOK /\ VolumeTypeOK /\ RequesterTypeOK
  BY TypeParts
<1>1. CASE Initialize
  <2>1. /\ gen \in 0..MaxInit /\ gen' \in 0..MaxInit
        /\ \A n : n \in 0..gen => n \in 0..gen'
    BY <1>1 DEF TypeOK, Initialize, InitCoordinator
  <2>2. CoordinatorTypeOK'
    BY <1>1, <2>1 DEF Initialize, InitCoordinator, TypeOK, CoordinatorTypeOK
  <2>3. PublisherTypeOK'
    BY <1>1 DEF Initialize, TypeOK, PublisherTypeOK, Resting, Stages
  <2>4. RequesterTypeOK' /\ VolumeTypeOK'
    BY <1>0, <1>1, <2>1
    DEF Initialize, InitCoordinator, RequesterTypeOK, VolumeTypeOK
  <2> QED BY <2>2, <2>3, <2>4, TypeParts
<1>2. ASSUME NEW p \in Rank, NEW l \in Layout, StartPush(p, l) \/ PushAgain(p, l)
      PROVE  TypeOK'
  <2>1. PublisherTypeOK'
    <3>1. gen > 0 /\ gen' = gen /\ marked' = marked
          /\ version' = [version EXCEPT ![p] = @ + 1]
      BY <1>2 DEF StartPush, PushAgain, Begins
    <3>2. table' \in [Rank -> Layout \cup {Unknown}]
      BY <1>2 DEF StartPush, PushAgain, TypeOK
    <3>3. /\ push' \in [Rank -> [stage : Stages, layout : Layout \cup {Unknown}]]
          /\ \A q \in Rank : push'[q].stage # "idle" => push'[q].layout \in Layout
      <4>1. \/ push' = [push EXCEPT ![p] = [stage |-> "register", layout |-> l]]
            \/ push' = [push EXCEPT ![p] = [stage |-> "tensors", layout |-> l]]
            \/ push' = push
        BY <1>2 DEF StartPush, PushAgain
      <4>2. /\ push \in [Rank -> [stage : Stages, layout : Layout \cup {Unknown}]]
            /\ \A q \in Rank : push[q].stage # "idle" => push[q].layout \in Layout
        BY DEF TypeOK
      <4>3. /\ [stage |-> "register", layout |-> l]
                  \in [stage : Stages, layout : Layout \cup {Unknown}]
            /\ [stage |-> "tensors", layout |-> l]
                  \in [stage : Stages, layout : Layout \cup {Unknown}]
        BY DEF Stages
      <4>4. ASSUME NEW x \in [stage : Stages, layout : Layout \cup {Unknown}],
                   x.layout = l, push' = [push EXCEPT ![p] = x]
            PROVE  /\ push' \in [Rank -> [stage : Stages, layout : Layout \cup {Unknown}]]
                   /\ \A q \in Rank : push'[q].stage # "idle" => push'[q].layout \in Layout
        BY <4>2, <4>4
      <4>5. CASE push' = [push EXCEPT ![p] = [stage |-> "register", layout |-> l]]
        BY <4>3, <4>4, <4>5
      <4>6. CASE push' = [push EXCEPT ![p] = [stage |-> "tensors", layout |-> l]]
        BY <4>3, <4>4, <4>6
      <4>7. CASE push' = push
        BY <4>2, <4>7
      <4> QED BY <4>1, <4>5, <4>6, <4>7
    <3>4. version' \in [Rank -> Nat] /\ marked' \subseteq Mesh
      <4>1. version \in [Rank -> Nat] /\ marked \subseteq Mesh
        BY DEF TypeOK
      <4> QED BY <3>1, <4>1
    <3> QED BY <3>1, <3>2, <3>3, <3>4 DEF PublisherTypeOK
  <2>2. UNCHANGED <<coordinatorVars, volume, requesterVars>>
    BY <1>2 DEF StartPush, PushAgain, Begins
  <2> QED BY <1>0, <2>1, <2>2, TypeParts
          DEF CoordinatorTypeOK, VolumeTypeOK, RequesterTypeOK
<1>3. ASSUME NEW p \in Rank, Register(p) \/ RegisterUnheard(p)
      PROVE  TypeOK'
  <2>1. push[p].layout \in Layout /\ push[p].stage = "register" /\ gen > 0
    BY <1>3 DEF Register, RegisterUnheard, TypeOK
  <2>2. UNCHANGED <<version, table, volume, requesterVars>>
    BY <1>3 DEF Register, RegisterUnheard
  <2>3. /\ CoordinatorTypeOK'
        /\ gen' = gen
        /\ \A r \in Requester :
             /\ waiter'[r].gen = waiter[r].gen
             /\ waiter'[r].state = "none" <=> waiter[r].state = "none"
    <3>1. CASE p \in Mesh /\ RegisterLayout(p, push[p].layout)
      BY <3>1, <2>1, RegisterTypes
    <3>2. CASE UNCHANGED coordinatorVars
      BY <1>0, <3>2 DEF CoordinatorTypeOK
    <3> QED BY <1>3, <3>1, <3>2 DEF Register, RegisterUnheard, IsPublisher
  <2>4. PublisherTypeOK'
    <3>1. \/ push' = [push EXCEPT ![p].stage = "tensors"]
          \/ push' = [push EXCEPT ![p] = Resting]
      BY <1>3 DEF Register, RegisterUnheard, Advance, PushEnds
    <3>2. /\ push' \in [Rank -> [stage : Stages, layout : Layout \cup {Unknown}]]
          /\ \A q \in Rank : push'[q].stage # "idle" => gen > 0 /\ push'[q].layout \in Layout
      <4>1. push \in [Rank -> [stage : Stages, layout : Layout \cup {Unknown}]]
            /\ \A q \in Rank : push[q].stage # "idle" => gen > 0 /\ push[q].layout \in Layout
        BY DEF TypeOK
      <4>2. CASE push' = [push EXCEPT ![p].stage = "tensors"]
        BY <2>1, <4>1, <4>2 DEF Stages
      <4>3. CASE push' = [push EXCEPT ![p] = Resting]
        BY <4>1, <4>3 DEF Stages, Resting
      <4> QED BY <3>1, <4>2, <4>3
    <3>3. marked' = marked \/ (p \in Mesh /\ marked' = marked \cup {p})
      BY <1>3 DEF Register, RegisterUnheard, IsPublisher
    <3> QED BY <2>2, <2>3, <3>2, <3>3 DEF TypeOK, PublisherTypeOK
  <2>5. RequesterTypeOK' /\ VolumeTypeOK'
    BY <1>0, <2>2, <2>3 DEF RequesterTypeOK, VolumeTypeOK
  <2> QED BY <2>3, <2>4, <2>5, TypeParts
<1>4. ASSUME NEW p \in Rank, PutTensors(p) \/ PutMapping(p) \/ PushFails(p)
      PROVE  TypeOK'
  <2>1. /\ UNCHANGED <<coordinatorVars, version, table, marked, requesterVars>>
        /\ \/ push' = [push EXCEPT ![p].stage = "mapping"]
           \/ push' = [push EXCEPT ![p] = Resting]
        /\ push[p].stage # "idle"
    BY <1>4 DEF PutTensors, PutMapping, PushFails, Advance, PushEnds
  <2>2. PublisherTypeOK'
    <3>1. push \in [Rank -> [stage : Stages, layout : Layout \cup {Unknown}]]
          /\ \A q \in Rank : push[q].stage # "idle" => gen > 0 /\ push[q].layout \in Layout
      BY DEF TypeOK
    <3>2. /\ push' \in [Rank -> [stage : Stages, layout : Layout \cup {Unknown}]]
          /\ \A q \in Rank : push'[q].stage # "idle" => gen > 0 /\ push'[q].layout \in Layout
      <4>2. CASE push' = [push EXCEPT ![p].stage = "mapping"]
        BY <2>1, <3>1, <4>2 DEF Stages
      <4>3. CASE push' = [push EXCEPT ![p] = Resting]
        BY <3>1, <4>3 DEF Stages, Resting
      <4> QED BY <2>1, <4>2, <4>3
    <3> QED BY <2>1, <3>2 DEF TypeOK, PublisherTypeOK
  <2>3. VolumeTypeOK'
    <3>1. gen \in 1..MaxInit /\ push[p].layout \in Layout /\ version[p] \in Nat
      BY <2>1, CoordinatorTypes DEF TypeOK
    <3>2. volume \in [1..MaxInit -> [Rank ->
            [tensors : Nat, mapping : Nat, layout : Layout \cup {Unknown}]]]
      BY DEF TypeOK
    <3>3. CASE PutTensors(p)
      <4> DEFINE cell == [volume[gen][p] EXCEPT !.tensors = version[p],
                                                !.layout = push[p].layout]
      <4>0. volume[gen][p] \in [tensors : Nat, mapping : Nat, layout : Layout \cup {Unknown}]
        BY <3>1, <3>2
      <4>1. cell \in [tensors : Nat, mapping : Nat, layout : Layout \cup {Unknown}]
        BY <3>1, <4>0
      <4>2. volume' = [volume EXCEPT ![gen] = [volume[gen] EXCEPT ![p] = cell]]
        BY <3>1, <3>2, <3>3 DEF PutTensors
      <4> HIDE DEF cell
      <4> QED BY <3>1, <3>2, <4>1, <4>2 DEF VolumeTypeOK
    <3>4. CASE PutMapping(p)
      <4> DEFINE cell == [volume[gen][p] EXCEPT !.mapping = version[p]]
      <4>0. volume[gen][p] \in [tensors : Nat, mapping : Nat, layout : Layout \cup {Unknown}]
        BY <3>1, <3>2
      <4>1. cell \in [tensors : Nat, mapping : Nat, layout : Layout \cup {Unknown}]
        BY <3>1, <4>0
      <4>2. volume' = [volume EXCEPT ![gen] = [volume[gen] EXCEPT ![p] = cell]]
        BY <3>1, <3>2, <3>4 DEF PutMapping
      <4> HIDE DEF cell
      <4> QED BY <3>1, <3>2, <4>1, <4>2 DEF VolumeTypeOK
    <3>5. CASE PushFails(p)
      BY <1>0, <3>5 DEF PushFails, VolumeTypeOK
    <3> QED BY <1>4, <3>3, <3>4, <3>5
  <2> QED BY <1>0, <2>1, <2>2, <2>3, TypeParts
          DEF CoordinatorTypeOK, RequesterTypeOK
<1>5. ASSUME NEW r \in Requester, PullPlanned(r) \/ PullLearns(r) \/ PullWaits(r)
      PROVE  TypeOK'
  <2>1. /\ home \in [Requester -> 0..gen] /\ gen > 0 /\ gen' = gen
        /\ gen \in 0..MaxInit /\ gen \in 1..MaxInit
        /\ pull[r] = "idle" /\ waiter[r].state = "none"
        /\ home' = [home EXCEPT ![r] = IF @ = 0 THEN gen ELSE @]
        /\ UNCHANGED <<publisherVars, volume>>
    <3>1. /\ Calls(r) /\ gen' = gen
          /\ UNCHANGED <<publisherVars, volume>>
      BY <1>5 DEF PullPlanned, PullLearns, PullWaits, WaitForLayouts
    <3>2. pull[r] = "idle" /\ gen > 0
          /\ home' = [home EXCEPT ![r] = IF @ = 0 THEN gen ELSE @]
      BY <3>1 DEF Calls
    <3>3. gen \in 0..MaxInit /\ home \in [Requester -> 0..gen]
          /\ (pull[r] = "layouts" <=> waiter[r].state # "none")
      BY DEF TypeOK
    <3> QED BY <3>1, <3>2, <3>3
  <2>2. home' \in [Requester -> 0..gen'] /\ home'[r] # 0
        /\ \A q \in Requester \ {r} : home'[q] = home[q]
    BY <2>1
  <2>3. CASE PullPlanned(r)
    <3>1. /\ pull' = [pull EXCEPT ![r] = "mapping"]
          /\ left' = [left EXCEPT ![r] = Reads[r]]
          /\ plan[r] # Unknown
          /\ UNCHANGED <<coordinatorVars, plan>>
      BY <2>3 DEF PullPlanned, ReadOn
    <3>2. RequesterTypeOK'
      BY <2>1, <2>2, <3>1 DEF TypeOK, RequesterTypeOK
    <3> QED BY <1>0, <2>1, <3>1, <3>2, TypeParts
            DEF CoordinatorTypeOK, PublisherTypeOK, VolumeTypeOK
  <2>4. CASE PullLearns(r)
    <3>1. Learn(r, layouts[gen]) /\ UNCHANGED coordinatorVars
          /\ layouts[gen] \in [Mesh -> Layout]
      BY <2>1, <2>4, CoordinatorTypes DEF PullLearns, Available
    <3>2. /\ plan' \in [Requester -> [Mesh -> Layout] \cup {Unknown}]
          /\ pull' \in [Requester -> {"idle", "layouts", "mapping", "tensors"}]
          /\ pull'[r] # "layouts"
          /\ pull'[r] \in {"mapping", "tensors"} => plan'[r] # Unknown
          /\ \A q \in Requester \ {r} : pull'[q] = pull[q] /\ plan'[q] = plan[q]
          /\ left' \in [Requester -> SUBSET Mesh]
      BY <3>1, LearnTypes
    <3>3. RequesterTypeOK'
      <4>1. RequesterIsWell(r)'
        BY <2>1, <2>2, <3>1, <3>2 DEF RequesterIsWell, TypeOK
      <4>2. \A q \in Requester : waiter'[q] = waiter[q]
        BY <3>1
      <4> QED BY <2>1, <2>2, <3>2, <4>1, <4>2, OneRequesterTypes
    <3> QED BY <1>0, <2>1, <3>1, <3>3, TypeParts
            DEF CoordinatorTypeOK, PublisherTypeOK, VolumeTypeOK
  <2>5. CASE PullWaits(r)
    <3>1. /\ pull' = [pull EXCEPT ![r] = "layouts"]
          /\ waiter' = [waiter EXCEPT ![r] = [state |-> "waiting", gen |-> gen]]
          /\ UNCHANGED <<layouts, plan, left>>
      BY <2>5 DEF PullWaits, WaitForLayouts, Asleep
    <3>2. waiter' \in [Requester -> [state : {"none", "waiting", "woken"}, gen : 0..gen]]
      <4>1. gen \in 0..gen
            /\ waiter \in [Requester -> [state : {"none", "waiting", "woken"}, gen : 0..gen]]
        BY <2>1 DEF TypeOK
      <4> QED BY <3>1, <4>1
    <3>3. CoordinatorTypeOK'
      BY <2>1, <3>1, <3>2 DEF TypeOK, CoordinatorTypeOK
    <3>4. RequesterTypeOK'
      <4>1. waiter'[r] = [state |-> "waiting", gen |-> gen]
            /\ \A q \in Requester \ {r} : waiter'[q] = waiter[q]
        BY <3>1 DEF TypeOK
      <4>2. pull' \in [Requester -> {"idle", "layouts", "mapping", "tensors"}]
            /\ pull'[r] = "layouts"
            /\ \A q \in Requester \ {r} : pull'[q] = pull[q]
        BY <3>1 DEF TypeOK
      <4>3. RequesterIsWell(r)'
        BY <2>1, <2>2, <4>1, <4>2 DEF RequesterIsWell
      <4>4. plan' \in [Requester -> [Mesh -> Layout] \cup {Unknown}]
            /\ left' \in [Requester -> SUBSET Mesh] /\ plan' = plan
        BY <3>1 DEF TypeOK
      <4> QED BY <2>1, <2>2, <4>1, <4>2, <4>3, <4>4, OneRequesterTypes
    <3> QED BY <1>0, <2>1, <3>3, <3>4, TypeParts
            DEF PublisherTypeOK, VolumeTypeOK
  <2> QED BY <1>5, <2>3, <2>4, <2>5
<1>6. ASSUME NEW r \in Requester, WakeUp(r)
      PROVE  TypeOK'
  <2>1. /\ Learn(r, layouts[waiter[r].gen])
        /\ layouts[waiter[r].gen] \in [Mesh -> Layout]
        /\ waiter' = [waiter EXCEPT ![r] = [state |-> "none", gen |-> 0]]
        /\ UNCHANGED <<gen, layouts, publisherVars, volume, home>>
        /\ waiter[r].state = "woken"
    <3>1. /\ waiter[r].state = "woken" /\ Complete(waiter[r].gen)
          /\ Learn(r, layouts[waiter[r].gen])
          /\ waiter' = [waiter EXCEPT ![r] = [state |-> "none", gen |-> 0]]
          /\ UNCHANGED <<gen, layouts, publisherVars, volume, home>>
      BY <1>6 DEF WakeUp, HasWoken, StopWaiting, NotWaiting
    <3> QED BY <3>1, CoordinatorTypes
  <2>2. /\ plan' \in [Requester -> [Mesh -> Layout] \cup {Unknown}]
        /\ pull' \in [Requester -> {"idle", "layouts", "mapping", "tensors"}]
        /\ pull'[r] # "layouts"
        /\ pull'[r] \in {"mapping", "tensors"} => plan'[r] # Unknown
        /\ \A q \in Requester \ {r} : pull'[q] = pull[q] /\ plan'[q] = plan[q]
        /\ left' \in [Requester -> SUBSET Mesh]
    BY <2>1, LearnTypes
  <2>3. CoordinatorTypeOK'
    <3>1. gen \in 0..MaxInit /\ 0 \in 0..gen
      BY DEF TypeOK
    <3> QED BY <2>1, <3>1 DEF TypeOK, CoordinatorTypeOK
  <2>4. RequesterTypeOK'
    <3>1. home[r] # 0 /\ waiter'[r].state = "none" /\ waiter'[r].gen = 0
          /\ \A q \in Requester \ {r} : waiter'[q] = waiter[q]
      <4>1. pull[r] # "idle" /\ home[r] # 0
        BY <2>1 DEF TypeOK
      <4> QED BY <2>1, <4>1 DEF TypeOK
    <3>2. RequesterIsWell(r)'
      BY <2>1, <2>2, <3>1 DEF RequesterIsWell
    <3>3. home' \in [Requester -> 0..gen]' /\ home' = home /\ gen' = gen
      BY <2>1 DEF TypeOK
    <3> QED BY <2>2, <3>1, <3>2, <3>3, OneRequesterTypes
  <2> QED BY <1>0, <2>1, <2>3, <2>4, TypeParts DEF PublisherTypeOK, VolumeTypeOK
<1>7. ASSUME NEW r \in Requester, TimesOut(r) \/ PullFails(r)
      PROVE  TypeOK'
  <2>1. /\ PullEnds(r) /\ StopWaiting(r)
        /\ UNCHANGED <<publisherVars, volume, home, plan>>
    BY <1>7 DEF TimesOut, PullFails
  <2> QED BY <1>0, <2>1, PullEndsTypes, TypeParts DEF PublisherTypeOK, VolumeTypeOK, StopWaiting
<1>8. ASSUME NEW r \in Requester, NEW p \in left[r],
             ReadMapping(r, p) \/ ReadTensors(r, p)
      PROVE  TypeOK'
  <2>1. /\ UNCHANGED <<coordinatorVars, publisherVars, volume, home, plan>>
        /\ pull[r] \in {"mapping", "tensors"}
        /\ \/ /\ pull' = [pull EXCEPT ![r] = "idle"]
              /\ left' = [left EXCEPT ![r] = {}]
           \/ /\ pull' = [pull EXCEPT ![r] = "tensors"]
              /\ left' = [left EXCEPT ![r] = Reads[r]]
           \/ /\ pull' = pull
              /\ left' = [left EXCEPT ![r] = @ \ {p}]
    BY <1>8 DEF ReadMapping, ReadTensors, PullEnds, ReadOn
  <2>2. /\ pull' \in [Requester -> {"idle", "layouts", "mapping", "tensors"}]
        /\ left' \in [Requester -> SUBSET Mesh]
        /\ pull'[r] # "layouts"
        /\ \A q \in Requester \ {r} : pull'[q] = pull[q]
    <3>1. /\ pull \in [Requester -> {"idle", "layouts", "mapping", "tensors"}]
          /\ left \in [Requester -> SUBSET Mesh] /\ Reads[r] \in SUBSET Mesh
      BY DEF TypeOK
    <3> QED BY <2>1, <3>1
  <2>3. RequesterTypeOK'
    <3>1. RequesterIsWell(r)'
      BY <2>1, <2>2 DEF RequesterIsWell, TypeOK
    <3>2. home' \in [Requester -> 0..gen]' /\ plan' = plan /\ waiter' = waiter
          /\ home' = home /\ gen' = gen
          /\ plan' \in [Requester -> [Mesh -> Layout] \cup {Unknown}]
      BY <2>1 DEF TypeOK
    <3> QED BY <2>2, <3>1, <3>2, OneRequesterTypes
  <2> QED BY <1>0, <2>1, <2>3, TypeParts
          DEF CoordinatorTypeOK, PublisherTypeOK, VolumeTypeOK
<1>9. CASE UNCHANGED vars
  BY <1>0, <1>9, TypeParts
  DEF vars, CoordinatorTypeOK, PublisherTypeOK, VolumeTypeOK, RequesterTypeOK
<1> QED BY <1>1, <1>2, <1>3, <1>4, <1>5, <1>6, <1>7, <1>8, <1>9 DEF Next

(***************************************************************************)
(* Theorem.  Every call stays in a stage the code has, requesters wait     *)
(* exactly while their coroutine is on a condition, and whoever reads has  *)
(* a plan.                                                                 *)
(***************************************************************************)
THEOREM RoutedTypeCorrect == Spec => []TypeOK
  BY TypeInit, TypeStep, PTL DEF Spec

-----------------------------------------------------------------------------
(* No lost wake-up. *)

LEMMA RegisterWakes ==
  ASSUME TypeOK, NoLostWakeup, NEW p \in Mesh, NEW l \in Layout,
         RegisterLayout(p, l)
  PROVE  NoLostWakeup'
<1>1. CASE UNCHANGED <<gen, layouts, waiter>>
  BY <1>1 DEF NoLostWakeup, Complete, Registered
<1>2. CASE layouts[gen][p] = Unknown
  <2>1. /\ layouts' = [layouts EXCEPT ![gen][p] = l]
        /\ waiter' = IF Registered(gen) \cup {p} = Mesh THEN NotifyAll(gen) ELSE waiter
        /\ gen > 0 /\ gen' = gen
    BY <1>2 DEF RegisterLayout
  <2>2. gen \in 1..MaxInit /\ layouts[gen] \in [Mesh -> Layout \cup {Unknown}]
    BY <2>1, CoordinatorTypes
  <2>3. layouts'[gen] = [layouts[gen] EXCEPT ![p] = l]
        /\ \A g \in 1..MaxInit \ {gen} : layouts'[g] = layouts[g]
    BY <2>1, <2>2 DEF TypeOK
  <2>4. Registered(gen)' = Registered(gen) \cup {p}
    <3>1. \A q \in Mesh : layouts'[gen][q] # Unknown <=> q = p \/ layouts[gen][q] # Unknown
      BY <2>2, <2>3
    <3> QED BY <2>1, <3>1 DEF Registered
  <2>5. SUFFICES ASSUME NEW r \in Requester, waiter'[r].state = "waiting"
                 PROVE  ~Complete(waiter[r].gen)'
    BY DEF NoLostWakeup
  <2>6. waiter'[r] = waiter[r] /\ waiter[r].state = "waiting"
    BY <2>1, <2>5 DEF NotifyAll, Woken
  <2>7. waiter[r].gen \in 1..MaxInit /\ ~Complete(waiter[r].gen)
    BY <2>6, CoordinatorTypes DEF NoLostWakeup
  <2>8. CASE waiter[r].gen = gen
    <3>1. waiter[r] = Asleep(gen)
      BY <2>6, <2>8 DEF TypeOK, Asleep
    <3>2. Registered(gen) \cup {p} # Mesh
      BY <2>1, <2>5, <3>1 DEF NotifyAll, Woken
    <3> QED BY <2>1, <2>4, <2>6, <2>8, <3>2 DEF Complete
  <2>9. CASE waiter[r].gen # gen
    <3>1. layouts'[waiter[r].gen] = layouts[waiter[r].gen]
      BY <2>3, <2>7, <2>9
    <3> QED BY <2>6, <2>7, <3>1 DEF Complete, Registered
  <2> QED BY <2>8, <2>9
<1> QED BY <1>1, <1>2 DEF RegisterLayout

(* Whoever else sleeps slept before; a newcomer found the layouts incomplete. *)
LEMMA WakeupStep == TypeOK /\ NoLostWakeup /\ [Next]_vars => NoLostWakeup'
<1> SUFFICES ASSUME TypeOK, NoLostWakeup, [Next]_vars PROVE NoLostWakeup'
  OBVIOUS
<1>1. ASSUME layouts' = layouts,
             \A r \in Requester : waiter'[r].state = "waiting" =>
               waiter'[r] = waiter[r] \/ ~Complete(waiter'[r].gen)
      PROVE  NoLostWakeup'
  BY <1>1 DEF NoLostWakeup, Complete, Registered
<1>2. CASE UNCHANGED <<layouts, waiter>>
  BY <1>1, <1>2
<1>3. CASE \E p \in Rank : Register(p) \/ RegisterUnheard(p)
  <2> PICK p \in Rank : Register(p) \/ RegisterUnheard(p)
    BY <1>3
  <2>1. push[p].layout \in Layout
    BY DEF Register, RegisterUnheard, TypeOK
  <2>2. CASE p \in Mesh /\ RegisterLayout(p, push[p].layout)
    BY <2>1, <2>2, RegisterWakes
  <2>3. CASE UNCHANGED <<layouts, waiter>>
    BY <1>2, <2>3
  <2> QED BY <2>2, <2>3 DEF Register, RegisterUnheard, IsPublisher, coordinatorVars
<1>4. ASSUME NEW r \in Requester, PullWaits(r)
      PROVE  NoLostWakeup'
  <2>1. layouts' = layouts /\ waiter' = [waiter EXCEPT ![r] = Asleep(gen)]
        /\ ~Complete(gen)
    BY <1>4 DEF PullWaits, WaitForLayouts
  <2>2. waiter'[r].gen = gen /\ \A q \in Requester \ {r} : waiter'[q] = waiter[q]
    BY <2>1 DEF Asleep, TypeOK
  <2> QED BY <1>1, <2>1, <2>2
<1>5. ASSUME NEW r \in Requester, StopWaiting(r)
      PROVE  NoLostWakeup'
  <2>1. layouts' = layouts /\ waiter' = [waiter EXCEPT ![r] = NotWaiting]
    BY <1>5 DEF StopWaiting
  <2>2. waiter'[r].state = "none" /\ \A q \in Requester \ {r} : waiter'[q] = waiter[q]
    BY <2>1 DEF NotWaiting, TypeOK
  <2> QED BY <1>1, <2>1, <2>2
<1>6. CASE Initialize
  BY <1>2, <1>6 DEF Initialize, InitCoordinator
<1>7. CASE \E p \in Rank :
             \/ \E l \in Layout : StartPush(p, l) \/ PushAgain(p, l)
             \/ PutTensors(p) \/ PutMapping(p) \/ PushFails(p)
  BY <1>2, <1>7
  DEF StartPush, PushAgain, Begins, PutTensors, PutMapping, PushFails, coordinatorVars
<1>8. CASE \E r \in Requester : 
             \/ PullPlanned(r) \/ PullLearns(r)
             \/ \E p \in left[r] : ReadMapping(r, p) \/ ReadTensors(r, p)
  BY <1>2, <1>8
  DEF PullPlanned, PullLearns, ReadMapping, ReadTensors, coordinatorVars
<1>9. CASE \E r \in Requester : WakeUp(r) \/ TimesOut(r) \/ PullFails(r)
  BY <1>5, <1>9 DEF WakeUp, TimesOut, PullFails
<1>10. CASE UNCHANGED vars
  BY <1>2, <1>10 DEF vars, coordinatorVars
<1> QED BY <1>3, <1>4, <1>6, <1>7, <1>8, <1>9, <1>10 DEF Next

(***************************************************************************)
(* Theorem.  No requester sleeps on layouts that are complete.             *)
(***************************************************************************)
THEOREM NoWakeupIsLost == Spec => []NoLostWakeup
<1>1. Init => NoLostWakeup
  BY DEF Init, CoordinatorInit, NoLostWakeup, NotWaiting
<1> QED BY <1>1, WakeupStep, RoutedTypeCorrect, PTL DEF Spec

-----------------------------------------------------------------------------
(* The exchange implements its abstract specification. *)

(* A requester waits for layouts only while it has no plan. *)
WaitersPlanNothing ==
  \A r \in Requester : pull[r] = "layouts" => plan[r] = Unknown

LEMMA WaitersPlanStep ==
  TypeOK /\ WaitersPlanNothing /\ [Next]_vars => WaitersPlanNothing'
<1> SUFFICES ASSUME TypeOK, WaitersPlanNothing, [Next]_vars
             PROVE  WaitersPlanNothing'
  OBVIOUS
<1>1. ASSUME \A r \in Requester : pull'[r] = "layouts" =>
               plan'[r] = Unknown \/ (pull'[r] = pull[r] /\ plan'[r] = plan[r])
      PROVE  WaitersPlanNothing'
  BY <1>1 DEF WaitersPlanNothing
<1>2. CASE UNCHANGED <<pull, plan>>
  BY <1>1, <1>2
<1>3. ASSUME NEW r \in Requester, NEW ls \in [Mesh -> Layout], Learn(r, ls)
      PROVE  WaitersPlanNothing'
  BY <1>1, <1>3, LearnTypes
<1>4. ASSUME NEW r \in Requester, NEW stage \in {"idle", "mapping", "tensors"},
             pull' = [pull EXCEPT ![r] = stage], plan' = plan
      PROVE  WaitersPlanNothing'
  BY <1>1, <1>4 DEF TypeOK
<1>5. CASE \E r \in Requester : PullLearns(r)
  BY <1>3, <1>5, CoordinatorTypes DEF PullLearns, Available
<1>6. CASE \E r \in Requester : WakeUp(r)
  <2> PICK r \in Requester : WakeUp(r)
    BY <1>6
  <2>1. waiter[r].state # "none" /\ Complete(waiter[r].gen)
        /\ Learn(r, layouts[waiter[r].gen])
    BY DEF WakeUp, HasWoken
  <2> QED BY <1>3, <2>1, CoordinatorTypes
<1>7. CASE \E r \in Requester : PullWaits(r)
  BY <1>1, <1>7 DEF PullWaits, TypeOK
<1>8. CASE \E r \in Requester : PullPlanned(r) \/ TimesOut(r) \/ PullFails(r)
  BY <1>4, <1>8 DEF PullPlanned, TimesOut, PullFails, ReadOn, PullEnds
<1>9. CASE \E r \in Requester : \E p \in left[r] : ReadMapping(r, p) \/ ReadTensors(r, p)
  <2> PICK r \in Requester : \E p \in left[r] : ReadMapping(r, p) \/ ReadTensors(r, p)
    BY <1>9
  <2>1. /\ plan' = plan
        /\ \/ pull' = [pull EXCEPT ![r] = "idle"]
           \/ pull' = [pull EXCEPT ![r] = "tensors"]
           \/ pull' = pull
    BY DEF ReadMapping, ReadTensors, ReadOn, PullEnds
  <2> QED BY <1>2, <1>4, <2>1
<1>10. CASE Initialize \/ \E p \in Rank :
              \/ \E l \in Layout : StartPush(p, l) \/ PushAgain(p, l)
              \/ Register(p) \/ RegisterUnheard(p)
              \/ PutTensors(p) \/ PutMapping(p) \/ PushFails(p)
  BY <1>2, <1>10
  DEF Initialize, StartPush, PushAgain, Begins, Register, RegisterUnheard,
      PutTensors, PutMapping, PushFails, requesterVars
<1>11. CASE UNCHANGED vars
  BY <1>2, <1>11 DEF vars, requesterVars
<1> QED BY <1>5, <1>6, <1>7, <1>8, <1>9, <1>10, <1>11 DEF Next

(* A call learns the layouts of an init at most once, and only all of them. *)
LEMMA LearnImplements ==
  ASSUME TypeOK, NEW r \in Requester, NEW g \in 1..gen, Complete(g),
         plan[r] = Unknown, Learn(r, layouts[g]), UNCHANGED <<gen, layouts>>
  PROVE  [Exchange!Next]_(Exchange!vars)
<1>1. CASE plan' = [plan EXCEPT ![r] = layouts[g]]
  <2>1. \A p \in Mesh : layouts[g][p] # Unknown
    BY DEF Complete, Registered
  <2>2. Exchange!Learn(r, g)
    BY <1>1, <2>1 DEF Exchange!Learn
  <2> QED BY <2>2 DEF Exchange!Next
<1>2. CASE plan' = plan
  BY <1>2 DEF Exchange!vars
<1> QED BY <1>1, <1>2 DEF Learn

LEMMA RegisterImplements ==
  ASSUME NEW p \in Mesh, NEW l \in Layout, RegisterLayout(p, l), plan' = plan
  PROVE  [Exchange!Next]_(Exchange!vars)
<1>1. CASE layouts[gen][p] = Unknown
  <2>1. Exchange!Announce(p, l)
    BY <1>1 DEF RegisterLayout, Exchange!Announce
  <2> QED BY <2>1 DEF Exchange!Next
<1>2. CASE layouts[gen][p] # Unknown
  BY <1>2 DEF RegisterLayout, Exchange!vars
<1> QED BY <1>1, <1>2

LEMMA ExchangeStep ==
  TypeOK /\ WaitersPlanNothing /\ [Next]_vars => [Exchange!Next]_(Exchange!vars)
<1> SUFFICES ASSUME TypeOK, WaitersPlanNothing, [Next]_vars
             PROVE  [Exchange!Next]_(Exchange!vars)
  OBVIOUS
<1>1. CASE UNCHANGED <<gen, layouts, plan>>
  BY <1>1 DEF Exchange!vars
<1>2. CASE Initialize
  <2>1. Exchange!NewEpoch
    BY <1>2 DEF Initialize, InitCoordinator, requesterVars, Exchange!NewEpoch
  <2> QED BY <2>1 DEF Exchange!Next
<1>3. CASE \E p \in Rank : Register(p) \/ RegisterUnheard(p)
  <2> PICK p \in Rank : Register(p) \/ RegisterUnheard(p)
    BY <1>3
  <2>1. push[p].layout \in Layout /\ plan' = plan
    BY DEF Register, RegisterUnheard, TypeOK, requesterVars
  <2>2. CASE p \in Mesh /\ RegisterLayout(p, push[p].layout)
    BY <2>1, <2>2, RegisterImplements
  <2>3. CASE UNCHANGED coordinatorVars
    BY <1>1, <2>1, <2>3 DEF coordinatorVars
  <2> QED BY <2>2, <2>3 DEF Register, RegisterUnheard, IsPublisher
<1>4. CASE \E r \in Requester : PullLearns(r)
  <2> PICK r \in Requester : PullLearns(r)
    BY <1>4
  <2>1. /\ plan[r] = Unknown /\ Learn(r, layouts[gen]) /\ Complete(gen)
        /\ gen > 0 /\ UNCHANGED <<gen, layouts>>
    BY DEF PullLearns, Available, coordinatorVars
  <2>2. gen \in 1..gen
    BY <2>1 DEF TypeOK
  <2> QED BY <2>1, <2>2, LearnImplements
<1>5. CASE \E r \in Requester : WakeUp(r)
  <2> PICK r \in Requester : WakeUp(r)
    BY <1>5
  <2>1. /\ waiter[r].state = "woken" /\ Complete(waiter[r].gen)
        /\ Learn(r, layouts[waiter[r].gen]) /\ UNCHANGED <<gen, layouts>>
    BY DEF WakeUp, HasWoken, StopWaiting
  <2>2. plan[r] = Unknown
    BY <2>1 DEF TypeOK, WaitersPlanNothing
  <2> QED BY <2>1, <2>2, CoordinatorTypes, LearnImplements
<1>6. CASE \E r \in Requester :
             \/ PullPlanned(r) \/ PullWaits(r) \/ TimesOut(r) \/ PullFails(r)
             \/ \E p \in left[r] : ReadMapping(r, p) \/ ReadTensors(r, p)
  BY <1>1, <1>6
  DEF PullPlanned, PullWaits, WaitForLayouts, TimesOut, PullFails, StopWaiting,
      ReadMapping, ReadTensors, coordinatorVars
<1>7. CASE \E p \in Rank :
             \/ \E l \in Layout : StartPush(p, l) \/ PushAgain(p, l)
             \/ PutTensors(p) \/ PutMapping(p) \/ PushFails(p)
  BY <1>1, <1>7
  DEF StartPush, PushAgain, Begins, PutTensors, PutMapping, PushFails,
      coordinatorVars, requesterVars
<1>8. CASE UNCHANGED vars
  BY <1>1, <1>8 DEF vars, coordinatorVars, requesterVars
<1> QED BY <1>2, <1>3, <1>4, <1>5, <1>6, <1>7, <1>8 DEF Next

(***************************************************************************)
(* Theorem.  A requester learns the layouts of all publishers of one init  *)
(* or nothing, and no layout that was registered ever changes.             *)
(***************************************************************************)
THEOREM ExchangeImplemented == Spec => ExchangeSpec
<1>1. Init => Exchange!Init
  BY DEF Init, CoordinatorInit, Exchange!Init
<1>2. Init => WaitersPlanNothing
  BY DEF Init, WaitersPlanNothing
<1>3. Spec => []WaitersPlanNothing
  BY <1>2, WaitersPlanStep, RoutedTypeCorrect, PTL DEF Spec
<1> QED BY <1>1, <1>3, ExchangeStep, RoutedTypeCorrect, PTL
        DEF Spec, ExchangeSpec, Exchange!Spec

-----------------------------------------------------------------------------
(* What the volumes store: tensors in the layout that was registered *)

(***************************************************************************)
(* What one client's route table, the coordinator and the volume of its    *)
(* rank know of its layout.  A push that failed after the table was filled *)
(* leaves table and coordinator in step only if the retry is the same.     *)
(***************************************************************************)
Agreed ==
  /\ \A p \in marked : layouts[gen][p] # Unknown
  /\ \A p \in Rank : push[p].stage # "idle" => push[p].layout = table[p]
  /\ \A p \in Rank : push[p].stage \in {"tensors", "mapping"} => p \in marked
  /\ gen > 0 => \A p \in Mesh : layouts[gen][p] # Unknown => layouts[gen][p] = table[p]

StoredInv ==
  /\ \A g \in 1..MaxInit : \A p \in Rank : volume[g][p].tensors # 0 =>
       p \in Mesh /\ layouts[g][p] = volume[g][p].layout /\ layouts[g][p] # Unknown
  /\ \A g \in 1..MaxInit : g > gen => \A p \in Mesh : layouts[g][p] = Unknown

(* A registered layout stays, and only the current init gets new ones. *)
LEMMA LayoutsStay ==
  ASSUME TypeOK, NEW p \in Mesh, NEW l \in Layout, RegisterLayout(p, l)
  PROVE  /\ gen' = gen /\ gen \in 1..MaxInit
         /\ \A g \in 1..MaxInit, q \in Mesh :
              layouts'[g][q] = IF g = gen /\ q = p /\ layouts[g][q] = Unknown
                               THEN l ELSE layouts[g][q]
<1>1. gen' = gen /\ gen \in 1..MaxInit
  BY CoordinatorTypes DEF RegisterLayout
<1>2. CASE layouts[gen][p] = Unknown
  <2>1. layouts' = [layouts EXCEPT ![gen][p] = l]
    BY <1>2 DEF RegisterLayout
  <2> QED BY <1>1, <1>2, <2>1, CoordinatorTypes DEF TypeOK
<1>3. CASE layouts[gen][p] # Unknown
  <2>1. layouts' = layouts
    BY <1>3 DEF RegisterLayout
  <2> QED BY <1>1, <1>3, <2>1
<1> QED BY <1>2, <1>3

(* What the two puts of a push write, and nothing else. *)
LEMMA PutTensorsWrites ==
  ASSUME TypeOK, NEW p \in Rank, PutTensors(p)
  PROVE  /\ gen \in 1..MaxInit
         /\ volume'[gen][p].tensors = version[p]
         /\ volume'[gen][p].layout = push[p].layout
         /\ volume'[gen][p].mapping = volume[gen][p].mapping
         /\ \A g \in 1..MaxInit, q \in Rank :
              g # gen \/ q # p => volume'[g][q] = volume[g][q]
<1> DEFINE cell == [volume[gen][p] EXCEPT !.tensors = version[p],
                                          !.layout = push[p].layout]
<1>1. volume \in [1..MaxInit -> [Rank ->
        [tensors : Nat, mapping : Nat, layout : Layout \cup {Unknown}]]]
  BY DEF TypeOK
<1>2. gen \in 1..MaxInit
  BY CoordinatorTypes DEF TypeOK, PutTensors
<1>3. volume' = [volume EXCEPT ![gen] = [volume[gen] EXCEPT ![p] = cell]]
  BY <1>1, <1>2 DEF PutTensors
<1>4. /\ cell.tensors = version[p] /\ cell.layout = push[p].layout
      /\ cell.mapping = volume[gen][p].mapping
  <2>1. volume[gen][p] \in [tensors : Nat, mapping : Nat, layout : Layout \cup {Unknown}]
    BY <1>1, <1>2
  <2> QED BY <2>1
<1> HIDE DEF cell
<1> QED BY <1>1, <1>2, <1>3, <1>4

LEMMA PutMappingWrites ==
  ASSUME TypeOK, NEW p \in Rank, PutMapping(p)
  PROVE  /\ gen \in 1..MaxInit
         /\ volume'[gen][p].mapping = version[p]
         /\ volume'[gen][p].tensors = volume[gen][p].tensors
         /\ volume'[gen][p].layout = volume[gen][p].layout
         /\ \A g \in 1..MaxInit, q \in Rank :
              g # gen \/ q # p => volume'[g][q] = volume[g][q]
<1> DEFINE cell == [volume[gen][p] EXCEPT !.mapping = version[p]]
<1>1. volume \in [1..MaxInit -> [Rank ->
        [tensors : Nat, mapping : Nat, layout : Layout \cup {Unknown}]]]
  BY DEF TypeOK
<1>2. gen \in 1..MaxInit
  BY CoordinatorTypes DEF TypeOK, PutMapping
<1>3. volume' = [volume EXCEPT ![gen] = [volume[gen] EXCEPT ![p] = cell]]
  BY <1>1, <1>2 DEF PutMapping
<1>4. /\ cell.mapping = version[p] /\ cell.layout = volume[gen][p].layout
      /\ cell.tensors = volume[gen][p].tensors
  <2>1. volume[gen][p] \in [tensors : Nat, mapping : Nat, layout : Layout \cup {Unknown}]
    BY <1>1, <1>2
  <2> QED BY <2>1
<1> HIDE DEF cell
<1> QED BY <1>1, <1>2, <1>3, <1>4

LEMMA AgreedStep ==
  ASSUME SteadyRetry, TypeOK, Agreed, StoredInv, [Next]_vars
  PROVE  Agreed'
<1>1. CASE UNCHANGED <<coordinatorVars, publisherVars>>
  BY <1>1 DEF Agreed, coordinatorVars, publisherVars
<1>2. CASE Initialize
  <2>1. /\ gen \in Nat /\ gen' = gen + 1 /\ gen < MaxInit /\ layouts' = layouts
        /\ marked' = {} /\ push' = [p \in Rank |-> Resting]
    BY <1>2 DEF Initialize, InitCoordinator, TypeOK
  <2>2. gen' \in 1..MaxInit /\ gen' > gen
    BY <2>1
  <2>3. \A p \in Mesh : layouts'[gen'][p] = Unknown
    BY <2>1, <2>2 DEF StoredInv
  <2> QED BY <2>1, <2>3 DEF Agreed, Resting
<1>3. ASSUME NEW p \in Rank, NEW l \in Layout, StartPush(p, l)
      PROVE  Agreed'
  <2>1. /\ UNCHANGED <<coordinatorVars, marked>> /\ push[p].stage = "idle"
        /\ table[p] \in {Unknown, l} /\ table' = [table EXCEPT ![p] = l]
        /\ push' = [push EXCEPT ![p] = [stage |-> "register", layout |-> l]]
    BY <1>3 DEF StartPush, Begins
  <2>2. push'[p].stage = "register" /\ push'[p].layout = l /\ table'[p] = l
        /\ \A q \in Rank \ {p} : push'[q] = push[q] /\ table'[q] = table[q]
    BY <2>1 DEF TypeOK
  <2>3. \A q \in Mesh : q \in Rank
    OBVIOUS
  <2>4. gen' > 0 => \A q \in Mesh : layouts'[gen'][q] # Unknown => layouts'[gen'][q] = table'[q]
    BY <2>1, <2>2, <2>3 DEF Agreed, coordinatorVars
  <2> QED BY <2>1, <2>2, <2>4 DEF Agreed, coordinatorVars
<1>4. ASSUME NEW p \in Rank, NEW l \in Layout, PushAgain(p, l)
      PROVE  Agreed'
  <2>1. UNCHANGED <<coordinatorVars, table, marked>> /\ p \in marked
    BY <1>4 DEF PushAgain, Begins
  <2>2. \/ push' = push
        \/ push' = [push EXCEPT ![p] = [stage |-> "tensors", layout |-> l]] /\ l = table[p]
    BY <1>4 DEF PushAgain
  <2>3. \A q \in Rank : \/ push'[q] = push[q]
                        \/ q = p /\ push'[q] = [stage |-> "tensors", layout |-> table[p]]
    BY <2>2 DEF TypeOK
  <2> QED BY <2>1, <2>3 DEF Agreed, coordinatorVars
<1>5. ASSUME NEW p \in Mesh, p \in Rank, push[p].stage = "register",
             RegisterLayout(p, push[p].layout), table' = table,
             \/ marked' = marked /\ push' = [push EXCEPT ![p] = Resting]
             \/ marked' = marked \cup {p} /\ push' = [push EXCEPT ![p].stage = "tensors"]
      PROVE  Agreed'
  <2>1. push[p].layout \in Layout /\ push[p].layout = table[p]
    BY <1>5 DEF TypeOK, Agreed
  <2>2. /\ gen' = gen /\ gen \in 1..MaxInit /\ gen > 0
        /\ \A q \in Mesh : layouts'[gen][q] =
             IF q = p /\ layouts[gen][q] = Unknown THEN table[p] ELSE layouts[gen][q]
    BY <1>5, <2>1, LayoutsStay
  <2>3. \A q \in Rank \ {p} : push'[q] = push[q]
    BY <1>5 DEF TypeOK
  <2>4. \/ marked' = marked /\ push'[p].stage = "idle"
        \/ marked' = marked \cup {p} /\ push'[p].stage = "tensors" /\ push'[p].layout = push[p].layout
    BY <1>5 DEF TypeOK, Resting
  <2>5. table[p] # Unknown /\ marked \subseteq Mesh
    BY <2>1 DEF TypeOK
  <2>6. \A q \in marked' : layouts'[gen'][q] # Unknown
    BY <2>2, <2>4, <2>5 DEF Agreed
  <2>7. \A q \in Mesh : layouts'[gen'][q] # Unknown => layouts'[gen'][q] = table'[q]
    BY <1>5, <2>2 DEF Agreed
  <2>8. \A q \in Rank : push'[q].stage # "idle" => push'[q].layout = table'[q]
    BY <1>5, <2>1, <2>3, <2>4 DEF Agreed
  <2>9. \A q \in Rank : push'[q].stage \in {"tensors", "mapping"} => q \in marked'
    BY <2>3, <2>4 DEF Agreed
  <2> QED BY <2>6, <2>7, <2>8, <2>9 DEF Agreed
<1>6. ASSUME NEW p \in Rank, UNCHANGED <<coordinatorVars, table, marked>>,
             \/ push' = [push EXCEPT ![p] = Resting]
             \/ push[p].stage = "tensors" /\ push' = [push EXCEPT ![p].stage = "mapping"]
      PROVE  Agreed'
  <2>1. \A q \in Rank \ {p} : push'[q] = push[q]
    BY <1>6 DEF TypeOK
  <2>2. \/ push'[p].stage = "idle"
        \/ push[p].stage = "tensors" /\ push'[p].stage = "mapping" /\ push'[p].layout = push[p].layout
    BY <1>6 DEF TypeOK, Resting
  <2> QED BY <1>6, <2>1, <2>2 DEF Agreed, coordinatorVars
<1>7. CASE \E p \in Rank : Register(p) \/ RegisterUnheard(p)
  <2> PICK p \in Rank : Register(p) \/ RegisterUnheard(p)
    BY <1>7
  <2>1. CASE p \in Mesh
    BY <1>5, <2>1 DEF Register, RegisterUnheard, IsPublisher, PushEnds, Advance
  <2>2. CASE p \notin Mesh
    BY <1>6, <2>2 DEF Register, RegisterUnheard, IsPublisher, PushEnds
  <2> QED BY <2>1, <2>2
<1>8. CASE \E p \in Rank : PutTensors(p) \/ PutMapping(p) \/ PushFails(p)
  BY <1>6, <1>8 DEF PutTensors, PutMapping, PushFails, PushEnds, Advance
<1>9. CASE \E r \in Requester :
             \/ PullPlanned(r) \/ PullLearns(r)
             \/ \E p \in left[r] : ReadMapping(r, p) \/ ReadTensors(r, p)
  BY <1>1, <1>9 DEF PullPlanned, PullLearns, ReadMapping, ReadTensors
<1>10. CASE \E r \in Requester :
              PullWaits(r) \/ WakeUp(r) \/ TimesOut(r) \/ PullFails(r)
  <2>1. UNCHANGED <<gen, layouts, publisherVars>>
    BY <1>10
    DEF PullWaits, WaitForLayouts, WakeUp, TimesOut, PullFails, StopWaiting
  <2> QED BY <2>1 DEF Agreed, publisherVars
<1>11. CASE UNCHANGED vars
  BY <1>1, <1>11 DEF vars
<1> QED BY <1>2, <1>3, <1>4, <1>7, <1>8, <1>9, <1>10, <1>11 DEF Next

LEMMA StoredStep ==
  ASSUME TypeOK, Agreed, StoredInv, [Next]_vars
  PROVE  StoredInv'
<1>1. CASE UNCHANGED <<gen, layouts, volume>>
  BY <1>1 DEF StoredInv
<1>2. CASE Initialize
  BY <1>2 DEF Initialize, InitCoordinator, StoredInv, TypeOK
<1>3. ASSUME NEW p \in Mesh, NEW l \in Layout, RegisterLayout(p, l), volume' = volume
      PROVE  StoredInv'
  <2>1. /\ gen' = gen /\ gen \in 1..MaxInit
        /\ \A g \in 1..MaxInit, q \in Mesh :
              layouts'[g][q] = IF g = gen /\ q = p /\ layouts[g][q] = Unknown
                               THEN l ELSE layouts[g][q]
    BY <1>3, LayoutsStay
  <2>2. \A g \in 1..MaxInit, q \in Mesh :
          layouts[g][q] # Unknown => layouts'[g][q] = layouts[g][q]
    BY <2>1
  <2>3. \A g \in 1..MaxInit : g > gen => g # gen
    BY <2>1
  <2> QED BY <1>3, <2>1, <2>2, <2>3 DEF StoredInv
<1>4. ASSUME NEW p \in Rank, PutTensors(p)
      PROVE  StoredInv'
  <2>1. UNCHANGED <<gen, layouts>> /\ push[p].stage = "tensors"
    BY <1>4 DEF PutTensors, coordinatorVars
  <2>2. p \in Mesh /\ layouts[gen][p] = push[p].layout /\ layouts[gen][p] # Unknown
    BY <2>1, <1>4, PutTensorsWrites DEF Agreed, TypeOK
  <2>3. SUFFICES ASSUME NEW g \in 1..MaxInit, NEW q \in Rank, volume'[g][q].tensors # 0
                 PROVE  q \in Mesh /\ layouts[g][q] = volume'[g][q].layout
                        /\ layouts[g][q] # Unknown
    BY <2>1 DEF StoredInv
  <2>4. CASE g = gen /\ q = p
    BY <1>4, <2>2, <2>4, PutTensorsWrites
  <2>5. CASE g # gen \/ q # p
    <3>1. volume'[g][q] = volume[g][q]
      BY <1>4, <2>5, PutTensorsWrites
    <3> QED BY <2>3, <3>1 DEF StoredInv
  <2> QED BY <2>4, <2>5
<1>5. ASSUME NEW p \in Rank, PutMapping(p)
      PROVE  StoredInv'
  <2>1. UNCHANGED <<gen, layouts>>
    BY <1>5 DEF PutMapping, coordinatorVars
  <2>2. ASSUME NEW g \in 1..MaxInit, NEW q \in Rank
        PROVE  /\ volume'[g][q].tensors = volume[g][q].tensors
               /\ volume'[g][q].layout = volume[g][q].layout
    <3>1. CASE g = gen /\ q = p
      BY <1>5, <3>1, PutMappingWrites
    <3>2. CASE g # gen \/ q # p
      BY <1>5, <3>2, PutMappingWrites
    <3> QED BY <3>1, <3>2
  <2> QED BY <2>1, <2>2 DEF StoredInv
<1>6. CASE \E p \in Rank : Register(p) \/ RegisterUnheard(p)
  <2> PICK p \in Rank : Register(p) \/ RegisterUnheard(p)
    BY <1>6
  <2>1. push[p].layout \in Layout /\ volume' = volume
    BY DEF Register, RegisterUnheard, TypeOK
  <2>2. CASE p \in Mesh /\ RegisterLayout(p, push[p].layout)
    BY <1>3, <2>1, <2>2
  <2>3. CASE UNCHANGED coordinatorVars
    BY <1>1, <2>1, <2>3 DEF coordinatorVars
  <2> QED BY <2>2, <2>3 DEF Register, RegisterUnheard, IsPublisher
<1>7. CASE \E p \in Rank :
             (\E l \in Layout : StartPush(p, l) \/ PushAgain(p, l)) \/ PushFails(p)
  BY <1>1, <1>7 DEF StartPush, PushAgain, Begins, PushFails, coordinatorVars
<1>8. CASE \E r \in Requester :
             \/ PullPlanned(r) \/ PullLearns(r) \/ PullWaits(r)
             \/ WakeUp(r) \/ TimesOut(r) \/ PullFails(r)
             \/ \E p \in left[r] : ReadMapping(r, p) \/ ReadTensors(r, p)
  BY <1>1, <1>8
  DEF PullPlanned, PullLearns, PullWaits, WaitForLayouts, WakeUp, TimesOut,
      PullFails, StopWaiting, ReadMapping, ReadTensors, coordinatorVars
<1>9. CASE UNCHANGED vars
  BY <1>1, <1>9 DEF vars, coordinatorVars
<1> QED BY <1>2, <1>4, <1>5, <1>6, <1>7, <1>8, <1>9 DEF Next

LEMMA StoredInit == Init => Agreed /\ StoredInv
  BY DEF Init, CoordinatorInit, Agreed, StoredInv, Resting, EmptyVolume

(***************************************************************************)
(* Theorem.  If callers retry a failed push with the layout they first     *)
(* tried, a volume never stores tensors in a layout other than the one     *)
(* that the requesters were told.                                          *)
(***************************************************************************)
THEOREM TensorsAsRegistered ==
  ASSUME SteadyRetry
  PROVE  Spec => []StoredAsRegistered
<1>1. Agreed /\ StoredInv /\ TypeOK /\ [Next]_vars => Agreed' /\ StoredInv'
  BY AgreedStep, StoredStep
<1>2. TypeOK /\ StoredInv => StoredAsRegistered
  BY DEF TypeOK, StoredInv, StoredAsRegistered
<1> QED BY <1>1, <1>2, StoredInit, RoutedTypeCorrect, PTL DEF Spec

-----------------------------------------------------------------------------
(* The mapping commits. *)

(***************************************************************************)
(* The mapping is put last and read first: on a volume it says that the    *)
(* tensors are there, on a requester's way that it has seen them all.      *)
(***************************************************************************)
CommitInv ==
  /\ \A g \in 1..MaxInit : \A p \in Rank :
       volume[g][p].mapping # 0 => volume[g][p].tensors # 0
  /\ \A p \in Rank : push[p].stage # "idle" => version[p] # 0
  /\ \A p \in Rank : push[p].stage = "mapping" => volume[gen][p].tensors # 0

SeenInv ==
  \A r \in Requester :
    /\ pull[r] = "mapping" =>
         \A p \in Reads[r] \ left[r] : volume[home[r]][p].mapping # 0
    /\ pull[r] = "tensors" =>
         \A p \in Reads[r] : volume[home[r]][p].mapping # 0

LEMMA CommitStep ==
  ASSUME TypeOK, CommitInv, [Next]_vars
  PROVE  CommitInv'
<1>1. CASE UNCHANGED <<gen, publisherVars, volume>>
  BY <1>1 DEF CommitInv, publisherVars
<1>2. CASE Initialize
  BY <1>2 DEF Initialize, CommitInv, Resting
<1>3. ASSUME NEW p \in Rank, NEW l \in Layout, StartPush(p, l) \/ PushAgain(p, l)
      PROVE  CommitInv'
  <2>1. /\ version' = [version EXCEPT ![p] = @ + 1] /\ version \in [Rank -> Nat]
        /\ UNCHANGED <<gen, volume>>
    BY <1>3 DEF StartPush, PushAgain, Begins, TypeOK, coordinatorVars
  <2>2. \A q \in Rank : version'[q] \in Nat
                        /\ (version'[q] # 0 \/ (q # p /\ version'[q] = version[q]))
    BY <2>1
  <2>3. \A q \in Rank : \/ push'[q] = push[q]
                        \/ q = p /\ push'[q].stage \in {"register", "tensors"}
    BY <1>3 DEF StartPush, PushAgain, TypeOK
  <2> QED BY <2>1, <2>2, <2>3 DEF CommitInv
<1>4. ASSUME NEW p \in Rank, UNCHANGED <<gen, version, volume>>, push[p].stage # "idle",
             \/ push' = [push EXCEPT ![p] = Resting]
             \/ push' = [push EXCEPT ![p].stage = "tensors"]
      PROVE  CommitInv'
  <2>1. \A q \in Rank : \/ push'[q] = push[q]
                        \/ q = p /\ push'[q].stage \in {"idle", "tensors"}
    BY <1>4 DEF TypeOK, Resting
  <2> QED BY <1>4, <2>1 DEF CommitInv
<1>5. CASE \E p \in Rank : Register(p) \/ RegisterUnheard(p) \/ PushFails(p)
  <2> PICK p \in Rank : Register(p) \/ RegisterUnheard(p) \/ PushFails(p)
    BY <1>5
  <2>1. UNCHANGED <<gen, version, volume>> /\ push[p].stage # "idle"
    BY DEF Register, RegisterUnheard, PushFails, RegisterLayout, coordinatorVars
  <2>2. \/ push' = [push EXCEPT ![p] = Resting]
        \/ push' = [push EXCEPT ![p].stage = "tensors"]
    BY DEF Register, RegisterUnheard, PushFails, Advance, PushEnds
  <2> QED BY <1>4, <2>1, <2>2
<1>6. ASSUME NEW p \in Rank, PutTensors(p)
      PROVE  CommitInv'
  <2>1. UNCHANGED <<gen, version>> /\ version[p] # 0
        /\ push' = [push EXCEPT ![p].stage = "mapping"]
    BY <1>6 DEF PutTensors, Advance, CommitInv, coordinatorVars
  <2>2. push'[p].stage = "mapping" /\ \A q \in Rank \ {p} : push'[q] = push[q]
    BY <2>1 DEF TypeOK
  <2>3. ASSUME NEW g \in 1..MaxInit, NEW q \in Rank
        PROVE  \/ volume'[g][q] = volume[g][q] /\ (g # gen \/ q # p)
               \/ q = p /\ volume'[g][q].tensors # 0
    <3>1. CASE g = gen /\ q = p
      BY <1>6, <2>1, <3>1, PutTensorsWrites
    <3>2. CASE g # gen \/ q # p
      BY <1>6, <3>2, PutTensorsWrites
    <3> QED BY <3>1, <3>2
  <2>4. gen \in 1..MaxInit
    BY <1>6, PutTensorsWrites
  <2> QED BY <2>1, <2>2, <2>3, <2>4 DEF CommitInv
<1>7. ASSUME NEW p \in Rank, PutMapping(p)
      PROVE  CommitInv'
  <2>1. UNCHANGED <<gen, version>> /\ volume[gen][p].tensors # 0
        /\ push' = [push EXCEPT ![p] = Resting]
    BY <1>7 DEF PutMapping, PushEnds, CommitInv, coordinatorVars
  <2>2. push'[p].stage = "idle" /\ \A q \in Rank \ {p} : push'[q] = push[q]
    BY <2>1 DEF TypeOK, Resting
  <2>3. ASSUME NEW g \in 1..MaxInit, NEW q \in Rank
        PROVE  /\ volume'[g][q].tensors = volume[g][q].tensors
               /\ volume'[g][q].mapping # 0 => volume'[g][q].tensors # 0
    <3>1. CASE g = gen /\ q = p
      BY <1>7, <2>1, <3>1, PutMappingWrites
    <3>2. CASE g # gen \/ q # p
      BY <1>7, <3>2, PutMappingWrites DEF CommitInv
    <3> QED BY <3>1, <3>2
  <2>4. gen \in 1..MaxInit
    BY <1>7, PutMappingWrites
  <2> QED BY <2>1, <2>2, <2>3, <2>4 DEF CommitInv
<1>8. CASE \E r \in Requester :
             \/ PullPlanned(r) \/ PullLearns(r) \/ PullWaits(r)
             \/ WakeUp(r) \/ TimesOut(r) \/ PullFails(r)
             \/ \E p \in left[r] : ReadMapping(r, p) \/ ReadTensors(r, p)
  BY <1>1, <1>8
  DEF PullPlanned, PullLearns, PullWaits, WaitForLayouts, WakeUp, TimesOut,
      PullFails, StopWaiting, ReadMapping, ReadTensors, coordinatorVars
<1>9. CASE UNCHANGED vars
  BY <1>1, <1>9 DEF vars, coordinatorVars
<1> QED BY <1>2, <1>3, <1>5, <1>6, <1>7, <1>8, <1>9 DEF Next

(* A mapping, once written, is never taken away. *)
LEMMA MappingsStay ==
  ASSUME TypeOK, CommitInv, [Next]_vars
  PROVE  \A g \in 1..MaxInit, q \in Rank :
           volume[g][q].mapping # 0 => volume'[g][q].mapping # 0
<1>1. CASE UNCHANGED volume
  BY <1>1
<1>2. ASSUME NEW p \in Rank, PutTensors(p), NEW g \in 1..MaxInit, NEW q \in Rank
      PROVE  volume'[g][q].mapping = volume[g][q].mapping
  <2>1. CASE g = gen /\ q = p
    BY <1>2, <2>1, PutTensorsWrites
  <2>2. CASE g # gen \/ q # p
    BY <1>2, <2>2, PutTensorsWrites
  <2> QED BY <2>1, <2>2
<1>3. ASSUME NEW p \in Rank, PutMapping(p), NEW g \in 1..MaxInit, NEW q \in Rank
      PROVE  volume[g][q].mapping # 0 => volume'[g][q].mapping # 0
  <2>1. CASE g = gen /\ q = p
    <3>1. version[p] # 0
      BY <1>3 DEF PutMapping, CommitInv
    <3> QED BY <1>3, <2>1, <3>1, PutMappingWrites
  <2>2. CASE g # gen \/ q # p
    BY <1>3, <2>2, PutMappingWrites
  <2> QED BY <2>1, <2>2
<1>4. CASE \E p \in Rank : PutTensors(p)
  BY <1>2, <1>4
<1>5. CASE \E p \in Rank : PutMapping(p)
  BY <1>3, <1>5
<1>6. CASE \/ Initialize
           \/ \E p \in Rank :
                \/ \E l \in Layout : StartPush(p, l) \/ PushAgain(p, l)
                \/ Register(p) \/ RegisterUnheard(p) \/ PushFails(p)
  BY <1>1, <1>6
  DEF Initialize, StartPush, PushAgain, Begins, Register, RegisterUnheard, PushFails
<1>7. CASE \E r \in Requester :
             \/ PullPlanned(r) \/ PullLearns(r) \/ PullWaits(r)
             \/ WakeUp(r) \/ TimesOut(r) \/ PullFails(r)
             \/ \E p \in left[r] : ReadMapping(r, p) \/ ReadTensors(r, p)
  BY <1>1, <1>7
  DEF PullPlanned, PullLearns, PullWaits, WakeUp, TimesOut, PullFails,
      ReadMapping, ReadTensors
<1>8. CASE UNCHANGED vars
  BY <1>1, <1>8 DEF vars
<1> QED BY <1>4, <1>5, <1>6, <1>7, <1>8 DEF Next

LEMMA SeenStep ==
  ASSUME TypeOK, CommitInv, SeenInv, [Next]_vars
  PROVE  SeenInv'
<1>0. /\ \A r \in Requester : pull[r] # "idle" => home[r] \in 1..MaxInit
      /\ \A r \in Requester : Reads[r] \subseteq Mesh
      /\ \A r \in Requester : Reads[r] \subseteq Rank
  <2>1. \A r \in Requester : home[r] \in 0..gen /\ (pull[r] # "idle" => home[r] # 0)
    BY DEF TypeOK
  <2>2. gen \in 0..MaxInit
    BY DEF TypeOK
  <2> QED BY <2>1, <2>2
<1>1. ASSUME NEW r \in Requester,
             \/ pull'[r] \in {"idle", "layouts"}
             \/ pull'[r] = "mapping" /\ left'[r] = Reads[r]
             \/ pull'[r] = pull[r] /\ left'[r] = left[r] /\ home'[r] = home[r]
      PROVE  /\ pull'[r] = "mapping" =>
                  \A p \in Reads[r] \ left'[r] : volume'[home'[r]][p].mapping # 0
             /\ pull'[r] = "tensors" =>
                  \A p \in Reads[r] : volume'[home'[r]][p].mapping # 0
  BY <1>0, <1>1, MappingsStay DEF SeenInv
<1>2. ASSUME NEW r \in Requester,
             \/ pull'[r] \in {"idle", "layouts"}
             \/ pull'[r] = "mapping" /\ left'[r] = Reads[r],
             \A q \in Requester \ {r} :
               pull'[q] = pull[q] /\ left'[q] = left[q] /\ home'[q] = home[q]
      PROVE  SeenInv'
  BY <1>1, <1>2 DEF SeenInv
<1>3. CASE UNCHANGED requesterVars
  BY <1>1, <1>3 DEF SeenInv, requesterVars
<1>4. CASE \E r \in Requester : PullPlanned(r) \/ PullLearns(r) \/ PullWaits(r)
  <2> PICK r \in Requester : PullPlanned(r) \/ PullLearns(r) \/ PullWaits(r)
    BY <1>4
  <2>1. \A q \in Requester \ {r} : home'[q] = home[q]
    BY DEF PullPlanned, PullLearns, PullWaits, Calls, TypeOK
  <2>2. \/ PullEnds(r) \/ ReadOn(r, "mapping")
        \/ pull' = [pull EXCEPT ![r] = "layouts"] /\ left' = left
    BY DEF PullPlanned, PullLearns, PullWaits, Learn
  <2>3. /\ \/ pull'[r] \in {"idle", "layouts"}
           \/ pull'[r] = "mapping" /\ left'[r] = Reads[r]
        /\ \A q \in Requester \ {r} : pull'[q] = pull[q] /\ left'[q] = left[q]
    BY <2>2 DEF PullEnds, ReadOn, TypeOK
  <2> QED BY <1>2, <2>1, <2>3
<1>5. CASE \E r \in Requester : WakeUp(r) \/ TimesOut(r) \/ PullFails(r)
  <2> PICK r \in Requester : WakeUp(r) \/ TimesOut(r) \/ PullFails(r)
    BY <1>5
  <2>1. home' = home
    BY DEF WakeUp, TimesOut, PullFails
  <2>2. PullEnds(r) \/ ReadOn(r, "mapping")
    BY DEF WakeUp, TimesOut, PullFails, Learn
  <2>3. /\ \/ pull'[r] \in {"idle", "layouts"}
           \/ pull'[r] = "mapping" /\ left'[r] = Reads[r]
        /\ \A q \in Requester \ {r} : pull'[q] = pull[q] /\ left'[q] = left[q]
    BY <2>2 DEF PullEnds, ReadOn, TypeOK
  <2> QED BY <1>2, <2>1, <2>3
<1>6. ASSUME NEW r \in Requester, NEW p \in left[r],
             ReadMapping(r, p) \/ ReadTensors(r, p)
      PROVE  SeenInv'
  <2>1. UNCHANGED <<volume, home>>
    BY <1>6 DEF ReadMapping, ReadTensors
  <2>2. CASE PullEnds(r)
    <3>1. pull'[r] = "idle" /\ \A q \in Requester \ {r} : pull'[q] = pull[q] /\ left'[q] = left[q]
      BY <2>2 DEF PullEnds, TypeOK
    <3> QED BY <1>2, <2>1, <3>1
  <2>3. CASE ReadMapping(r, p) /\ ~PullEnds(r)
    <3>1. /\ pull[r] = "mapping" /\ volume[home[r]][p].mapping # 0
          /\ \/ left[r] = {p} /\ ReadOn(r, "tensors")
             \/ pull' = pull /\ left' = [left EXCEPT ![r] = @ \ {p}]
      BY <2>3 DEF ReadMapping
    <3>2. /\ \/ left[r] = {p} /\ pull'[r] = "tensors"
             \/ pull'[r] = "mapping" /\ left'[r] = left[r] \ {p}
          /\ \A q \in Requester \ {r} : pull'[q] = pull[q] /\ left'[q] = left[q]
      BY <3>1 DEF ReadOn, TypeOK
    <3>3. \A q \in Reads[r] \ (left[r] \ {p}) : volume'[home'[r]][q].mapping # 0
      BY <2>1, <3>1 DEF SeenInv
    <3> QED BY <2>1, <3>2, <3>3 DEF SeenInv
  <2>4. CASE ReadTensors(r, p) /\ ~PullEnds(r)
    <3>1. pull[r] = "tensors" /\ pull' = pull /\ left' = [left EXCEPT ![r] = @ \ {p}]
      BY <2>4 DEF ReadTensors
    <3>2. \A q \in Requester \ {r} : left'[q] = left[q]
      BY <3>1 DEF TypeOK
    <3> QED BY <2>1, <3>1, <3>2 DEF SeenInv
  <2> QED BY <1>6, <2>2, <2>3, <2>4
<1>7. CASE Initialize \/ \E p \in Rank :
             \/ \E l \in Layout : StartPush(p, l) \/ PushAgain(p, l)
             \/ Register(p) \/ RegisterUnheard(p)
             \/ PutTensors(p) \/ PutMapping(p) \/ PushFails(p)
  BY <1>3, <1>7
  DEF Initialize, StartPush, PushAgain, Begins, Register, RegisterUnheard,
      PutTensors, PutMapping, PushFails
<1>8. CASE UNCHANGED vars
  BY <1>3, <1>8 DEF vars
<1> QED BY <1>4, <1>5, <1>6, <1>7, <1>8 DEF Next

(***************************************************************************)
(* Theorem.  Under the same condition, a requester that read the mapping   *)
(* of every volume it depends on finds all tensors it planned to read.     *)
(***************************************************************************)
THEOREM MappingIsCommitMarker ==
  ASSUME SteadyRetry
  PROVE  Spec => []MappingCommits
<1>1. Init => CommitInv /\ SeenInv
  BY DEF Init, CommitInv, SeenInv, Resting, EmptyVolume
<1>2. CommitInv /\ SeenInv /\ TypeOK /\ [Next]_vars => CommitInv' /\ SeenInv'
  BY CommitStep, SeenStep
<1>3. TypeOK /\ StoredAsRegistered /\ CommitInv /\ SeenInv => MappingCommits
  <2> SUFFICES ASSUME TypeOK, StoredAsRegistered, CommitInv, SeenInv,
                      NEW r \in Requester, pull[r] = "tensors",
                      plan[r] = layouts[home[r]], NEW p \in Reads[r]
               PROVE  Serves(p, r)
    BY DEF MappingCommits
  <2>1. home[r] \in 1..gen /\ gen \in 0..MaxInit
    BY DEF TypeOK
  <2>2. home[r] \in 1..MaxInit /\ p \in Mesh /\ p \in Rank
    BY <2>1
  <2>3. volume[home[r]][p].tensors # 0
    BY <2>2 DEF SeenInv, CommitInv
  <2>4. layouts[home[r]][p] = volume[home[r]][p].layout
    BY <2>1, <2>2, <2>3 DEF StoredAsRegistered
  <2> QED BY <2>3, <2>4 DEF Serves
<1> QED BY <1>1, <1>2, <1>3, TensorsAsRegistered, RoutedTypeCorrect, PTL DEF Spec
=============================================================================
