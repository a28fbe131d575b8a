----------------------------- MODULE RoutedSync -----------------------------
(***************************************************************************)
(* put_state_dict and get_state_dict of one state dict in routing mode.    *)
(* Publishers register their layout, then put the tensors and last the     *)
(* mapping on the volume of their rank; requesters learn all layouts, plan *)
(* their reads, read the mapping of each volume they depend on and then    *)
(* the tensors, always directly from the publishers' volumes.              *)
(*                                                                         *)
(* A layout stands for the slices that all ranks register when the whole   *)
(* state dict is sharded in one way; a version counts a publisher's pushes.*)
(***************************************************************************)
EXTENDS RoutingCoordinator

CONSTANTS
  Reads,        \* the publishers whose volumes the plan of a requester names
  MaxPush,      \* bounds on the pushes of the ranks
  Faults,       \* "push", "reply", "pull", "timeout": what may go wrong
  SteadyRetry   \* whether callers retry a failed push with the same layout

ASSUME ReadsAssumption == Reads \in [Requester -> (SUBSET Mesh) \ {{}}]
ASSUME BoundsAssumption == MaxPush \in [Rank -> Nat]

VARIABLES
  push,         \* where a rank's put_state_dict is, and with which layout
  version,      \* the number of pushes it has begun
  table,        \* the layout in its local route table
  marked,       \* the ranks whose client has the key in _registered_layouts
  volume,       \* per init, what the volume of each rank stores
  home,         \* the init whose strategy, and volumes, a requester uses
  plan,         \* the layouts a requester's plan was built from
  pull,         \* where a requester's get_state_dict is
  left          \* the volumes it still has to read from

publisherVars == <<push, version, table, marked>>
requesterVars == <<home, plan, pull, left>>
vars == <<coordinatorVars, publisherVars, volume, requesterVars>>

Resting == [stage |-> "idle", layout |-> Unknown]
EmptyVolume == [tensors |-> 0, mapping |-> 0, layout |-> Unknown]

Init ==
  /\ CoordinatorInit
  /\ push = [p \in Rank |-> Resting]
  /\ version = [p \in Rank |-> 0]
  /\ table = [p \in Rank |-> Unknown]
  /\ marked = {}
  /\ volume = [g \in 1..MaxInit |-> [p \in Rank |-> EmptyVolume]]
  /\ home = [r \in Requester |-> 0]
  /\ plan = [r \in Requester |-> Unknown]
  /\ pull = [r \in Requester |-> "idle"]
  /\ left = [r \in Requester |-> {}]

-----------------------------------------------------------------------------
(* Publishers *)

(* initialize, with a new trainer mesh: new volumes and publisher clients. *)
Initialize ==
  /\ InitCoordinator
  /\ push' = [p \in Rank |-> Resting]
  /\ table' = [p \in Rank |-> Unknown]
  /\ marked' = {}
  /\ UNCHANGED <<version, volume, requesterVars>>

(* put_state_dict returns or raises. *)
PushEnds(p) == push' = [push EXCEPT ![p] = Resting]

Advance(p, stage) == push' = [push EXCEPT ![p].stage = stage]

Begins(p) ==
  /\ gen > 0 /\ push[p].stage = "idle" /\ version[p] < MaxPush[p]
  /\ version' = [version EXCEPT ![p] = @ + 1]
  /\ UNCHANGED <<coordinatorVars, marked, volume, requesterVars>>

(* The first push installs the layout and sends it to the coordinator. *)
StartPush(p, l) ==
  /\ Begins(p) /\ p \notin marked
  /\ SteadyRetry => table[p] \in {Unknown, l}
  /\ table' = [table EXCEPT ![p] = l]
  /\ push' = [push EXCEPT ![p] = [stage |-> "register", layout |-> l]]

(* Variant: put_batch does not compare the slices with the plan. *)
PushAgainUnchecked(p, l) ==
  /\ Begins(p) /\ p \in marked
  /\ push' = [push EXCEPT ![p] = [stage |-> "tensors", layout |-> l]]
  /\ UNCHANGED table

(* Later ones go on to the tensors, which must match the plan. *)
PushAgain(p, l) ==
  /\ Begins(p) /\ p \in marked
  /\ IF l = table[p]
     THEN push' = [push EXCEPT ![p] = [stage |-> "tensors", layout |-> l]]
     ELSE UNCHANGED push   \* ValueError
  /\ UNCHANGED table

Register(p) ==
  /\ push[p].stage = "register"
  /\ IF IsPublisher(p)
     THEN /\ RegisterLayout(p, push[p].layout)
          /\ marked' = marked \cup {p}
          /\ Advance(p, "tensors")
     ELSE /\ PushEnds(p)   \* KeyError
          /\ UNCHANGED <<coordinatorVars, marked>>
  /\ UNCHANGED <<version, table, volume, requesterVars>>

(* The coordinator registers the layout, and the reply is lost. *)
RegisterUnheard(p) ==
  /\ "reply" \in Faults
  /\ push[p].stage = "register" /\ IsPublisher(p)
  /\ RegisterLayout(p, push[p].layout)
  /\ PushEnds(p)
  /\ UNCHANGED <<version, table, marked, volume, requesterVars>>

PutTensors(p) ==
  /\ push[p].stage = "tensors"
  /\ volume' = [volume EXCEPT ![gen][p].tensors = version[p],
                              ![gen][p].layout = push[p].layout]
  /\ Advance(p, "mapping")
  /\ UNCHANGED <<coordinatorVars, version, table, marked, requesterVars>>

PutMapping(p) ==
  /\ push[p].stage = "mapping"
  /\ volume' = [volume EXCEPT ![gen][p].mapping = version[p]]
  /\ PushEnds(p)
  /\ UNCHANGED <<coordinatorVars, version, table, marked, requesterVars>>

PushFails(p) ==
  /\ "push" \in Faults
  /\ push[p].stage # "idle"
  /\ PushEnds(p)
  /\ UNCHANGED <<coordinatorVars, version, table, marked, volume, requesterVars>>

-----------------------------------------------------------------------------
(* Requesters *)

(* The client is created, with the strategy of the day, at the first call. *)
Calls(r) ==
  /\ gen > 0 /\ pull[r] = "idle"
  /\ home' = [home EXCEPT ![r] = IF @ = 0 THEN gen ELSE @]

(* get_state_dict returns or raises. *)
PullEnds(r) ==
  /\ pull' = [pull EXCEPT ![r] = "idle"]
  /\ left' = [left EXCEPT ![r] = {}]

ReadOn(r, stage) ==
  /\ pull' = [pull EXCEPT ![r] = stage]
  /\ left' = [left EXCEPT ![r] = Reads[r]]

(***************************************************************************)
(* Slices of one sharding cover a requested slice exactly.  The covering   *)
(* count refuses a mixture of shardings unless what overlaps and what is   *)
(* missing have the same size.                                             *)
(***************************************************************************)
OneSharding(ls) == \A p, q \in Mesh : ls[p] = ls[q]

Learn(r, ls) ==
  \/ plan' = [plan EXCEPT ![r] = ls] /\ ReadOn(r, "mapping")
  \/ ~OneSharding(ls) /\ PullEnds(r) /\ UNCHANGED plan   \* ValueError

PullPlanned(r) ==
  /\ Calls(r) /\ plan[r] # Unknown
  /\ ReadOn(r, "mapping")
  /\ UNCHANGED <<coordinatorVars, publisherVars, volume, plan>>

(* Variant: whoever has registered will do. *)
PullLearnsEarly(r) ==
  /\ Calls(r) /\ plan[r] = Unknown /\ Registered(gen) # {}
  /\ plan' = [plan EXCEPT ![r] = layouts[gen]] /\ ReadOn(r, "mapping")
  /\ UNCHANGED <<coordinatorVars, publisherVars, volume>>

PullLearns(r) ==
  /\ Calls(r) /\ plan[r] = Unknown /\ Available
  /\ Learn(r, layouts[gen])
  /\ UNCHANGED <<coordinatorVars, publisherVars, volume>>

PullWaits(r) ==
  /\ Calls(r) /\ plan[r] = Unknown
  /\ WaitForLayouts(r)
  /\ pull' = [pull EXCEPT ![r] = "layouts"]
  /\ UNCHANGED <<publisherVars, volume, plan, left>>

WakeUp(r) ==
  /\ HasWoken(r)
  /\ StopWaiting(r)
  /\ Learn(r, layouts[waiter[r].gen])
  /\ UNCHANGED <<publisherVars, volume, home>>

(* The timer may fire after the notification, before the coroutine runs. *)
TimesOut(r) ==
  /\ "timeout" \in Faults
  /\ pull[r] = "layouts"
  /\ StopWaiting(r)
  /\ PullEnds(r)
  /\ UNCHANGED <<publisherVars, volume, home, plan>>

(* Variant: one mapping will do, as one copy of an object does elsewhere. *)
ReadOneMapping(r, p) ==
  /\ pull[r] = "mapping" /\ p \in left[r]
  /\ IF volume[home[r]][p].mapping = 0 THEN PullEnds(r) ELSE ReadOn(r, "tensors")
  /\ UNCHANGED <<coordinatorVars, publisherVars, volume, home, plan>>

(* One volume after the other; their order makes no difference here. *)
ReadMapping(r, p) ==
  /\ pull[r] = "mapping" /\ p \in left[r]
  /\ IF volume[home[r]][p].mapping = 0
     THEN PullEnds(r)   \* RuntimeError
     ELSE IF left[r] = {p}
     THEN ReadOn(r, "tensors")
     ELSE left' = [left EXCEPT ![r] = @ \ {p}] /\ UNCHANGED pull
  /\ UNCHANGED <<coordinatorVars, publisherVars, volume, home, plan>>

Serves(p, r) ==
  /\ volume[home[r]][p].tensors # 0
  /\ volume[home[r]][p].layout = plan[r][p]

(* From all volumes at once; the first failure ends the call. *)
ReadTensors(r, p) ==
  /\ pull[r] = "tensors" /\ p \in left[r]
  /\ IF ~Serves(p, r)
     THEN PullEnds(r)   \* KeyError
     ELSE IF left[r] = {p}
     THEN PullEnds(r)
     ELSE left' = [left EXCEPT ![r] = @ \ {p}] /\ UNCHANGED pull
  /\ UNCHANGED <<coordinatorVars, publisherVars, volume, home, plan>>

PullFails(r) ==
  /\ "pull" \in Faults
  /\ pull[r] # "idle"
  /\ StopWaiting(r)
  /\ PullEnds(r)
  /\ UNCHANGED <<publisherVars, volume, home, plan>>

-----------------------------------------------------------------------------

Next ==
  \/ Initialize
  \/ \E p \in Rank :
       \/ \E l \in Layout : StartPush(p, l) \/ PushAgain(p, l)
       \/ Register(p) \/ RegisterUnheard(p)
       \/ PutTensors(p) \/ PutMapping(p) \/ PushFails(p)
  \/ \E r \in Requester :
       \/ PullPlanned(r) \/ PullLearns(r) \/ PullWaits(r)
       \/ WakeUp(r) \/ TimesOut(r) \/ PullFails(r)
       \/ \E p \in left[r] : ReadMapping(r, p) \/ ReadTensors(r, p)

Spec == Init /\ [][Next]_vars

(***************************************************************************)
(* The coordinator's loop resumes a coroutine that was woken.  Nobody need *)
(* push or pull, and no timeout need fire.                                 *)
(***************************************************************************)
Fairness == \A r \in Requester : WF_vars(WakeUp(r))

FairSpec == Spec /\ Fairness

-----------------------------------------------------------------------------
(* Properties *)

Stages == {"idle", "register", "tensors", "mapping"}

TypeOK ==
  /\ gen \in 0..MaxInit
  /\ layouts \in [1..MaxInit -> [Mesh -> Layout \cup {Unknown}]]
  /\ waiter \in [Requester -> [state : {"none", "waiting", "woken"}, gen : 0..gen]]
  /\ push \in [Rank -> [stage : Stages, layout : Layout \cup {Unknown}]]
  /\ \A p \in Rank : push[p].stage # "idle" => gen > 0 /\ push[p].layout \in Layout
  /\ version \in [Rank -> Nat]
  /\ table \in [Rank -> Layout \cup {Unknown}]
  /\ marked \subseteq Mesh
  /\ volume \in [1..MaxInit -> [Rank ->
       [tensors : Nat, mapping : Nat, layout : Layout \cup {Unknown}]]]
  /\ home \in [Requester -> 0..gen]
  /\ plan \in [Requester -> [Mesh -> Layout] \cup {Unknown}]
  /\ pull \in [Requester -> {"idle", "layouts", "mapping", "tensors"}]
  /\ \A r \in Requester :
       /\ pull[r] # "idle" => home[r] # 0
       /\ waiter[r].state = "none" <=> waiter[r].gen = 0
       /\ pull[r] = "layouts" <=> waiter[r].state # "none"
       /\ pull[r] \in {"mapping", "tensors"} => plan[r] # Unknown
  /\ left \in [Requester -> SUBSET Mesh]

(***************************************************************************)
(* "Once all publishers have registered, notify every requester": no       *)
(* requester sleeps on layouts that are complete, whatever the order of    *)
(* registrations, waits, timeouts and retries.                             *)
(***************************************************************************)
NoLostWakeup ==
  \A r \in Requester :
    waiter[r].state = "waiting" => ~Complete(waiter[r].gen)

(***************************************************************************)
(* A volume stores tensors only in the layout that the coordinator has     *)
(* from its rank, in spite of failed pushes, lost replies and attempts to  *)
(* push another sharding: plans stay true without being checked again.     *)
(***************************************************************************)
StoredAsRegistered ==
  \A g \in 1..gen : \A p \in Rank :
    volume[g][p].tensors # 0 =>
      p \in Mesh /\ layouts[g][p] = volume[g][p].layout

(***************************************************************************)
(* The mapping is the commit marker: a requester that has read the mapping *)
(* of every volume it depends on finds the tensors there, in the layout it *)
(* planned for, if its plan is about the volumes its client knows.         *)
(***************************************************************************)
MappingCommits ==
  \A r \in Requester :
    pull[r] = "tensors" /\ plan[r] = layouts[home[r]]
      => \A p \in Reads[r] : Serves(p, r)

(***************************************************************************)
(* Every requester learns the layouts of all publishers of one init, and   *)
(* no publisher's layout ever changes: the exchange is that of             *)
(* LayoutExchange, with waiting, wake-ups, timeouts and lost replies.      *)
(***************************************************************************)
Exchange ==
  INSTANCE LayoutExchange WITH
    Publisher <- Mesh, Epochs <- MaxInit, epoch <- gen, learned <- plan,
    announced <- layouts

ExchangeSpec == Exchange!Spec

(***************************************************************************)
(* A requester that waits is answered once its layouts are complete.       *)
(***************************************************************************)
WaitersServed ==
  \A r \in Requester :
    (waiter[r].state # "none" /\ Complete(waiter[r].gen))
      ~> waiter[r].state = "none"
=============================================================================
