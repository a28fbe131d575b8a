------------------------- MODULE RoutingCoordinator -------------------------
(***************************************************************************)
(* The actor that collects the publishers' layouts of one state dict and   *)
(* hands them to the requesters.  Its two concurrent endpoints suspend     *)
(* only in Condition.wait, which gives the lock up, so between two         *)
(* suspensions an endpoint is one step.                                    *)
(***************************************************************************)
EXTENDS Naturals, FiniteSets

CONSTANTS
  Rank,         \* the ranks with a publisher client
  Mesh,         \* the publishers that init is told of
  Requester,
  Layout,       \* the shardings a state dict may have, seen as a whole
  Unknown,
  MaxInit       \* bound on the calls of init

ASSUME MeshAssumption == Mesh \subseteq Rank /\ Mesh # {}
ASSUME LayoutsAssumption ==
  Unknown \notin Layout /\ Unknown \notin [Mesh -> Layout]
ASSUME InitsAssumption == MaxInit \in Nat

VARIABLES
  gen,          \* how often init has run; 0 is "init has not run"
  layouts,      \* per init, the layout each publisher has registered
  waiter        \* per requester, its coroutine in get_layouts

coordinatorVars == <<gen, layouts, waiter>>

(* A coroutine waits on the condition of the layouts it found. *)
NotWaiting == [state |-> "none", gen |-> 0]
Asleep(g) == [state |-> "waiting", gen |-> g]
Woken(g) == [state |-> "woken", gen |-> g]

CoordinatorInit ==
  /\ gen = 0
  /\ layouts = [g \in 1..MaxInit |-> [p \in Mesh |-> Unknown]]
  /\ waiter = [r \in Requester |-> NotWaiting]

(* Fresh layouts; those who wait on the old ones are not told. *)
InitCoordinator ==
  /\ gen < MaxInit
  /\ gen' = gen + 1
  /\ UNCHANGED <<layouts, waiter>>

Registered(g) == { p \in Mesh : layouts[g][p] # Unknown }

Complete(g) == Registered(g) = Mesh

(* Variant: Condition.notify, which wakes one. *)
NotifyOne(g) ==
  LET asleep == { r \in Requester : waiter[r] = Asleep(g) }
  IN  IF asleep = {} THEN waiter
      ELSE [waiter EXCEPT ![CHOOSE r \in asleep : TRUE] = Woken(g)]

NotifyAll(g) ==
  [r \in Requester |-> IF waiter[r] = Asleep(g) THEN Woken(g) ELSE waiter[r]]

(* register_layout, for a rank that it accepts: the first call counts. *)
IsPublisher(p) == p \in Mesh

RegisterLayout(p, l) ==
  /\ gen > 0
  /\ IF layouts[gen][p] = Unknown
     THEN /\ layouts' = [layouts EXCEPT ![gen][p] = l]
          /\ waiter' = IF Registered(gen) \cup {p} = Mesh
                       THEN NotifyAll(gen) ELSE waiter
     ELSE UNCHANGED <<layouts, waiter>>
  /\ UNCHANGED gen

(* get_layouts: the caller gets layouts[gen] at once, or waits for them. *)
Available == gen > 0 /\ Complete(gen)

WaitForLayouts(r) ==
  /\ gen > 0 /\ ~Complete(gen)
  /\ waiter' = [waiter EXCEPT ![r] = Asleep(gen)]
  /\ UNCHANGED <<gen, layouts>>

(* The woken coroutine finds its layouts complete; otherwise it sleeps on. *)
HasWoken(r) == waiter[r].state = "woken" /\ Complete(waiter[r].gen)

(* Variant: the coroutine is not taken off the condition. *)
StopsNotWaiting(r) == UNCHANGED <<gen, layouts, waiter>>

StopWaiting(r) ==
  /\ waiter' = [waiter EXCEPT ![r] = NotWaiting]
  /\ UNCHANGED <<gen, layouts>>
=============================================================================
