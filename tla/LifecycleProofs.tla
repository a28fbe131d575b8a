--------------------------- MODULE LifecycleProofs ---------------------------
(***************************************************************************)
(* Proofs about the stores of a program and its SPMD session, for any      *)
(* number of processes, tasks, stores and initializations, and whatever    *)
(* fails; those about the volumes assume that no two stores share the      *)
(* volume of the default strategy.                                         *)
(***************************************************************************)
EXTENDS SpmdSession, TLAPS

USE LifecycleAssumption, SpmdAssumption

-----------------------------------------------------------------------------
(* Calls *)

Stages == LifeStages \cup {"join", "attach", "controller", "status", "kill",
                          "mesh"}

CallType ==
  [stage : Stages,
   op : {"none", "initialize", "shutdown", "put", "get"},
   caller : {"api", "spmd"},
   store : Store \cup {Nothing}, volume : Volumes \cup {Nothing}, epoch : Nat]

Handling == {"install", "go", "notify", "get"}
Spawned == {"init", "get_id"}
Tearing == {"teardown", "reset", "cleared"}

(* Where a call is, and what it is for, go together. *)
InOrder(c) ==
  /\ c.op = "none" => c.stage = "idle"
  /\ c.op = "initialize" => c.stage \in Spawned \cup {"join", "attach",
                               "returned", "raised", "controller", "mesh"}
  /\ c.op = "shutdown" => c.stage \in Tearing \cup {"returned", "raised",
                                                    "status", "kill", "mesh"}
  /\ c.op \in {"put", "get"} => c.stage \in Handling \cup {"ask"}
  /\ c.stage # "idle" => c.store \in Store
  /\ c.stage \in Spawned => /\ c.epoch \in 1..MaxInit[c.store]
                            /\ c.volume = VolumeOf(c.store, c.epoch)
  /\ c.stage = "notify" => c.op = "put"
  /\ c.stage = "get" => c.op = "get"
  /\ c.caller = "spmd" => /\ c.store = Collective
                          /\ c.op \in {"initialize", "shutdown"}
  /\ c.stage \in {"join", "attach", "controller", "status", "kill", "mesh",
                  "returned", "raised"} => c.caller = "spmd"

LifeInv ==
  /\ TypeOK
  /\ calls \in [Task -> CallType]
  /\ \A t \in Task : InOrder(calls[t])
  /\ \A s \in Store : epoch[s] \in 0..MaxInit[s]

-----------------------------------------------------------------------------
(* The session *)

(* The ranks of a session, and those on their way to one, have started. *)
Registered == \A t \in Task : calls[t].caller = "spmd" => Of[t] \in started

(* The one start of the session by rank 0. *)
Starting(t) ==
  /\ Of[t] = Primary
  /\ calls[t].caller = "spmd" /\ calls[t].op = "initialize"

(* Only rank 0 gets as far as the store itself; others wait for it. *)
PeersOnlyWait ==
  \A t \in Task :
    /\ calls[t].caller = "spmd" /\ Of[t] # Primary
         => calls[t].stage \in {"join", "controller", "status"}
    /\ calls[t].op = "initialize" /\ calls[t].store = Collective
         => calls[t].caller = "spmd"

(* Rank 0 starts the session once, and before anybody knows a controller. *)
StartsOnce ==
  /\ \A t, u \in Task : Starting(t) /\ Starting(u) => t = u
  /\ \A t \in Task : Starting(t) =>
       /\ Primary \in started /\ ~rendezvous.controller
       /\ calls[t].stage \in {"join", "attach", "init"} => epoch[Collective] = 0
       /\ calls[t].stage \in {"get_id", "returned"} => epoch[Collective] = 1
       /\ calls[t].stage = "returned" => controllers[Collective].up
  /\ \A t \in Task :
       calls[t].stage \in Tearing /\ calls[t].store = Collective =>
         /\ Primary \notin sessions /\ epoch[Collective] = 1
         /\ \A u \in Task : ~Starting(u)
  /\ \A t \in Task : calls[t].caller = "spmd" /\ calls[t].op = "shutdown"
       => rendezvous.controller
  /\ sessions # {} => rendezvous.controller
  /\ Primary \in sessions => controllers[Collective].up
  /\ rendezvous.controller => epoch[Collective] = 1
  /\ epoch[Collective] \in {0, 1}
  /\ epoch[Collective] = 1 => Primary \in started

(* A shutdown that is reported as done has left nothing in the controller. *)
IsCleared(s) ==
  /\ ~controllers[s].up /\ ~controllers[s].indexed
  /\ controllers[s].strategy = Nothing

ClearedForGood ==
  /\ ~controllers[Collective].up => ~controllers[Collective].indexed
  /\ \A t \in Task :
       /\ calls[t].stage \in {"reset", "cleared"} /\ calls[t].store = Collective
            => IsCleared(Collective)
       /\ calls[t].stage = "returned" /\ calls[t].op = "shutdown"
            => controllers[Collective] = Unborn
  /\ rendezvous.shutdown # "none" => rendezvous.controller
  /\ StatusIsTrue

(* What rank 0 has started it will still stop, or it has a session. *)
Cleans(t, stages) ==
  /\ Of[t] = Primary /\ calls[t].caller = "spmd"
  /\ calls[t].stage \in stages

OnTheWay == Spawned \cup Tearing \cup {"attach", "returned", "raised", "kill"}

WillBeCleaned ==
  /\ job = "alive" => Primary \in sessions \/ \E t \in Task : Cleans(t, OnTheWay)
  /\ mesh = "alive" => Primary \in sessions
                       \/ \E t \in Task : Cleans(t, OnTheWay \cup {"mesh"})

SessionInv ==
  /\ LifeInv /\ Registered /\ PeersOnlyWait /\ StartsOnce /\ ClearedForGood
  /\ WillBeCleaned

-----------------------------------------------------------------------------
(* The volumes *)

NoSharing == \A s, q \in Shares : s = q

(* The volume of the store since it was last initialized. *)
Current(s) == VolumeOf(s, epoch[s])
Own(s) == <<s, epoch[s]>>

IsOf(t, s, stages) == calls[t].store = s /\ calls[t].stage \in stages

ControllerHolds(s) ==
  LET c == controllers[s]
  IN  /\ c.up => c.strategy = Current(s) /\ epoch[s] > 0
      /\ c.volumes \in {Nothing, Current(s)}
      /\ ~c.up => ~c.indexed
      /\ c.up /\ c.indexed => contents[Current(s)] \in {Own(s), Gone}

ClientsHold(s) ==
  \A p \in Process :
    clients[p][s] # Nothing => clients[p][s] = Current(s) /\ epoch[s] > 0

(* A put or a get that has its client works on the store as it is. *)
HandlingHolds(s) ==
  \A t \in Task :
    /\ IsOf(t, s, Handling) =>
         /\ calls[t].volume = Current(s) /\ calls[t].epoch = epoch[s]
         /\ epoch[s] > 0
    /\ IsOf(t, s, {"notify"}) /\ controllers[s].up
         => contents[Current(s)] \in {Own(s), Gone}
    /\ IsOf(t, s, {"get"}) => contents[Current(s)] \in {Own(s), Nothing, Gone}

(* While a store that is down is being initialized, nothing else goes on. *)
InitHolds(s) ==
  \A t \in Task : IsOf(t, s, Spawned) =>
    /\ calls[t].stage = "init" => calls[t].epoch = epoch[s] + 1
    /\ calls[t].stage = "get_id" =>
         /\ calls[t].epoch = epoch[s] /\ ~controllers[s].up
         /\ controllers[s].strategy = Current(s)
    /\ ~controllers[s].up =>
         /\ \A u \in Task : ~IsOf(u, s, Handling)
         /\ \A p \in Process : clients[p][s] = Nothing
    /\ \A u \in Task : /\ IsOf(u, s, Spawned) => u = t
                       /\ ~IsOf(u, s, Tearing)

TeardownHolds(s) ==
  \A t \in Task : IsOf(t, s, Tearing) =>
    /\ epoch[s] > 0
    /\ calls[t].stage \in {"reset", "cleared"} => ~controllers[s].up
    /\ calls[t].stage = "reset" => calls[t].volume = Current(s)

StoreHolds(s) ==
  /\ ControllerHolds(s) /\ ClientsHold(s) /\ HandlingHolds(s) /\ InitHolds(s)
  /\ TeardownHolds(s)

VolumeInv == \A s \in Store : StoreHolds(s)

-----------------------------------------------------------------------------
(* What a step does to the calls *)

(* Only the call of t is another one. *)
Moves(t) ==
  /\ calls' \in [Task -> CallType]
  /\ \A u \in Task \ {t} : calls'[u] = calls[u]

(* The call of t goes on at another stage. *)
GoesOn(t, stage) ==
  /\ Moves(t)
  /\ calls'[t].stage = stage
  /\ calls'[t].op = calls[t].op /\ calls'[t].caller = calls[t].caller
  /\ calls'[t].store = calls[t].store /\ calls'[t].volume = calls[t].volume
  /\ calls'[t].epoch = calls[t].epoch

IsIdle(c) ==
  /\ c.stage = "idle" /\ c.op = "none" /\ c.caller = "api" /\ c.store = Nothing

(* A call that goes on at a stage moves, with what it had.                 *)
LEMMA GotoMoves ==
  ASSUME calls \in [Task -> CallType], NEW t \in Task, NEW stage \in Stages,
         Goto(t, stage)
  PROVE  GoesOn(t, stage)
<1> DEFINE c == [calls[t] EXCEPT !.stage = stage]
<1>1. c \in CallType /\ calls[t] \in CallType
  BY DEF CallType
<1>2. calls' = [calls EXCEPT ![t] = c]
  BY DEF Goto
<1>3. /\ c.stage = stage /\ c.op = calls[t].op /\ c.caller = calls[t].caller
      /\ c.store = calls[t].store /\ c.volume = calls[t].volume
      /\ c.epoch = calls[t].epoch
  BY <1>1 DEF CallType
<1> HIDE DEF c
<1> QED BY <1>1, <1>2, <1>3 DEF GoesOn, Moves

(* A call that is over leaves its task idle.                               *)
LEMMA FinishedMoves ==
  ASSUME calls \in [Task -> CallType], NEW t \in Task, Finished(t)
  PROVE  Moves(t) /\ IsIdle(calls'[t])
<1>1. Idle \in CallType /\ IsIdle(Idle)
  BY DEF CallType, Idle, Stages, LifeStages, IsIdle
<1>2. calls' = [calls EXCEPT ![t] = Idle]
  BY DEF Finished
<1> QED BY <1>1, <1>2 DEF Moves

(* A call of the store that ends is over, or back in the session.          *)
LEMMA EndsMoves ==
  ASSUME calls \in [Task -> CallType], NEW t \in Task, NEW how \in Stages,
         Ends(t, how)
  PROVE  \/ calls[t].caller = "api" /\ Moves(t) /\ IsIdle(calls'[t])
         \/ calls[t].caller = "spmd" /\ GoesOn(t, how)
<1>1. calls[t].caller \in {"api", "spmd"}
  BY DEF CallType
<1>2. CASE calls[t].caller = "api"
  <2>1. Finished(t)
    BY <1>2 DEF Ends, Finished
  <2> QED BY <1>2, <2>1, FinishedMoves
<1>3. CASE calls[t].caller = "spmd"
  <2>1. Goto(t, how)
    BY <1>3 DEF Ends, Goto
  <2> QED BY <1>3, <2>1, GotoMoves
<1> QED BY <1>1, <1>2, <1>3

(* A call that begins moves the task.                                      *)
LEMMA BeginMoves ==
  ASSUME calls \in [Task -> CallType], NEW t \in Task,
         NEW op, NEW caller, NEW s, NEW v, NEW n, NEW stage,
         [stage |-> stage, op |-> op, caller |-> caller, store |-> s,
          volume |-> v, epoch |-> n] \in CallType,
         Begin(t, op, caller, s, v, n, stage)
  PROVE  /\ Moves(t)
         /\ calls'[t].stage = stage /\ calls'[t].op = op
         /\ calls'[t].caller = caller /\ calls'[t].store = s
         /\ calls'[t].volume = v /\ calls'[t].epoch = n
<1> DEFINE c == [stage |-> stage, op |-> op, caller |-> caller, store |-> s,
                 volume |-> v, epoch |-> n]
<1>1. calls' = [calls EXCEPT ![t] = c]
  BY DEF Begin
<1>2. /\ c.stage = stage /\ c.op = op /\ c.caller = caller /\ c.store = s
      /\ c.volume = v /\ c.epoch = n
  OBVIOUS
<1>3. c \in CallType
  OBVIOUS
<1> HIDE DEF c
<1> QED BY <1>1, <1>2, <1>3 DEF Moves

(* The strategy of an initialization that may happen names a volume.       *)
LEMMA VolumesOfEpochs ==
  ASSUME NEW s \in Store, NEW n \in 1..MaxInit[s]
  PROVE  VolumeOf(s, n) \in Volumes
  BY DEF Volumes

-----------------------------------------------------------------------------
(* The type of the state *)

(* Types and order hold at first.                                          *)
LEMMA LifeInitially == Init => LifeInv
<1> SUFFICES ASSUME Init PROVE LifeInv
  OBVIOUS
<1> USE DEF Init, LifeInit
<1>1. Idle \in CallType /\ InOrder(Idle)
  BY DEF CallType, Idle, Stages, LifeStages, InOrder, Handling, Spawned, Tearing
<1>2. /\ calls \in [Task -> CallType]
      /\ \A t \in Task : InOrder(calls[t])
  BY <1>1
<1>3. \A s \in Store : epoch[s] \in 0..MaxInit[s]
  OBVIOUS
<1>4. LifecycleTypeOK
  BY DEF LifecycleTypeOK, Unborn
<1>5. \A t \in Task :
       /\ calls[t].stage \in LifeStages \cup {"join", "attach", "controller",
                                              "status", "kill", "mesh"}
       /\ calls[t].store \in Store \cup {Nothing}
       /\ calls[t].volume \in Volumes \cup {Nothing}
  BY <1>2 DEF CallType, Stages
<1>6. TypeOK
  BY <1>4, <1>5 DEF TypeOK, Rendezvous
<1> QED BY <1>2, <1>3, <1>6 DEF LifeInv

(* What is left of the type when the calls are set apart. *)
StateType ==
  /\ LifecycleTypeOK
  /\ \A s \in Store : epoch[s] \in 0..MaxInit[s]
  /\ started \subseteq Rank /\ sessions \subseteq started
  /\ rendezvous \in Rendezvous
  /\ {job, mesh} \subseteq {"none", "alive", "failed", "gone"}

(* The type of the state is that of its variables.                         *)
LEMMA TypeInParts ==
  LifeInv <=> /\ StateType /\ calls \in [Task -> CallType]
              /\ \A t \in Task : InOrder(calls[t])
  BY DEF LifeInv, StateType, TypeOK, CallType, Stages

(* To keep the order of the calls, look at the call that moves.            *)
LEMMA MovesInOrder ==
  ASSUME LifeInv, NEW t \in Task, Moves(t), InOrder(calls'[t]), StateType'
  PROVE  LifeInv'
<1>1. \A u \in Task : InOrder(calls'[u])
  BY DEF LifeInv, Moves
<1> QED BY <1>1, TypeInParts DEF Moves, LifeInv, StateType, TypeOK, CallType, Stages

ControllerType ==
  [up : BOOLEAN, strategy : Volumes \cup {Nothing}, volumes : Volumes \cup {Nothing},
   indexed : BOOLEAN]

(* One controller, at most, is another one. *)
LEMMA ControllersKeepType ==
  ASSUME StateType, NEW s \in Store, NEW c \in ControllerType,
         controllers' = [controllers EXCEPT ![s] = c],
         contents' = contents, UNCHANGED spmdVars,
         clients' \in [Process -> [Store -> Volumes \cup {Nothing}]],
         epoch' \in [Store -> Nat], \A q \in Store : epoch'[q] \in 0..MaxInit[q]
  PROVE  StateType'
<1>1. controllers \in [Store -> ControllerType]
  BY DEF StateType, LifecycleTypeOK, ControllerType
<1>2. controllers' \in [Store -> ControllerType]
  BY <1>1
<1>3. LifecycleTypeOK'
  BY <1>2 DEF StateType, LifecycleTypeOK, ControllerType
<1> QED BY <1>3 DEF StateType, spmdVars

(* To set the client of one process for one store keeps the type.          *)
LEMMA ClientsKeepType ==
  ASSUME StateType, NEW p \in Process, NEW s \in Store,
         NEW v \in Volumes \cup {Nothing}, clients' = [clients EXCEPT ![p][s] = v]
  PROVE  clients' \in [Process -> [Store -> Volumes \cup {Nothing}]]
<1>1. clients \in [Process -> [Store -> Volumes \cup {Nothing}]]
  BY DEF StateType, LifecycleTypeOK
<1>2. [clients[p] EXCEPT ![s] = v] \in [Store -> Volumes \cup {Nothing}]
  BY <1>1
<1>3. clients' = [clients EXCEPT ![p] = [clients[p] EXCEPT ![s] = v]]
  OBVIOUS
<1> QED BY <1>1, <1>2, <1>3

(* So does to forget it.                                                   *)
LEMMA ForgetKeepsType ==
  ASSUME StateType, NEW t \in Task, OfStore(t) \in Store, ResetsClient(t)
  PROVE  clients' \in [Process -> [Store -> Volumes \cup {Nothing}]]
<1>1. CASE calls[t].caller = "api"
  <2>1. Of[t] \in Process
    OBVIOUS
  <2>2. clients' = [clients EXCEPT ![Of[t]][OfStore(t)] = Nothing]
    BY <1>1 DEF ResetsClient, Forget
  <2> QED BY <2>1, <2>2, ClientsKeepType
<1>2. CASE calls[t].caller # "api"
  BY <1>2 DEF ResetsClient, StateType, LifecycleTypeOK
<1> QED BY <1>1, <1>2

(* Steps that change nothing but calls. *)
LEMMA CallsOnly ==
  ASSUME LifeInv, NEW t \in Task, Moves(t), InOrder(calls'[t]),
         UNCHANGED <<controllers, contents, clients, epoch, spmdVars>>
  PROVE  LifeInv'
<1>1. StateType'
  BY TypeInParts DEF StateType, LifecycleTypeOK, spmdVars
<1> QED BY <1>1, MovesInOrder

(* A call of the store that goes on within its operation is in order.      *)
LEMMA GoesOnInOrder ==
  ASSUME NEW t \in Task, InOrder(calls[t]), NEW stage \in Stages,
         GoesOn(t, stage),
         stage # "idle" /\ calls[t].stage # "idle",
         stage \notin Spawned \/ calls[t].stage \in Spawned,
         stage \in {"notify", "get", "install", "go", "ask"} =>
           /\ calls[t].op \in {"put", "get"}
           /\ stage = "notify" => calls[t].op = "put"
           /\ stage = "get" => calls[t].op = "get",
         stage \in Spawned \cup {"attach", "join", "controller"}
           => calls[t].op = "initialize",
         stage \in Tearing \cup {"status", "kill"} => calls[t].op = "shutdown",
         stage \in {"returned", "raised", "mesh"}
           => calls[t].op \in {"initialize", "shutdown"},
         stage \in {"join", "attach", "controller", "status", "kill", "mesh",
                    "returned", "raised"} => calls[t].caller = "spmd"
  PROVE  InOrder(calls'[t])
  BY DEF GoesOn, InOrder, Stages, LifeStages, Spawned, Tearing, Handling

(* A task that has no call is in order.                                    *)
LEMMA IdleInOrder == ASSUME NEW c, IsIdle(c) PROVE InOrder(c)
  BY DEF IsIdle, InOrder, Handling, Spawned, Tearing

(* A call that ends is idle, or back in spmd.py. *)
LEMMA EndsInOrder ==
  ASSUME LifeInv, NEW t \in Task, NEW how \in {"returned", "raised"},
         Ends(t, how), calls[t].stage # "idle"
  PROVE  Moves(t) /\ InOrder(calls'[t])
<1>1. how \in Stages /\ calls \in [Task -> CallType] /\ InOrder(calls[t])
  BY DEF Stages, LifeStages, LifeInv
<1>2. \/ calls[t].caller = "api" /\ Moves(t) /\ IsIdle(calls'[t])
      \/ calls[t].caller = "spmd" /\ GoesOn(t, how)
  BY <1>1, EndsMoves
<1>3. CASE calls[t].caller = "spmd" /\ GoesOn(t, how)
  <2>1. calls[t].op \in {"initialize", "shutdown"}
    BY <1>1, <1>3 DEF InOrder
  <2>2. InOrder(calls'[t])
    BY <1>1, <1>3, <2>1, GoesOnInOrder DEF Spawned, Tearing
  <2> QED BY <1>3, <2>2 DEF GoesOn
<1> QED BY <1>2, <1>3, IdleInOrder

(* A call that begins at a stage of its operation is in order.             *)
LEMMA BegunInOrder ==
  ASSUME LifeInv, NEW t \in Task,
         NEW op \in {"initialize", "shutdown", "put", "get"},
         NEW caller \in {"api", "spmd"}, NEW s \in Store,
         NEW v \in Volumes \cup {Nothing}, NEW n \in Nat, NEW stage \in Stages,
         Begin(t, op, caller, s, v, n, stage),
         stage # "idle",
         op = "initialize" =>
           \/ stage = "join" /\ caller = "spmd"
           \/ stage = "init" /\ n \in 1..MaxInit[s] /\ v = VolumeOf(s, n),
         op = "shutdown" =>
           stage = "teardown" \/ (stage = "status" /\ caller = "spmd"),
         op \in {"put", "get"} => stage \in {"ask", "go"} /\ caller = "api",
         caller = "spmd" => s = Collective
  PROVE  Moves(t) /\ InOrder(calls'[t])
<1> DEFINE c == [stage |-> stage, op |-> op, caller |-> caller, store |-> s,
                 volume |-> v, epoch |-> n]
<1>1. c \in CallType
  BY DEF CallType
<1>2. calls' = [calls EXCEPT ![t] = c] /\ calls \in [Task -> CallType]
  BY DEF Begin, LifeInv
<1>3. InOrder(c)
  BY DEF InOrder, Handling, Spawned, Tearing
<1> HIDE DEF c
<1> QED BY <1>1, <1>2, <1>3 DEF Moves

(* So is one that has spawned the volumes.                                 *)
LEMMA SpawnInOrder ==
  ASSUME LifeInv, NEW t \in Task, NEW s \in Store, NEW caller \in {"api", "spmd"},
         Spawn(t, s, caller), caller = "spmd" => s = Collective
  PROVE  /\ Moves(t) /\ InOrder(calls'[t])
         /\ UNCHANGED <<controllers, contents, clients, epoch>>
         /\ calls'[t].stage = "init" /\ calls'[t].op = "initialize"
         /\ calls'[t].caller = caller /\ calls'[t].store = s
         /\ calls'[t].epoch = epoch[s] + 1 /\ epoch[s] < MaxInit[s]
<1> DEFINE n == epoch[s] + 1
<1>1. n \in 1..MaxInit[s]
  BY DEF LifeInv, Spawn
<1>2. VolumeOf(s, n) \in Volumes
  BY <1>1, VolumesOfEpochs
<1>3. Begin(t, "initialize", caller, s, VolumeOf(s, n), n, "init")
  BY DEF Spawn
<1>4. "init" \in Stages /\ n \in Nat
  BY <1>1 DEF Stages, LifeStages
<1> HIDE DEF n
<1>5. Moves(t) /\ InOrder(calls'[t])
  BY <1>1, <1>2, <1>3, <1>4, BegunInOrder
<1>6. /\ calls'[t].stage = "init" /\ calls'[t].op = "initialize"
      /\ calls'[t].caller = caller /\ calls'[t].store = s /\ calls'[t].epoch = n
  <2>1. [stage |-> "init", op |-> "initialize", caller |-> caller, store |-> s,
         volume |-> VolumeOf(s, n), epoch |-> n] \in CallType
    BY <1>2, <1>4 DEF CallType
  <2> QED BY <1>3, <2>1, BeginMoves DEF LifeInv
<1> QED BY <1>5, <1>6 DEF n, Spawn

-----------------------------------------------------------------------------
(* The steps of StoreLifecycle keep the type *)

(* Every step of a store keeps types and order.                            *)
LEMMA StoresKeepType ==
  ASSUME LifeInv, NEW t \in Task, LifeStep(t), UNCHANGED spmdVars
  PROVE  LifeInv'
<1>0. /\ calls \in [Task -> CallType] /\ InOrder(calls[t]) /\ StateType
      /\ calls[t] \in CallType
  BY TypeInParts DEF LifeInv
<1>k. /\ \A s \in Store : /\ controllers[s] \in ControllerType
                          /\ epoch[s] \in 0..MaxInit[s]
      /\ epoch \in [Store -> Nat] /\ DOMAIN controllers = Store
      /\ clients \in [Process -> [Store -> Volumes \cup {Nothing}]]
  BY <1>0 DEF StateType, LifecycleTypeOK, ControllerType
<1>s. calls[t].stage # "idle" => OfStore(t) \in Store
  BY <1>0 DEF InOrder, OfStore
<1>p. /\ {"get_id", "cleared", "go", "notify", "get", "install"} \subseteq Stages
      /\ "idle" \notin {"get_id", "cleared", "go", "notify", "get", "install"}
  BY DEF Stages, LifeStages
<1>1. ASSUME Ends(t, "raised") \/ Ends(t, "returned"), calls[t].stage # "idle",
             UNCHANGED <<controllers, contents, clients, epoch>>
      PROVE  LifeInv'
  BY <1>1, EndsInOrder, CallsOnly
<1>2. CASE InitBegins(t)
  <2>1. InOrder(calls'[t]) /\ Moves(t)
    <3>1. GoesOn(t, "get_id")
      BY <1>0, <1>2, <1>p, GotoMoves DEF InitBegins
    <3>2. calls[t].op = "initialize" /\ calls[t].stage = "init"
      BY <1>0, <1>2 DEF InitBegins, At, InOrder, CallType, Tearing, Handling
    <3> QED BY <1>0, <1>p, <3>1, <3>2, GoesOnInOrder DEF GoesOn, Spawned, Tearing
  <2>2. /\ calls[t].volume = VolumeOf(OfStore(t), calls[t].epoch)
        /\ calls[t].epoch \in 1..MaxInit[OfStore(t)] /\ OfStore(t) \in Store
    BY <1>0, <1>s, <1>2 DEF InitBegins, At, InOrder, OfStore, Spawned
  <2>3. calls[t].volume \in Volumes
    BY <2>2, VolumesOfEpochs
  <2>4. StateType'
    <3> DEFINE c == [controllers[OfStore(t)] EXCEPT !.strategy = calls[t].volume,
                                                    !.volumes = calls[t].volume]
    <3>1. /\ c \in ControllerType /\ c.strategy = calls[t].volume
          /\ c.volumes = calls[t].volume
      BY <1>k, <2>2, <2>3 DEF ControllerType
    <3>2. controllers' = [controllers EXCEPT ![OfStore(t)] = c]
      BY <1>2 DEF InitBegins
    <3> HIDE DEF c
    <3>3. UNCHANGED <<contents, clients, spmdVars>>
          /\ epoch' = [epoch EXCEPT ![OfStore(t)] = calls[t].epoch]
      BY <1>2 DEF InitBegins
    <3>4. /\ epoch' \in [Store -> Nat]
          /\ \A q \in Store : epoch'[q] \in 0..MaxInit[q]
      BY <1>k, <2>2, <3>3
    <3> QED BY <1>0, <1>k, <2>2, <2>3, <3>1, <3>2, <3>3, <3>4, ControllersKeepType
  <2> QED BY <2>1, <2>4, MovesInOrder
<1>3. CASE InitEnds(t)
  <2>1. Moves(t) /\ InOrder(calls'[t])
    BY <1>3, EndsInOrder DEF InitEnds, At
  <2>2. StateType'
    <3> DEFINE c == [controllers[OfStore(t)] EXCEPT !.up = TRUE]
    <3>0. OfStore(t) \in Store
      BY <1>s, <1>3 DEF InitEnds, At
    <3>1. /\ c \in ControllerType /\ c.strategy = controllers[OfStore(t)].strategy
          /\ c.volumes = controllers[OfStore(t)].volumes
      BY <1>k, <3>0 DEF ControllerType
    <3>2. /\ controllers' = [controllers EXCEPT ![OfStore(t)] = c]
          /\ UNCHANGED <<contents, clients, epoch, spmdVars>>
      BY <1>3 DEF InitEnds
    <3> HIDE DEF c
    <3> QED BY <1>0, <1>k, <3>0, <3>1, <3>2, ControllersKeepType
  <2> QED BY <2>1, <2>2, MovesInOrder
<1>4. CASE TeardownBegins(t)
  <2> DEFINE v    == controllers[OfStore(t)].volumes
             next == IF v = Nothing THEN "cleared" ELSE "reset"
             c    == [calls[t] EXCEPT !.volume = v, !.stage = next]
  <2>1. calls[t].stage = "teardown" /\ OfStore(t) \in Store
        /\ calls[t].op = "shutdown"
    BY <1>0, <1>s, <1>4
       DEF TeardownBegins, At, InOrder, CallType, Spawned, Handling
  <2>2. v \in Volumes \cup {Nothing} /\ next \in {"cleared", "reset"}
    BY <1>0, <2>1 DEF StateType, LifecycleTypeOK
  <2>3. next \in Stages
    BY <2>2 DEF Stages, LifeStages
  <2>4. /\ c \in CallType /\ c.stage = next /\ c.volume = v /\ c.op = calls[t].op
        /\ c.caller = calls[t].caller /\ c.store = calls[t].store
        /\ c.epoch = calls[t].epoch
    BY <1>0, <2>2, <2>3 DEF CallType
  <2>5. calls' = [calls EXCEPT ![t] = c]
    BY <1>4 DEF TeardownBegins
  <2> HIDE DEF c
  <2>6. Moves(t) /\ calls'[t] = c
    BY <1>0, <2>4, <2>5 DEF Moves
  <2>7. InOrder(c)
    BY <1>0, <2>1, <2>2, <2>4 DEF InOrder, Spawned, Tearing, Handling
  <2>8. StateType'
    <3> DEFINE k == [controllers[OfStore(t)] EXCEPT !.up = FALSE, !.indexed = FALSE,
                                                    !.strategy = Nothing]
    <3>1. /\ k \in ControllerType /\ k.strategy = Nothing
          /\ k.volumes = controllers[OfStore(t)].volumes
      BY <1>k, <2>1 DEF ControllerType
    <3>2. /\ controllers' = [controllers EXCEPT ![OfStore(t)] = k]
          /\ UNCHANGED <<contents, clients, epoch, spmdVars>>
      BY <1>4 DEF TeardownBegins
    <3> HIDE DEF k
    <3> QED BY <1>0, <1>k, <2>1, <3>1, <3>2, ControllersKeepType
  <2> QED BY <2>6, <2>7, <2>8, MovesInOrder
<1>5. CASE ResetLands(t)
  <2>1. calls[t].stage = "reset" /\ calls[t].op = "shutdown"
    BY <1>0, <1>5 DEF ResetLands, At, InOrder, CallType, Spawned, Handling
  <2>2. GoesOn(t, "cleared")
    BY <1>0, <1>5, <1>p, GotoMoves DEF ResetLands
  <2>3. InOrder(calls'[t]) /\ Moves(t)
    BY <1>0, <1>p, <2>1, <2>2, GoesOnInOrder DEF GoesOn, Spawned, Tearing
  <2>4. StateType'
    BY <1>0, <1>5 DEF ResetLands, StateType, LifecycleTypeOK, spmdVars
  <2> QED BY <2>3, <2>4, MovesInOrder
<1>6. CASE ResetFails(t)
  <2>1. Moves(t) /\ InOrder(calls'[t])
    BY <1>6, EndsInOrder DEF ResetFails, At
  <2>2. StateType'
    <3>1. OfStore(t) \in Store /\ ResetsClient(t)
      BY <1>s, <1>6 DEF ResetFails, At
    <3>2. clients' \in [Process -> [Store -> Volumes \cup {Nothing}]]
      BY <1>0, <3>1, ForgetKeepsType
    <3> QED BY <1>0, <1>6, <3>2 DEF ResetFails, StateType, LifecycleTypeOK, spmdVars
  <2> QED BY <2>1, <2>2, MovesInOrder
<1>7. CASE TeardownEnds(t)
  <2>1. Moves(t) /\ InOrder(calls'[t])
    BY <1>7, EndsInOrder DEF TeardownEnds, At
  <2>2. StateType'
    <3> DEFINE c == [controllers[OfStore(t)] EXCEPT !.volumes = Nothing]
    <3>0. OfStore(t) \in Store /\ ResetsClient(t)
      BY <1>s, <1>7 DEF TeardownEnds, At
    <3>1. /\ c \in ControllerType /\ c.strategy = controllers[OfStore(t)].strategy
          /\ c.volumes = Nothing
      BY <1>k, <3>0 DEF ControllerType
    <3>2. /\ controllers' = [controllers EXCEPT ![OfStore(t)] = c]
          /\ UNCHANGED <<contents, epoch, spmdVars>>
      BY <1>7 DEF TeardownEnds
    <3> HIDE DEF c
    <3>3. clients' \in [Process -> [Store -> Volumes \cup {Nothing}]]
      BY <1>0, <3>0, ForgetKeepsType
    <3> QED BY <1>0, <1>k, <3>0, <3>1, <3>2, <3>3, ControllersKeepType
  <2> QED BY <2>1, <2>2, MovesInOrder
<1>8. CASE AskStrategy(t)
  <2> DEFINE k == controllers[OfStore(t)].strategy
             n == epoch[OfStore(t)]
             c == [calls[t] EXCEPT !.volume = k, !.epoch = n, !.stage = "install"]
  <2>1. /\ calls[t].stage = "ask" /\ OfStore(t) \in Store
        /\ calls[t].op \in {"put", "get"}
    BY <1>0, <1>s, <1>8
       DEF AskStrategy, At, InOrder, CallType, Spawned, Tearing
  <2>2. n \in Nat
    BY <1>0, <2>1 DEF StateType, LifecycleTypeOK
  <2>3. k \in Volumes \cup {Nothing}
    BY <1>0, <2>1 DEF StateType, LifecycleTypeOK
  <2>4. /\ c \in CallType /\ c.stage = "install" /\ c.op = calls[t].op
        /\ c.caller = calls[t].caller /\ c.store = calls[t].store
    BY <1>0, <1>p, <2>2, <2>3 DEF CallType
  <2>5. calls' = [calls EXCEPT ![t] = c]
    BY <1>8 DEF AskStrategy
  <2> HIDE DEF c
  <2>6. Moves(t) /\ calls'[t] = c
    BY <1>0, <2>4, <2>5 DEF Moves
  <2>7. InOrder(c)
    BY <1>0, <2>1, <2>4 DEF InOrder, Spawned, Tearing, Handling
  <2> QED BY <1>8, <2>6, <2>7, CallsOnly DEF AskStrategy
<1>9. CASE InstallClient(t)
  <2>1. calls[t].stage = "install" /\ calls[t].op \in {"put", "get"}
    BY <1>0, <1>9 DEF InstallClient, At, InOrder, CallType, Spawned, Tearing
  <2>2. GoesOn(t, "go")
    BY <1>0, <1>9, <1>p, GotoMoves DEF InstallClient
  <2>3. InOrder(calls'[t]) /\ Moves(t)
    BY <1>0, <1>p, <2>1, <2>2, GoesOnInOrder DEF GoesOn, Spawned, Tearing
  <2>4. StateType'
    <3>1. /\ OfStore(t) \in Store /\ Of[t] \in Process
          /\ calls[t].volume \in Volumes \cup {Nothing}
      BY <1>0, <1>s, <2>1 DEF CallType
    <3>3. clients' = [clients EXCEPT ![Of[t]][OfStore(t)] = calls[t].volume]
      BY <1>9 DEF InstallClient
    <3>4. clients' \in [Process -> [Store -> Volumes \cup {Nothing}]]
      BY <1>0, <3>1, <3>3, ClientsKeepType
    <3> QED BY <1>0, <1>9, <3>4 DEF InstallClient, StateType, LifecycleTypeOK,
                                    spmdVars
  <2> QED BY <2>3, <2>4, MovesInOrder
<1>10. CASE PutLands(t)
  <2>1. /\ calls[t].stage = "go" /\ calls[t].op = "put" /\ OfStore(t) \in Store
    BY <1>s, <1>10 DEF PutLands, At
  <2>2. GoesOn(t, "notify")
    BY <1>0, <1>10, <1>p, GotoMoves DEF PutLands
  <2>3. InOrder(calls'[t]) /\ Moves(t)
    BY <1>0, <1>p, <2>1, <2>2, GoesOnInOrder DEF GoesOn, Spawned, Tearing
  <2>4. <<OfStore(t), calls[t].epoch>> \in Value
    BY <1>0, <2>1 DEF Value, CallType
  <2>5. StateType'
    BY <1>0, <1>10, <2>4 DEF PutLands, StateType, LifecycleTypeOK, spmdVars
  <2> QED BY <2>3, <2>5, MovesInOrder
<1>11. CASE Notify(t)
  <2>1. OfStore(t) \in Store /\ calls[t].stage # "idle"
    BY <1>s, <1>11 DEF Notify, At
  <2>2. Moves(t) /\ InOrder(calls'[t])
    BY <1>11, <2>1, EndsInOrder DEF Notify
  <2>3. (controllers[OfStore(t)].indexed \/ controllers[OfStore(t)].up) \in BOOLEAN
    OBVIOUS
  <2>4. StateType'
    <3> DEFINE k == controllers[OfStore(t)]
               c == [k EXCEPT !.indexed = k.indexed \/ k.up]
    <3>1. c \in ControllerType /\ c.strategy = k.strategy /\ c.volumes = k.volumes
      BY <1>k, <2>1, <2>3 DEF ControllerType
    <3>2. /\ controllers' = [controllers EXCEPT ![OfStore(t)] = c]
          /\ UNCHANGED <<contents, clients, epoch, spmdVars>>
      BY <1>11 DEF Notify
    <3> HIDE DEF c
    <3> QED BY <1>0, <1>k, <2>1, <3>1, <3>2, ControllersKeepType
  <2> QED BY <2>2, <2>4, MovesInOrder
<1>12. CASE Locate(t)
  <2>1. CASE Located(t)
    <3>1. GoesOn(t, "get")
      BY <1>0, <1>12, <1>p, <2>1, GotoMoves DEF Locate
    <3>2. calls[t].stage = "go" /\ calls[t].op = "get"
      BY <1>12 DEF Locate, At
    <3>3. InOrder(calls'[t]) /\ Moves(t)
      BY <1>0, <1>p, <3>1, <3>2, GoesOnInOrder DEF GoesOn, Spawned, Tearing
    <3> QED BY <1>12, <3>3, CallsOnly DEF Locate
  <2>2. CASE ~Located(t)
    BY <1>1, <1>12, <2>2 DEF Locate, At
  <2> QED BY <2>1, <2>2
<1>13. CASE \/ InitRefused(t) \/ InitFails(t) \/ AskRefused(t) \/ PutFails(t)
            \/ GetLands(t)
  BY <1>1, <1>13 DEF InitRefused, InitFails, AskRefused, PutFails, GetLands, At
<1> QED BY <1>2, <1>3, <1>4, <1>5, <1>6, <1>7, <1>8, <1>9, <1>10, <1>11, <1>12,
           <1>13 DEF LifeStep

-----------------------------------------------------------------------------
(* And so do those of the session *)

(* So is a task whose call is over.                                        *)
LEMMA FinishedInOrder ==
  ASSUME LifeInv, NEW t \in Task, Finished(t)
  PROVE  Moves(t) /\ InOrder(calls'[t])
  BY FinishedMoves, IdleInOrder DEF LifeInv

(* The steps that leave the stores as they are, and forget a client at most. *)
LEMMA SessionKeepsType ==
  ASSUME LifeInv, NEW t \in Task, Moves(t), InOrder(calls'[t]),
         UNCHANGED <<controllers, contents, epoch>>,
         clients' = clients \/ \E p \in Process, s \in Store : Forget(p, s),
         started' = started, sessions' \subseteq started,
         rendezvous' \in Rendezvous,
         {job', mesh'} \subseteq {"none", "alive", "failed", "gone"}
  PROVE  LifeInv'
<1>1. StateType
  BY TypeInParts
<1>2. clients' \in [Process -> [Store -> Volumes \cup {Nothing}]]
  <2>1. CASE clients' = clients
    BY <1>1, <2>1 DEF StateType, LifecycleTypeOK
  <2>2. ASSUME NEW p \in Process, NEW s \in Store, Forget(p, s)
        PROVE  clients' \in [Process -> [Store -> Volumes \cup {Nothing}]]
    BY <1>1, <2>2, ClientsKeepType DEF Forget
  <2> QED BY <2>1, <2>2
<1>3. StateType'
  BY <1>1, <1>2 DEF StateType, LifecycleTypeOK
<1> QED BY <1>3, MovesInOrder

SessionStep(t) ==
  \/ Unreached(t)
  \/ Join(t) \/ StartJob(t) \/ JoinTimesOut(t) \/ Attach(t) \/ AttachFails(t)
  \/ Broadcast(t) \/ BroadcastFails(t)
  \/ ReceiveController(t) \/ ControllerTimesOut(t)
  \/ SetStatus(t) \/ KillJob(t) \/ StopMesh(t)
  \/ ReadStatus(t) \/ StatusTimesOut(t)

(* Every step of the session keeps types and order.                        *)
LEMMA SessionStepKeepsType ==
  ASSUME LifeInv, Registered, NEW t \in Task, SessionStep(t)
  PROVE  LifeInv'
<1>0. /\ calls \in [Task -> CallType] /\ InOrder(calls[t]) /\ StateType
      /\ calls[t] \in CallType
  BY TypeInParts DEF LifeInv
<1>t. /\ started \subseteq Rank /\ sessions \subseteq started
      /\ rendezvous \in Rendezvous
      /\ job \in {"none", "alive", "failed", "gone"}
      /\ mesh \in {"none", "alive", "failed", "gone"}
  BY <1>0 DEF StateType
<1>r. \A x \in BOOLEAN, R \in SUBSET Rank, y \in {"none", "ok", "error"} :
        /\ [rendezvous EXCEPT !.server = x] \in Rendezvous
        /\ [rendezvous EXCEPT !.joined = R] \in Rendezvous
        /\ [rendezvous EXCEPT !.controller = x] \in Rendezvous
        /\ [rendezvous EXCEPT !.shutdown = y] \in Rendezvous
  BY <1>t DEF Rendezvous
<1>f. ASSUME Finished(t), UNCHANGED <<controllers, contents, clients, epoch, spmdVars>>
      PROVE  LifeInv'
  BY <1>f, FinishedInOrder, CallsOnly
<1>p. {"attach", "controller", "kill", "mesh", "raised", "join"} \subseteq Stages
      /\ "idle" \notin {"attach", "controller", "kill", "mesh", "raised", "join"}
  BY DEF Stages, LifeStages
(* Stages of a session, and the call that is at them. *)
<1>o. /\ calls[t].stage \in {"join", "attach", "controller"}
           => calls[t].op = "initialize" /\ calls[t].caller = "spmd"
      /\ calls[t].stage \in {"kill", "status"}
           => calls[t].op = "shutdown" /\ calls[t].caller = "spmd"
      /\ calls[t].stage = "mesh"
           => calls[t].op \in {"initialize", "shutdown"} /\ calls[t].caller = "spmd"
  BY <1>0 DEF InOrder, CallType, Handling, Spawned, Tearing
<1>g. ASSUME NEW stage \in {"attach", "controller", "kill", "mesh", "raised"},
             Goto(t, stage), calls[t].caller = "spmd",
             calls[t].stage # "idle",
             stage \in {"attach", "controller"} => calls[t].op = "initialize",
             stage = "kill" => calls[t].op = "shutdown",
             calls[t].op \in {"initialize", "shutdown"}
      PROVE  Moves(t) /\ InOrder(calls'[t])
  <2>1. GoesOn(t, stage)
    BY <1>0, <1>g, <1>p, GotoMoves
  <2> QED BY <1>0, <1>g, <1>p, <2>1, GoesOnInOrder DEF GoesOn, Spawned, Tearing
<1>1. CASE Unreached(t) \/ ControllerTimesOut(t)
  BY <1>1, <1>f DEF Unreached, ControllerTimesOut
<1>2. CASE Join(t)
  <2>1. Of[t] \in Rank
    BY <1>o, <1>t, <1>2 DEF Join, At, Registered
  <2>2. rendezvous' \in Rendezvous
    BY <1>2, <1>t, <2>1 DEF Join, Rendezvous
  <2>3. UNCHANGED <<controllers, contents, clients, epoch, started, sessions, job, mesh>>
    BY <1>2 DEF Join
  <2>4. Moves(t) /\ InOrder(calls'[t])
    <3>1. CASE Primarily(t)
      BY <1>0, <1>2, <3>1 DEF Join, Moves
    <3>2. CASE ~Primarily(t)
      BY <1>2, <1>g, <1>o, <3>2 DEF Join, At
    <3> QED BY <3>1, <3>2
  <2> QED BY <1>t, <2>2, <2>3, <2>4, SessionKeepsType
<1>3. CASE StartJob(t)
  <2>1. Moves(t) /\ InOrder(calls'[t])
    BY <1>3, <1>g, <1>o DEF StartJob, At
  <2> QED BY <1>3, <1>t, <2>1, SessionKeepsType DEF StartJob
<1>4. CASE JoinTimesOut(t)
  <2>1. Moves(t) /\ InOrder(calls'[t])
    BY <1>4, FinishedInOrder DEF JoinTimesOut
  <2>2. rendezvous' \in Rendezvous
    BY <1>4, <1>t DEF JoinTimesOut, Rendezvous
  <2> QED BY <1>4, <1>t, <2>1, <2>2, SessionKeepsType DEF JoinTimesOut
<1>5. CASE Attach(t)
  <2>1. Spawn(t, Collective, "spmd")
    BY <1>5 DEF Attach
  <2>2. Moves(t) /\ InOrder(calls'[t]) /\ UNCHANGED <<controllers, contents, clients, epoch>>
    BY <2>1, SpawnInOrder
  <2> QED BY <1>5, <1>t, <2>2, SessionKeepsType DEF Attach
<1>6. CASE AttachFails(t)
  BY <1>6, EndsInOrder, CallsOnly DEF AttachFails, At
<1>7. CASE Broadcast(t)
  <2>1. Moves(t) /\ InOrder(calls'[t])
    BY <1>7, FinishedInOrder DEF Broadcast
  <2>2. Of[t] \in started
    BY <1>7 DEF Broadcast, InSpmd, Registered
  <2> QED BY <1>7, <1>r, <1>t, <2>1, <2>2, SessionKeepsType DEF Broadcast
<1>8. CASE BroadcastFails(t)
  <2>1. Moves(t) /\ InOrder(calls'[t])
    BY <1>8, <1>g DEF BroadcastFails, InSpmd, At
  <2> QED BY <1>8, <2>1, CallsOnly DEF BroadcastFails
<1>9. CASE ReceiveController(t)
  <2>1. Moves(t) /\ InOrder(calls'[t])
    BY <1>9, FinishedInOrder DEF ReceiveController
  <2>2. Of[t] \in started
    BY <1>o, <1>9 DEF ReceiveController, At, Registered
  <2> QED BY <1>9, <1>t, <2>1, <2>2, SessionKeepsType DEF ReceiveController
<1>10. CASE SetStatus(t)
  <2>1. Moves(t) /\ InOrder(calls'[t])
    BY <1>10, <1>g DEF SetStatus, InSpmd, At
  <2>2. rendezvous' \in Rendezvous
    BY <1>10, <1>r, <1>t DEF SetStatus
  <2>3. Forget(Primary, Collective) /\ Primary \in Process /\ Collective \in Store
    BY <1>10 DEF SetStatus
  <2> QED BY <1>10, <1>t, <2>1, <2>2, <2>3, SessionKeepsType DEF SetStatus
<1>11. CASE KillJob(t)
  <2>1. Moves(t) /\ InOrder(calls'[t])
    BY <1>11, <1>g, <1>o DEF KillJob, Killing, InSpmd, At
  <2>2. job' \in {"none", "alive", "failed", "gone"}
    BY <1>11 DEF KillJob, AfterKill
  <2> QED BY <1>11, <1>t, <2>1, <2>2, SessionKeepsType DEF KillJob
<1>12. CASE StopMesh(t)
  <2>1. Moves(t) /\ InOrder(calls'[t])
    BY <1>12, FinishedInOrder DEF StopMesh
  <2>2. mesh' \in {"none", "alive", "failed", "gone"}
    BY <1>12 DEF StopMesh, AfterStop
  <2>3. StateType'
    BY <1>0, <1>12, <2>2 DEF StopMesh, StateType, LifecycleTypeOK
  <2> QED BY <2>1, <2>3, MovesInOrder
<1>13. CASE ReadStatus(t) \/ StatusTimesOut(t)
  <2>1. Moves(t) /\ InOrder(calls'[t])
    BY <1>13, FinishedInOrder DEF ReadStatus, StatusTimesOut
  <2>2. Forget(Of[t], Collective) /\ Of[t] \in Process /\ Collective \in Store
    BY <1>13 DEF ReadStatus, StatusTimesOut
  <2> QED BY <1>13, <1>t, <2>1, <2>2, SessionKeepsType
          DEF ReadStatus, StatusTimesOut, spmdVars
<1> QED BY <1>1, <1>2, <1>3, <1>4, <1>5, <1>6, <1>7, <1>8, <1>9, <1>10, <1>11, <1>12,
           <1>13 DEF SessionStep

(* So does the start of a call.                                            *)
LEMMA StartsKeepType ==
  ASSUME LifeInv, NEW t \in Task, Starts(t)
  PROVE  LifeInv'
<1>0. /\ calls \in [Task -> CallType] /\ StateType
      /\ started \subseteq Rank /\ sessions \subseteq started
      /\ rendezvous \in Rendezvous
  BY TypeInParts DEF StateType
<1>p. {"init", "teardown", "ask", "go", "join", "status"} \subseteq Stages
      /\ "idle" \notin {"init", "teardown", "ask", "go", "join", "status"}
  BY DEF Stages, LifeStages
<1>1. ASSUME Moves(t), InOrder(calls'[t]), UsesContext(t),
             UNCHANGED <<controllers, contents, clients, epoch>>
      PROVE  LifeInv'
  <2>1. StateType'
    BY <1>0, <1>1 DEF UsesContext, StateType, LifecycleTypeOK
  <2> QED BY <1>1, <2>1, MovesInOrder
<1>2. ASSUME NEW s \in Store, Initialize(t, s), UsesContext(t) PROVE LifeInv'
  <2>1. Moves(t) /\ InOrder(calls'[t])
        /\ UNCHANGED <<controllers, contents, clients, epoch>>
    BY <1>2, SpawnInOrder DEF Initialize
  <2> QED BY <1>1, <1>2, <2>1
<1>3. ASSUME NEW s \in Store, PlainShutdown(t, s), UsesContext(t) PROVE LifeInv'
  <2>1. /\ Begin(t, "shutdown", "api", s, Nothing, epoch[s], "teardown")
        /\ UNCHANGED <<controllers, contents, clients, epoch>>
    BY <1>3 DEF PlainShutdown, Shutdown
  <2>2. epoch[s] \in Nat
    BY <1>0 DEF StateType, LifecycleTypeOK
  <2>3. Moves(t) /\ InOrder(calls'[t])
    BY <1>p, <2>1, <2>2, BegunInOrder
  <2> QED BY <1>1, <1>3, <2>1, <2>3
<1>4. ASSUME NEW s \in Store, NEW op \in {"put", "get"}, Call(t, s, op), UsesContext(t)
      PROVE  LifeInv'
  <2> DEFINE v     == clients[Of[t]][s]
             stage == IF v = Nothing THEN "ask" ELSE "go"
  <2>1. /\ Begin(t, op, "api", s, v, epoch[s], stage)
        /\ UNCHANGED <<controllers, contents, clients, epoch>>
    BY <1>4 DEF Call
  <2>2. epoch[s] \in Nat
    BY <1>0 DEF StateType, LifecycleTypeOK
  <2>3. v \in Volumes \cup {Nothing}
    BY <1>0 DEF StateType, LifecycleTypeOK
  <2>4. stage \in {"ask", "go"} /\ stage \in Stages
    BY <1>p
  <2> HIDE DEF v, stage
  <2>5. Moves(t) /\ InOrder(calls'[t])
    BY <1>p, <2>1, <2>2, <2>3, <2>4, BegunInOrder
  <2> QED BY <1>1, <1>4, <2>1, <2>5
<1>5. CASE SpmdInitialize(t)
  <2>1. /\ Begin(t, "initialize", "spmd", Collective, Nothing, 0, "join")
        /\ UNCHANGED <<controllers, contents, clients, epoch, sessions, job, mesh>>
        /\ started' = started \cup {Of[t]} /\ Of[t] \in Rank
        /\ rendezvous' = [rendezvous EXCEPT !.server = @ \/ Primarily(t)]
    BY <1>5 DEF SpmdInitialize
  <2>2. Moves(t) /\ InOrder(calls'[t])
    BY <1>p, <2>1, BegunInOrder
  <2>3. rendezvous' \in Rendezvous
    BY <1>0, <2>1 DEF Rendezvous
  <2>4. StateType'
    BY <1>0, <2>1, <2>3 DEF StateType, LifecycleTypeOK
  <2> QED BY <2>2, <2>4, MovesInOrder
<1>6. CASE SpmdShutdown(t)
  <2> DEFINE stage == IF Primarily(t) THEN "teardown" ELSE "status"
  <2>1. /\ Begin(t, "shutdown", "spmd", Collective, Nothing, 1, stage)
        /\ UNCHANGED <<controllers, contents, clients, epoch, started, rendezvous, job, mesh>>
        /\ sessions' = sessions \ {Of[t]}
    BY <1>6 DEF SpmdShutdown
  <2>2. stage \in {"teardown", "status"} /\ stage \in Stages
    BY <1>p
  <2> HIDE DEF stage
  <2>3. Moves(t) /\ InOrder(calls'[t])
    BY <1>p, <2>1, <2>2, BegunInOrder
  <2>4. StateType'
    BY <1>0, <2>1 DEF StateType, LifecycleTypeOK
  <2> QED BY <2>3, <2>4, MovesInOrder
<1> QED BY <1>2, <1>3, <1>4, <1>5, <1>6 DEF Starts

(* A step is one of a task, a reset of clients, or an exit.                *)
LEMMA NextInParts ==
  Next => \/ \E t \in Task : \/ Starts(t)
                             \/ LifeStep(t) /\ UNCHANGED spmdVars
                                /\ (At(t, "ask") => Reaches(t))
                             \/ SessionStep(t)
          \/ Resets \/ Exit
  BY DEF Next, Step, SessionStep

(* Types and order are inductive.                                          *)
LEMMA LifeInvStep == LifeInv /\ Registered /\ [Next]_vars => LifeInv'
<1> SUFFICES ASSUME LifeInv, Registered, [Next]_vars PROVE LifeInv'
  OBVIOUS
<1>0. StateType /\ calls \in [Task -> CallType] /\ \A t \in Task : InOrder(calls[t])
  BY TypeInParts
<1>1. CASE UNCHANGED vars
  <2>1. StateType'
    BY <1>0, <1>1 DEF vars, lifeVars, spmdVars, StateType, LifecycleTypeOK
  <2>2. calls' = calls
    BY <1>1 DEF vars, lifeVars
  <2> QED BY <1>0, <2>1, <2>2
          DEF LifeInv, TypeOK, StateType, CallType, Stages
<1>2. CASE Resets
  <2>1. PICK p \in Process, s \in Store : ResetClient(p, s) /\ UNCHANGED spmdVars
    BY <1>2 DEF Resets
  <2>2. clients' \in [Process -> [Store -> Volumes \cup {Nothing}]]
    BY <1>0, <2>1, ClientsKeepType DEF ResetClient, Forget
  <2>3. StateType' /\ calls' = calls
    BY <1>0, <2>1, <2>2 DEF ResetClient, StateType, LifecycleTypeOK, spmdVars
  <2> QED BY <1>0, <2>3 DEF LifeInv, TypeOK, StateType, CallType, Stages
<1>3. CASE Exit
  <2>1. rendezvous' \in Rendezvous /\ UNCHANGED <<lifeVars, started, sessions, job, mesh>>
    BY <1>0, <1>3 DEF Exit, StateType, Rendezvous
  <2>2. StateType' /\ calls' = calls
    BY <1>0, <2>1 DEF lifeVars, StateType, LifecycleTypeOK
  <2> QED BY <1>0, <2>2 DEF LifeInv, TypeOK, StateType, CallType, Stages
<1> QED BY <1>1, <1>2, <1>3, NextInParts, StartsKeepType, StoresKeepType,
           SessionStepKeepsType

-----------------------------------------------------------------------------
(* Steps that are not about the session *)

(* A call that neither makes nor ends the store of the session. *)
Apart(c) ==
  /\ c.caller = "api"
  /\ c.store = Collective => c.op \notin {"initialize", "shutdown"}

SameSession ==
  /\ started \subseteq started' /\ UNCHANGED <<rendezvous, sessions, job, mesh>>
  /\ epoch'[Collective] = epoch[Collective]
  /\ \/ controllers'[Collective] = controllers[Collective]
     \/ controllers[Collective].up /\ controllers'[Collective].up
  /\ \A u \in Task : \/ calls'[u] = calls[u]
                     \/ Apart(calls[u]) /\ Apart(calls'[u])

(* What leaves the session's variables and calls alone keeps its invariant. *)
LEMMA SameSessionKept ==
  ASSUME SessionInv, LifeInv', SameSession
  PROVE  SessionInv'
<1> USE DEF SessionInv
<1>0. \A u \in Task : InOrder(calls[u]) /\ InOrder(calls'[u])
  BY DEF LifeInv
<1>1. \A u \in Task :
        /\ Starting(u)' <=> Starting(u)
        /\ calls'[u].caller = "spmd" => calls'[u] = calls[u]
        /\ calls'[u].op \in {"initialize", "shutdown"} /\ calls'[u].store = Collective
             => calls'[u] = calls[u]
        /\ calls[u].caller = "spmd" => calls'[u] = calls[u]
  BY DEF SameSession, Apart, Starting
<1>2. Registered'
  BY <1>1 DEF SameSession, Registered
<1>3. PeersOnlyWait'
  BY <1>1 DEF PeersOnlyWait
<1>4. \A u \in Task :
        /\ calls'[u].stage \in Tearing /\ calls'[u].store = Collective
             => calls'[u] = calls[u]
        /\ calls'[u].stage \in {"returned", "raised"} => calls'[u] = calls[u]
  <2>1. \A u \in Task :
          /\ calls'[u].stage \in Tearing => calls'[u].op = "shutdown"
          /\ calls'[u].stage \in {"returned", "raised"} => calls'[u].caller = "spmd"
    BY <1>0 DEF InOrder, Tearing, Spawned, Handling, LifeInv, CallType
  <2> QED BY <1>1, <2>1
<1>5. StartsOnce'
  BY <1>1, <1>4 DEF StartsOnce, SameSession, Starting
<1>6. ClearedForGood'
  <2>1. Unborn.up = FALSE
    BY DEF Unborn
  <2>2. CASE controllers'[Collective] = controllers[Collective]
    BY <1>1, <1>4, <2>2
       DEF ClearedForGood, SameSession, IsCleared, StatusIsTrue, Tearing
  <2>3. CASE controllers[Collective].up /\ controllers'[Collective].up
    <3>1. /\ \A u \in Task :
               /\ calls[u].stage \in {"reset", "cleared"}
                    => calls[u].store # Collective
               /\ ~(calls[u].stage = "returned" /\ calls[u].op = "shutdown")
          /\ rendezvous.shutdown # "ok"
      BY <2>1, <2>3 DEF ClearedForGood, IsCleared, StatusIsTrue
    <3> QED BY <1>1, <1>4, <2>3, <3>1
            DEF ClearedForGood, SameSession, StatusIsTrue, Tearing
  <2> QED BY <2>2, <2>3 DEF SameSession
<1>7. WillBeCleaned'
  BY <1>1 DEF WillBeCleaned, SameSession, Cleans
<1> QED BY <1>2, <1>3, <1>5, <1>6, <1>7

SameCall(t) ==
  /\ calls'[t].op = calls[t].op /\ calls'[t].caller = calls[t].caller
  /\ calls'[t].store = calls[t].store

(* A call of StoreLifecycle goes on, or ends and leaves the task idle. *)
LEMMA LifeStepMoves ==
  ASSUME LifeInv, NEW t \in Task, LifeStep(t)
  PROVE  /\ Moves(t) /\ calls[t].stage # "idle"
         /\ \/ SameCall(t)
            \/ calls[t].caller = "api" /\ IsIdle(calls'[t])
<1>0. calls \in [Task -> CallType] /\ calls[t] \in CallType
  BY DEF LifeInv
<1>k. calls[t].stage # "idle" => OfStore(t) \in Store
  BY DEF LifeInv, InOrder, OfStore
<1>p. {"get_id", "cleared", "reset", "go", "notify", "get", "install", "returned",
       "raised"} \subseteq Stages
  BY DEF Stages, LifeStages
<1>1. ASSUME NEW how \in {"returned", "raised"}, Ends(t, how), calls[t].stage # "idle"
      PROVE  /\ Moves(t) /\ calls[t].stage # "idle"
             /\ \/ SameCall(t)
                \/ calls[t].caller = "api" /\ IsIdle(calls'[t])
  BY <1>0, <1>1, <1>p, EndsMoves DEF GoesOn, SameCall
<1>2. ASSUME NEW stage \in Stages, Goto(t, stage), calls[t].stage # "idle"
      PROVE  Moves(t) /\ calls[t].stage # "idle" /\ SameCall(t)
  BY <1>0, <1>2, GotoMoves DEF GoesOn, SameCall
<1>3. CASE InitBegins(t) \/ ResetLands(t) \/ InstallClient(t) \/ PutLands(t)
  BY <1>2, <1>3, <1>p DEF InitBegins, ResetLands, InstallClient, PutLands, At
<1>4. CASE \/ InitRefused(t) \/ InitFails(t) \/ InitEnds(t)
           \/ ResetFails(t) \/ TeardownEnds(t) \/ AskRefused(t) \/ PutFails(t)
  BY <1>1, <1>4
     DEF InitRefused, InitFails, InitEnds, ResetFails, TeardownEnds, AskRefused,
         PutFails, At
<1>5. CASE GetLands(t) \/ Notify(t)
  BY <1>1, <1>5 DEF GetLands, Notify, At
<1>6. CASE Locate(t)
  BY <1>1, <1>2, <1>6, <1>p DEF Locate, At
<1>7. CASE TeardownBegins(t)
  <2> DEFINE v == controllers[OfStore(t)].volumes
             next == IF v = Nothing THEN "cleared" ELSE "reset"
             c    == [calls[t] EXCEPT !.volume = v, !.stage = next]
  <2>1. v \in Volumes \cup {Nothing} /\ next \in Stages
    BY <1>7, <1>k, <1>p DEF TeardownBegins, At, LifeInv, TypeOK, LifecycleTypeOK
  <2>2. /\ c \in CallType /\ c.op = calls[t].op
        /\ c.caller = calls[t].caller /\ c.store = calls[t].store
    BY <1>0, <2>1 DEF CallType
  <2>3. calls' = [calls EXCEPT ![t] = c] /\ calls[t].stage = "teardown"
    BY <1>7 DEF TeardownBegins, At
  <2> HIDE DEF c
  <2> QED BY <1>0, <2>2, <2>3 DEF Moves, SameCall
<1>8. CASE AskStrategy(t)
  <2> DEFINE k == controllers[OfStore(t)].strategy
             n == epoch[OfStore(t)]
             c == [calls[t] EXCEPT !.volume = k, !.epoch = n, !.stage = "install"]
  <2>1. k \in Volumes \cup {Nothing} /\ n \in Nat
    BY <1>8, <1>k DEF AskStrategy, At, LifeInv, TypeOK, LifecycleTypeOK
  <2>2. /\ c \in CallType /\ c.op = calls[t].op
        /\ c.caller = calls[t].caller /\ c.store = calls[t].store
    BY <1>0, <1>p, <2>1 DEF CallType
  <2>3. calls' = [calls EXCEPT ![t] = c] /\ calls[t].stage = "ask"
    BY <1>8 DEF AskStrategy, At
  <2> HIDE DEF c
  <2> QED BY <1>0, <2>2, <2>3 DEF Moves, SameCall
<1> QED BY <1>3, <1>4, <1>5, <1>6, <1>7, <1>8 DEF LifeStep

(* What it does to the controllers. *)
LEMMA LifeStepControls ==
  ASSUME LifeInv, NEW t \in Task, LifeStep(t), NEW s \in Store,
         calls[t].store = s => calls[t].op \notin {"initialize", "shutdown"}
  PROVE  /\ epoch'[s] = epoch[s]
         /\ \/ controllers'[s] = controllers[s]
            \/ controllers[s].up /\ controllers'[s].up
<1>0. /\ InOrder(calls[t]) /\ calls[t] \in CallType
      /\ controllers \in [Store -> ControllerType] /\ epoch \in [Store -> Nat]
  BY DEF LifeInv, TypeOK, LifecycleTypeOK, ControllerType
<1>1. calls[t].stage \in Spawned \cup Tearing =>
        OfStore(t) # s /\ OfStore(t) \in Store
  BY <1>0 DEF InOrder, CallType, Spawned, Tearing, Handling, OfStore
<1>2. CASE InitBegins(t)
  BY <1>0, <1>1, <1>2 DEF InitBegins, At, Spawned
<1>3. CASE InitEnds(t)
  BY <1>0, <1>1, <1>3 DEF InitEnds, At, Spawned
<1>4. CASE TeardownBegins(t)
  BY <1>0, <1>1, <1>4 DEF TeardownBegins, At, Tearing
<1>5. CASE TeardownEnds(t)
  BY <1>0, <1>1, <1>5 DEF TeardownEnds, At, Tearing
<1>6. CASE Notify(t)
  <2> DEFINE k == controllers[OfStore(t)]
             c == [k EXCEPT !.indexed = k.indexed \/ k.up]
  <2>1. controllers' = [controllers EXCEPT ![OfStore(t)] = c] /\ epoch' = epoch
    BY <1>6 DEF Notify
  <2>2. OfStore(t) = s => c.up = k.up
    BY <1>0 DEF ControllerType
  <2>3. OfStore(t) = s /\ ~k.up => c = k
    <3> SUFFICES ASSUME OfStore(t) = s, ~k.up PROVE c = k
      OBVIOUS
    <3>1. k \in ControllerType
      BY <1>0
    <3>2. (k.indexed \/ k.up) = k.indexed
      BY <3>1 DEF ControllerType
    <3>3. c = [k EXCEPT !.indexed = k.indexed]
      BY <3>2
    <3> HIDE DEF k, c
    <3> QED BY <3>1, <3>3 DEF ControllerType
  <2> HIDE DEF c
  <2> QED BY <1>0, <2>1, <2>2, <2>3
<1>7. CASE UNCHANGED <<controllers, epoch>>
  BY <1>7
<1> QED BY <1>2, <1>3, <1>4, <1>5, <1>6, <1>7
        DEF LifeStep, InitRefused, InitFails, ResetLands, ResetFails, AskStrategy,
            AskRefused, InstallClient, PutLands, PutFails, Locate, GetLands

(* The steps of the store that neither end nor clear anything of it.       *)
LEMMA OtherLifeSteps ==
  ASSUME SessionInv, NEW t \in Task, LifeStep(t), UNCHANGED spmdVars,
         Apart(calls[t])
  PROVE  SameSession
<1>1. LifeInv
  BY DEF SessionInv
<1>2. /\ Moves(t)
      /\ \/ SameCall(t)
         \/ calls[t].caller = "api" /\ IsIdle(calls'[t])
  BY <1>1, LifeStepMoves
<1>3. Apart(calls'[t])
  BY <1>2 DEF Apart, SameCall, IsIdle
<1>4. calls[t].store = Collective => calls[t].op \notin {"initialize", "shutdown"}
  BY DEF Apart
<1>5. /\ epoch'[Collective] = epoch[Collective]
      /\ \/ controllers'[Collective] = controllers[Collective]
         \/ controllers[Collective].up /\ controllers'[Collective].up
  BY <1>1, <1>4, LifeStepControls
<1> QED BY <1>2, <1>3, <1>5 DEF SameSession, Moves, spmdVars

(* The calls a task begins, with the task at rest before. *)
LEMMA StartsMove ==
  ASSUME LifeInv, NEW t \in Task, Starts(t)
  PROVE  /\ Moves(t) /\ calls[t].stage = "idle" /\ calls'[t].stage # "idle"
         /\ UNCHANGED <<controllers, contents, clients, epoch>>
         /\ \/ /\ \E s \in Store \ {Collective} :
                    /\ Initialize(t, s) /\ calls'[t].store = s
                    /\ calls'[t].stage = "init" /\ calls'[t].epoch = epoch[s] + 1
                    /\ epoch[s] < MaxInit[s]
               /\ calls'[t].op = "initialize" /\ calls'[t].caller = "api"
               /\ UsesContext(t)
            \/ /\ \E s \in Store : PlainShutdown(t, s) /\ calls'[t].store = s
               /\ calls'[t].op = "shutdown" /\ calls'[t].caller = "api"
               /\ calls'[t].stage = "teardown"
               /\ UsesContext(t)
            \/ /\ \E s \in Store :
                    /\ calls'[t].store = s
                    /\ LET v == clients[Of[t]][s]
                       IN  IF v = Nothing THEN calls'[t].stage = "ask"
                           ELSE /\ calls'[t].stage = "go"
                                /\ calls'[t].volume = v
                                /\ calls'[t].epoch = epoch[s]
               /\ calls'[t].op \in {"put", "get"} /\ calls'[t].caller = "api"
               /\ UsesContext(t)
            \/ /\ SpmdInitialize(t) /\ calls'[t].store = Collective
               /\ calls'[t].op = "initialize" /\ calls'[t].caller = "spmd"
               /\ calls'[t].stage = "join"
            \/ /\ SpmdShutdown(t) /\ calls'[t].store = Collective
               /\ calls'[t].op = "shutdown" /\ calls'[t].caller = "spmd"
               /\ calls'[t].stage = IF Primarily(t) THEN "teardown" ELSE "status"
<1>0. /\ calls \in [Task -> CallType] /\ Collective \in Store
      /\ \A s \in Store : epoch[s] \in Nat
      /\ \A p \in Process, s \in Store : clients[p][s] \in Volumes \cup {Nothing}
  BY DEF LifeInv, TypeOK, LifecycleTypeOK
<1>p. {"init", "teardown", "ask", "go", "join", "status"} \subseteq Stages
  BY DEF Stages, LifeStages
<1>1. ASSUME NEW s \in Store \ {Collective}, Initialize(t, s), UsesContext(t)
      PROVE  /\ Moves(t) /\ calls[t].stage = "idle"
             /\ UNCHANGED <<controllers, contents, clients, epoch>>
             /\ calls'[t].stage = "init" /\ calls'[t].op = "initialize"
             /\ calls'[t].caller = "api" /\ calls'[t].store = s
             /\ calls'[t].epoch = epoch[s] + 1 /\ epoch[s] < MaxInit[s]
  BY <1>1, SpawnInOrder DEF Initialize, At
<1>2. ASSUME NEW s \in Store, PlainShutdown(t, s), UsesContext(t)
      PROVE  /\ Moves(t) /\ calls[t].stage = "idle"
             /\ UNCHANGED <<controllers, contents, clients, epoch>>
             /\ calls'[t].stage = "teardown" /\ calls'[t].op = "shutdown"
             /\ calls'[t].caller = "api" /\ calls'[t].store = s
  <2>1. /\ Begin(t, "shutdown", "api", s, Nothing, epoch[s], "teardown")
        /\ calls[t].stage = "idle"
        /\ UNCHANGED <<controllers, contents, clients, epoch>>
    BY <1>2 DEF PlainShutdown, Shutdown, At
  <2>2. epoch[s] \in Nat
    BY <1>0
  <2>3. /\ Moves(t) /\ calls'[t].stage = "teardown" /\ calls'[t].op = "shutdown"
        /\ calls'[t].caller = "api" /\ calls'[t].store = s
    <3>1. [stage |-> "teardown", op |-> "shutdown", caller |-> "api", store |-> s,
           volume |-> Nothing, epoch |-> epoch[s]] \in CallType
      BY <1>p, <2>2 DEF CallType
    <3> QED BY <1>0, <2>1, <3>1, BeginMoves
  <2> QED BY <2>1, <2>3
<1>3. ASSUME NEW s \in Store, NEW op \in {"put", "get"}, Call(t, s, op), UsesContext(t)
      PROVE  /\ Moves(t) /\ calls[t].stage = "idle"
             /\ UNCHANGED <<controllers, contents, clients, epoch>>
             /\ calls'[t].op = op /\ calls'[t].caller = "api" /\ calls'[t].store = s
             /\ LET v == clients[Of[t]][s]
                IN  IF v = Nothing THEN calls'[t].stage = "ask"
                    ELSE /\ calls'[t].stage = "go" /\ calls'[t].volume = v
                         /\ calls'[t].epoch = epoch[s]
  <2> DEFINE v     == clients[Of[t]][s]
             stage == IF v = Nothing THEN "ask" ELSE "go"
  <2>1. /\ Begin(t, op, "api", s, v, epoch[s], stage)
        /\ calls[t].stage = "idle"
        /\ UNCHANGED <<controllers, contents, clients, epoch>>
    BY <1>3 DEF Call, At
  <2>2. v \in Volumes \cup {Nothing} /\ stage \in Stages /\ epoch[s] \in Nat
    BY <1>0, <1>p
  <2>3. stage = IF v = Nothing THEN "ask" ELSE "go"
    OBVIOUS
  <2> HIDE DEF stage, v
  <2>4. /\ Moves(t) /\ calls'[t].stage = stage /\ calls'[t].op = op
        /\ calls'[t].caller = "api" /\ calls'[t].store = s
        /\ calls'[t].volume = v /\ calls'[t].epoch = epoch[s]
    <3>1. [stage |-> stage, op |-> op, caller |-> "api", store |-> s,
           volume |-> v, epoch |-> epoch[s]] \in CallType
      BY <2>2 DEF CallType
    <3> QED BY <1>0, <2>1, <3>1, BeginMoves
  <2> QED BY <2>1, <2>3, <2>4 DEF v
<1>4. ASSUME SpmdInitialize(t)
      PROVE  /\ Moves(t) /\ calls[t].stage = "idle"
             /\ UNCHANGED <<controllers, contents, clients, epoch>>
             /\ calls'[t].stage = "join" /\ calls'[t].op = "initialize"
             /\ calls'[t].caller = "spmd" /\ calls'[t].store = Collective
  <2>1. /\ Begin(t, "initialize", "spmd", Collective, Nothing, 0, "join")
        /\ calls[t].stage = "idle"
        /\ UNCHANGED <<controllers, contents, clients, epoch>>
    BY <1>4 DEF SpmdInitialize, At
  <2>2. [stage |-> "join", op |-> "initialize", caller |-> "spmd",
         store |-> Collective, volume |-> Nothing, epoch |-> 0] \in CallType
    BY <1>p DEF CallType
  <2> QED BY <1>0, <2>1, <2>2, BeginMoves
<1>5. ASSUME SpmdShutdown(t)
      PROVE  /\ Moves(t) /\ calls[t].stage = "idle"
             /\ UNCHANGED <<controllers, contents, clients, epoch>>
             /\ calls'[t].stage = (IF Primarily(t) THEN "teardown" ELSE "status")
             /\ calls'[t].op = "shutdown"
             /\ calls'[t].caller = "spmd" /\ calls'[t].store = Collective
  <2> DEFINE stage == IF Primarily(t) THEN "teardown" ELSE "status"
  <2>1. /\ Begin(t, "shutdown", "spmd", Collective, Nothing, 1, stage)
        /\ calls[t].stage = "idle"
        /\ UNCHANGED <<controllers, contents, clients, epoch>>
    BY <1>5 DEF SpmdShutdown, At
  <2>2. stage \in Stages
    BY <1>p
  <2>3. stage = IF Primarily(t) THEN "teardown" ELSE "status"
    OBVIOUS
  <2> HIDE DEF stage
  <2>4. /\ Moves(t) /\ calls'[t].stage = stage /\ calls'[t].op = "shutdown"
        /\ calls'[t].caller = "spmd" /\ calls'[t].store = Collective
    <3>1. [stage |-> stage, op |-> "shutdown", caller |-> "spmd",
           store |-> Collective, volume |-> Nothing, epoch |-> 1] \in CallType
      BY <2>2 DEF CallType
    <3> QED BY <1>0, <2>1, <3>1, BeginMoves
  <2> QED BY <2>1, <2>3, <2>4
<1> QED BY <1>1, <1>2, <1>3, <1>4, <1>5 DEF Starts

(* A task at rest has no call, of the session or other.                    *)
LEMMA AtRest ==
  ASSUME LifeInv, NEW t \in Task, calls[t].stage = "idle"
  PROVE  calls[t].op = "none" /\ calls[t].caller = "api" /\ Apart(calls[t])
<1>1. InOrder(calls[t]) /\ calls[t] \in CallType
  BY DEF LifeInv
<1>2. calls[t].op = "none"
  BY <1>1 DEF InOrder, CallType, Spawned, Tearing, Handling
<1>3. calls[t].caller = "api"
  BY <1>1, <1>2 DEF InOrder, CallType
<1> QED BY <1>2, <1>3 DEF Apart

(* To start a call keeps the invariant of the session.                     *)
LEMMA StartsKeepSession ==
  ASSUME SessionInv, LifeInv', NEW t \in Task, Starts(t)
  PROVE  SessionInv'
<1> USE DEF SessionInv
<1>0. /\ Moves(t) /\ calls[t].stage = "idle" /\ calls'[t].stage # "idle"
      /\ UNCHANGED <<controllers, contents, clients, epoch>>
  BY StartsMove
<1>r. calls[t].op = "none" /\ calls[t].caller = "api" /\ Apart(calls[t])
  BY <1>0, AtRest
<1>i. \A u \in Task : InOrder(calls[u]) /\ calls[u] \in CallType
  BY DEF LifeInv
<1>s. ASSUME Apart(calls'[t]), UsesContext(t) PROVE SessionInv'
  <2>1. SameSession
    BY <1>0, <1>r, <1>s DEF SameSession, Moves, UsesContext
  <2> QED BY <2>1, SameSessionKept
<1>1. CASE /\ calls'[t].op \in {"put", "get"} /\ calls'[t].caller = "api"
           /\ UsesContext(t)
  BY <1>1, <1>s DEF Apart
<1>2. CASE /\ \E s \in Store \ {Collective} : calls'[t].store = s
           /\ calls'[t].caller = "api" /\ UsesContext(t)
  BY <1>2, <1>s DEF Apart
<1>3. ASSUME NEW s \in Store, PlainShutdown(t, s), calls'[t].store = s,
             calls'[t].op = "shutdown", calls'[t].caller = "api",
             calls'[t].stage = "teardown", UsesContext(t)
      PROVE  SessionInv'
  <2>1. CASE s # Collective
    BY <1>3, <1>s, <2>1 DEF Apart
  <2>2. CASE s = Collective
    <3>1. /\ Of[t] = Primary /\ Primary \notin sessions /\ epoch[Collective] > 0
          /\ \A u \in Task : calls[u].op = "initialize"
                               => calls[u].store # Collective
      BY <1>3, <2>2 DEF PlainShutdown, Shutdown, Settled, Primarily, OfStore
    <3>2. \A u \in Task : ~Starting(u)
      BY <1>i, <3>1 DEF Starting, InOrder
    <3>3. /\ started \subseteq started' /\ UNCHANGED <<rendezvous, sessions, job, mesh>>
      BY <1>3 DEF UsesContext
    <3>4. \A u \in Task : Starting(u)' <=> Starting(u)
      BY <1>0, <1>3, <1>r DEF Moves, Starting
    <3>5. Registered' /\ PeersOnlyWait'
      BY <1>0, <1>3, <3>3 DEF Registered, PeersOnlyWait, Moves
    <3>6. StartsOnce'
      BY <1>0, <1>3, <2>2, <3>1, <3>2, <3>3, <3>4
         DEF StartsOnce, Moves, Starting, Tearing
    <3>7. ClearedForGood'
      BY <1>0, <1>3, <3>3 DEF ClearedForGood, Moves, IsCleared, StatusIsTrue
    <3>8. WillBeCleaned'
      BY <1>0, <1>3, <1>r, <3>3 DEF WillBeCleaned, Cleans, Moves
    <3> QED BY <3>5, <3>6, <3>7, <3>8
  <2> QED BY <2>1, <2>2
<1>4. CASE /\ SpmdInitialize(t) /\ calls'[t].store = Collective
           /\ calls'[t].op = "initialize" /\ calls'[t].caller = "spmd"
           /\ calls'[t].stage = "join"
  <2>1. /\ Of[t] \in Rank /\ Of[t] \notin started
        /\ started' = started \cup {Of[t]}
        /\ UNCHANGED <<sessions, job, mesh>>
        /\ rendezvous' = [rendezvous EXCEPT !.server = @ \/ Primarily(t)]
    BY <1>4 DEF SpmdInitialize
  <2>2. rendezvous'.controller = rendezvous.controller
        /\ rendezvous'.shutdown = rendezvous.shutdown
    BY <2>1 DEF LifeInv, TypeOK, Rendezvous
  <2>3. Registered' /\ PeersOnlyWait'
    BY <1>0, <1>4, <2>1 DEF Registered, PeersOnlyWait, Moves
  <2>4. StartsOnce'
    <3>1. CASE Of[t] = Primary
      <4>1. ~rendezvous.controller /\ epoch[Collective] = 0
            /\ \A u \in Task : ~Starting(u)
        BY <2>1, <3>1 DEF StartsOnce
      <4>2. \A u \in Task : Starting(u)' => u = t
        BY <1>0, <4>1 DEF Moves, Starting
      <4>3. \A u \in Task : calls'[u].stage \in Tearing => calls'[u].store # Collective
        <5>1. \A u \in Task : calls[u].stage \in Tearing => calls[u].store # Collective
          BY <4>1 DEF StartsOnce
        <5> QED BY <1>0, <1>4, <5>1 DEF Moves, Tearing
      <4> QED BY <1>0, <1>4, <2>1, <2>2, <3>1, <4>1, <4>2, <4>3
              DEF StartsOnce, Moves
    <3>2. CASE Of[t] # Primary
      <4>1. \A u \in Task : Starting(u)' <=> Starting(u)
        BY <1>0, <1>r, <3>2 DEF Moves, Starting
      <4> QED BY <1>0, <1>4, <2>1, <2>2, <3>2, <4>1
              DEF StartsOnce, Moves, Starting, Tearing
    <3> QED BY <3>1, <3>2
  <2>5. ClearedForGood'
    BY <1>0, <1>4, <2>1, <2>2 DEF ClearedForGood, Moves, IsCleared, StatusIsTrue
  <2>6. WillBeCleaned'
    BY <1>0, <1>r, <2>1 DEF WillBeCleaned, Cleans, Moves
  <2> QED BY <2>3, <2>4, <2>5, <2>6
<1>5. CASE /\ SpmdShutdown(t) /\ calls'[t].store = Collective
           /\ calls'[t].op = "shutdown" /\ calls'[t].caller = "spmd"
           /\ calls'[t].stage = IF Primarily(t) THEN "teardown" ELSE "status"
  <2>1. /\ Of[t] \in sessions /\ sessions' = sessions \ {Of[t]}
        /\ UNCHANGED <<started, rendezvous, job, mesh>>
    BY <1>5 DEF SpmdShutdown
  <2>2. sessions \subseteq started /\ rendezvous.controller /\ epoch[Collective] = 1
        /\ \A u \in Task : ~Starting(u)
    BY <2>1 DEF LifeInv, TypeOK, StartsOnce
  <2>3. Registered' /\ PeersOnlyWait'
    BY <1>0, <1>5, <2>1, <2>2 DEF Registered, PeersOnlyWait, Moves, Primarily
  <2>4. StartsOnce'
    <3>1. \A u \in Task : ~Starting(u)'
      BY <1>0, <1>5, <2>2 DEF Moves, Starting
    <3>2. calls'[t].stage \in Tearing => Of[t] = Primary
      BY <1>5 DEF Tearing, Primarily
    <3> QED BY <1>0, <1>5, <2>1, <2>2, <3>1, <3>2 DEF StartsOnce, Moves
  <2>5. ClearedForGood'
    BY <1>0, <1>5, <2>1 DEF ClearedForGood, Moves, IsCleared, StatusIsTrue
  <2>6. WillBeCleaned'
    <3>1. Of[t] = Primary => Cleans(t, OnTheWay)' /\ Cleans(t, OnTheWay \cup {"mesh"})'
      BY <1>5 DEF Cleans, OnTheWay, Tearing, Primarily
    <3>2. \A u \in Task : \A S : Cleans(u, S) => u # t /\ Cleans(u, S)'
      BY <1>0, <1>r DEF Cleans, Moves
    <3> QED BY <2>1, <3>1, <3>2 DEF WillBeCleaned
  <2> QED BY <2>3, <2>4, <2>5, <2>6
<1> QED BY <1>1, <1>2, <1>3, <1>4, <1>5, StartsMove

-----------------------------------------------------------------------------
(* The steps that initialize and tear down the store of the session *)

(* Whose call is not apart at a stage of StoreLifecycle. *)
LEMMA OfTheSession ==
  ASSUME SessionInv, NEW t \in Task, ~Apart(calls[t]), LifeStep(t)
  PROVE  /\ OfStore(t) = Collective /\ Moves(t)
         /\ \/ /\ calls[t].stage \in Spawned /\ Starting(t)
               /\ calls[t].op = "initialize" /\ calls[t].epoch = 1
               /\ SameCall(t)
            \/ /\ calls[t].stage \in Tearing /\ calls[t].op = "shutdown"
               /\ calls[t].caller = "spmd" => Of[t] = Primary
<1> USE DEF SessionInv
<1>1. InOrder(calls[t]) /\ calls[t] \in CallType /\ calls[t].stage # "idle" /\ Moves(t)
      /\ \/ SameCall(t)
         \/ calls[t].caller = "api" /\ IsIdle(calls'[t])
  BY LifeStepMoves DEF LifeInv
<1>2. calls[t].store = Collective /\ calls[t].op \in {"initialize", "shutdown"}
  BY <1>1 DEF InOrder, CallType, Apart
<1>3. calls[t].stage \in {"init", "get_id", "teardown", "reset", "cleared", "ask",
                          "install", "go", "notify", "get"}
  BY DEF LifeStep, InitBegins, InitRefused, InitFails, InitEnds, TeardownBegins,
         ResetLands, ResetFails, TeardownEnds, AskStrategy, AskRefused, InstallClient,
         PutLands, PutFails, Notify, Locate, GetLands, At
<1>4. calls[t].stage \in Spawned \cup Tearing
  BY <1>1, <1>2, <1>3 DEF InOrder, Spawned, Tearing
<1>5. calls[t].caller = "spmd" => Of[t] = Primary
  BY <1>4 DEF PeersOnlyWait, Spawned, Tearing
<1>6. CASE calls[t].op = "initialize"
  <2>1. calls[t].caller = "spmd"
    BY <1>2, <1>6 DEF PeersOnlyWait
  <2>2. calls[t].stage \in Spawned
    BY <1>1, <1>4, <1>6 DEF InOrder, Tearing, Spawned
  <2>3. calls[t].epoch = 1
    BY <1>1, <1>2, <2>2 DEF InOrder
  <2> QED BY <1>1, <1>2, <1>5, <1>6, <2>1, <2>2, <2>3 DEF Starting, OfStore
<1>7. CASE calls[t].op = "shutdown"
  BY <1>1, <1>2, <1>4, <1>5, <1>7 DEF InOrder, Spawned, Tearing, OfStore
<1> QED BY <1>2, <1>6, <1>7

(* The call of the session goes on, the controller may change, and nothing else. *)
LEMMA SessionGoesOn ==
  ASSUME SessionInv, NEW t \in Task, Moves(t), UNCHANGED spmdVars,
         \/ SameCall(t) /\ (calls[t].caller = "spmd" => Of[t] = Primary)
         \/ calls[t].caller = "api" /\ IsIdle(calls'[t])
  PROVE  /\ Registered' /\ PeersOnlyWait'
         /\ \A u \in Task : Starting(u)' <=> Starting(u)
         /\ calls[t].stage # "mesh" =>
              (calls'[t].stage \in OnTheWay \/ ~Cleans(t, OnTheWay)
                 => WillBeCleaned')
<1> USE DEF SessionInv
<1>1. Registered'
  BY DEF Registered, Moves, SameCall, IsIdle, spmdVars
<1>2. PeersOnlyWait'
  BY DEF PeersOnlyWait, Moves, SameCall, IsIdle
<1>3. \A u \in Task : Starting(u)' <=> Starting(u)
  BY DEF Moves, SameCall, IsIdle, Starting
<1>4. ASSUME calls'[t].stage \in OnTheWay \/ ~Cleans(t, OnTheWay),
             calls[t].stage # "mesh"
      PROVE  WillBeCleaned'
  <2>1. \A u \in Task : Cleans(u, OnTheWay) => Cleans(u, OnTheWay)'
    BY <1>4 DEF Cleans, Moves, SameCall, IsIdle
  <2>2. \A u \in Task : Cleans(u, OnTheWay \cup {"mesh"})
                          => Cleans(u, OnTheWay \cup {"mesh"})'
    BY <1>4 DEF Cleans, Moves, SameCall, IsIdle
  <2> QED BY <2>1, <2>2 DEF WillBeCleaned, spmdVars
<1> QED BY <1>1, <1>2, <1>3, <1>4

(* Rank 0 that starts the session goes on to its next step.                *)
LEMMA StartingGoesOn ==
  ASSUME SessionInv, LifeInv', NEW t \in Task, Starting(t), Moves(t), SameCall(t),
         UNCHANGED spmdVars,
         calls[t].stage \in OnTheWay,
         calls'[t].stage \in {"get_id", "returned", "raised"},
         calls'[t].stage \in {"get_id", "returned"} => epoch'[Collective] = 1,
         epoch'[Collective] \in {epoch[Collective], 1},
         calls'[t].stage = "returned" => controllers'[Collective].up,
         ~controllers'[Collective].up => ~controllers'[Collective].indexed
  PROVE  SessionInv'
<1> USE DEF SessionInv
<1>1. /\ ~rendezvous.controller /\ sessions = {} /\ rendezvous.shutdown = "none"
      /\ Primary \in started /\ Of[t] = Primary
      /\ \A u \in Task : /\ Starting(u) => u = t
                         /\ calls[u].stage \in Tearing => calls[u].store # Collective
                         /\ ~(calls[u].caller = "spmd" /\ calls[u].op = "shutdown")
  <2>1. ~rendezvous.controller /\ Primary \in started /\ Of[t] = Primary
    BY DEF StartsOnce, Starting
  <2>2. rendezvous.shutdown \in {"none", "ok", "error"}
    BY DEF LifeInv, TypeOK, Rendezvous
  <2> QED BY <2>1, <2>2 DEF StartsOnce, ClearedForGood
<1>2. /\ Registered' /\ PeersOnlyWait'
      /\ \A u \in Task : Starting(u)' <=> Starting(u)
      /\ WillBeCleaned'
  BY <1>1, SessionGoesOn DEF OnTheWay, Spawned, Tearing
<1>3. \A u \in Task : /\ calls'[u].stage \in Tearing => calls'[u].store # Collective
                      /\ ~(calls'[u].caller = "spmd" /\ calls'[u].op = "shutdown")
  BY <1>1 DEF Moves, SameCall, Tearing, Starting
<1>4. StartsOnce'
  BY <1>1, <1>2, <1>3 DEF StartsOnce, spmdVars, Spawned, Tearing
<1>5. ClearedForGood'
  <2>1. \A u \in Task : calls'[u].stage = "returned" => calls'[u].caller = "spmd"
    BY DEF LifeInv, InOrder
  <2> QED BY <1>1, <1>3, <2>1 DEF ClearedForGood, StatusIsTrue, spmdVars, Tearing
<1> QED BY <1>2, <1>4, <1>5

(* A teardown goes on to its next step.                                    *)
LEMMA TearingGoesOn ==
  ASSUME SessionInv, LifeInv', NEW t \in Task, Moves(t), UNCHANGED spmdVars,
         \/ SameCall(t) /\ (calls[t].caller = "spmd" => Of[t] = Primary)
         \/ calls[t].caller = "api" /\ IsIdle(calls'[t]),
         calls[t].stage \in Tearing, calls[t].store = Collective,
         calls'[t].stage \in Tearing \cup {"returned", "raised", "idle"},
         epoch'[Collective] = epoch[Collective],
         \/ controllers'[Collective] = controllers[Collective]
         \/ /\ IsCleared(Collective)'
            /\ controllers[Collective] = Unborn => controllers'[Collective] = Unborn,
         calls'[t].stage \in {"reset", "cleared"} => IsCleared(Collective)',
         calls'[t].stage = "returned" => controllers'[Collective] = Unborn
  PROVE  SessionInv'
<1> USE DEF SessionInv
<1>1. /\ Primary \notin sessions /\ epoch[Collective] = 1
      /\ \A u \in Task : ~Starting(u)
  BY DEF StartsOnce
<1>0. InOrder(calls[t]) /\ InOrder(calls'[t])
  BY DEF LifeInv
<1>2. /\ Registered' /\ PeersOnlyWait'
      /\ \A u \in Task : Starting(u)' <=> Starting(u)
  BY SessionGoesOn
<1>3. WillBeCleaned'
  <2>1. calls'[t].stage \in OnTheWay \/ ~Cleans(t, OnTheWay)
    BY <1>0 DEF OnTheWay, Cleans, IsIdle, SameCall, InOrder, Spawned, Handling, Tearing
  <2>2. calls[t].stage # "mesh"
    BY DEF Tearing
  <2> QED BY <2>1, <2>2, SessionGoesOn
<1>4. StartsOnce'
  <2>1. \A u \in Task : calls'[u].caller = "spmd" /\ calls'[u].op = "shutdown"
                          => calls[u].caller = "spmd" /\ calls[u].op = "shutdown"
    BY DEF Moves, SameCall, IsIdle
  <2> QED BY <1>1, <1>2, <2>1 DEF StartsOnce, spmdVars
<1>5. ClearedForGood'
  BY DEF ClearedForGood, StatusIsTrue, spmdVars, Moves, IsCleared, Tearing, IsIdle
<1> QED BY <1>2, <1>3, <1>4, <1>5

(* Every step of a store keeps the invariant of the session.               *)
LEMMA LifeStepKeepsSession ==
  ASSUME SessionInv, LifeInv', NEW t \in Task, LifeStep(t), UNCHANGED spmdVars
  PROVE  SessionInv'
<1> USE DEF SessionInv
<1>1. CASE Apart(calls[t])
  BY <1>1, OtherLifeSteps, SameSessionKept
<1>2. CASE ~Apart(calls[t])
  <2>0. /\ calls \in [Task -> CallType] /\ InOrder(calls[t])
        /\ \A s \in Store : controllers[s] \in ControllerType
        /\ controllers \in [Store -> ControllerType] /\ epoch \in [Store -> Nat]
    BY DEF LifeInv, TypeOK, LifecycleTypeOK, ControllerType
  <2>1. /\ OfStore(t) = Collective /\ calls[t].store = Collective /\ Moves(t)
        /\ \/ /\ calls[t].stage \in Spawned /\ Starting(t)
              /\ calls[t].op = "initialize" /\ calls[t].epoch = 1
              /\ SameCall(t)
           \/ /\ calls[t].stage \in Tearing /\ calls[t].op = "shutdown"
              /\ calls[t].caller = "spmd" => Of[t] = Primary
    BY <1>2, OfTheSession DEF OfStore
  <2>2. \/ SameCall(t)
        \/ calls[t].caller = "api" /\ IsIdle(calls'[t])
    BY LifeStepMoves
  <2>p. {"get_id", "cleared", "returned", "raised"} \subseteq Stages
    BY DEF Stages, LifeStages
  <2>e. ASSUME NEW how \in {"returned", "raised"}, Ends(t, how)
        PROVE  /\ calls'[t].stage \in {how, "idle"}
               /\ Starting(t) => calls'[t].stage = how
    BY <2>0, <2>e, <2>p, EndsMoves DEF GoesOn, IsIdle, Starting
  <2>g. ASSUME NEW stage \in {"get_id", "cleared"}, Goto(t, stage)
        PROVE  calls'[t].stage = stage
    BY <2>0, <2>g, <2>p, GotoMoves DEF GoesOn
  <2>c. /\ controllers[Collective].up \in BOOLEAN
        /\ ~controllers[Collective].up => ~controllers[Collective].indexed
    BY <2>0 DEF ControllerType, ClearedForGood
  <2>t. ASSUME calls[t].stage \in {"reset", "cleared"}
        PROVE  IsCleared(Collective)
    BY <2>1, <2>t DEF ClearedForGood
  <2>3. CASE InitBegins(t)
    <3>1. /\ calls[t].stage = "init" /\ ~controllers[Collective].up
          /\ epoch' = [epoch EXCEPT ![Collective] = 1]
          /\ controllers' = [controllers EXCEPT
               ![Collective].strategy = calls[t].volume,
               ![Collective].volumes = calls[t].volume]
          /\ Goto(t, "get_id")
      BY <2>1, <2>3 DEF InitBegins, At, Spawned, Tearing
    <3>2. /\ calls'[t].stage = "get_id" /\ epoch'[Collective] = 1
          /\ ~controllers'[Collective].up /\ ~controllers'[Collective].indexed
      BY <2>0, <2>c, <2>g, <3>1 DEF ControllerType
    <3> QED BY <2>1, <3>1, <3>2, StartingGoesOn DEF OnTheWay, Spawned, Tearing
  <2>4. CASE InitEnds(t)
    <3>1. /\ calls[t].stage = "get_id" /\ epoch' = epoch
          /\ controllers' = [controllers EXCEPT ![Collective].up = TRUE]
          /\ Ends(t, "returned")
      BY <2>1, <2>4 DEF InitEnds, At
    <3>2. Starting(t) /\ calls[t].stage \in Spawned
      BY <2>1, <3>1 DEF Tearing
    <3>3. epoch[Collective] = 1
      BY <3>1, <3>2 DEF StartsOnce
    <3>4. calls'[t].stage = "returned" /\ controllers'[Collective].up
      BY <2>0, <2>e, <3>1, <3>2
    <3> QED BY <2>1, <3>1, <3>2, <3>3, <3>4, StartingGoesOn DEF OnTheWay, Tearing
  <2>5. CASE InitRefused(t) \/ InitFails(t)
    <3>1. calls[t].stage \in Spawned /\ UNCHANGED <<controllers, epoch>>
          /\ Ends(t, "raised")
      BY <2>5 DEF InitRefused, InitFails, At, Spawned
    <3>2. Starting(t)
      BY <2>1, <3>1 DEF Tearing, Spawned
    <3>3. calls'[t].stage = "raised"
      BY <2>e, <3>1, <3>2
    <3>4. epoch[Collective] \in {0, 1}
      BY DEF StartsOnce
    <3> QED BY <2>1, <2>c, <3>1, <3>2, <3>3, <3>4, StartingGoesOn
            DEF OnTheWay, Tearing, Spawned
  <2>6. CASE TeardownBegins(t)
    <3>1. /\ calls[t].stage = "teardown" /\ epoch' = epoch
          /\ controllers' = [controllers EXCEPT
               ![Collective].up = FALSE, ![Collective].indexed = FALSE,
               ![Collective].strategy = Nothing]
      BY <2>1, <2>6 DEF TeardownBegins, At
    <3>2. calls'[t].stage \in {"cleared", "reset"}
      <4> DEFINE v    == controllers[Collective].volumes
                 next == IF v = Nothing THEN "cleared" ELSE "reset"
      <4>1. calls' = [calls EXCEPT ![t].volume = v, ![t].stage = next]
        BY <2>1, <2>6 DEF TeardownBegins
      <4>2. next \in {"cleared", "reset"}
        OBVIOUS
      <4> HIDE DEF next, v
      <4>3. calls'[t].stage = next
        BY <2>0, <4>1 DEF CallType
      <4> QED BY <4>2, <4>3
    <3>3. IsCleared(Collective)'
      BY <2>0, <3>1 DEF IsCleared, ControllerType
    <3>4. controllers[Collective] = Unborn => controllers'[Collective] = Unborn
      <4> DEFINE k == [controllers[OfStore(t)] EXCEPT !.up = FALSE,
                         !.indexed = FALSE, !.strategy = Nothing]
      <4>1. controllers' = [controllers EXCEPT ![OfStore(t)] = k]
        BY <2>6 DEF TeardownBegins
      <4>2. /\ k \in ControllerType /\ k.up = FALSE /\ k.indexed = FALSE
            /\ k.strategy = Nothing /\ k.volumes = controllers[Collective].volumes
        BY <2>0, <2>1 DEF ControllerType
      <4> HIDE DEF k
      <4>3. controllers[Collective] = Unborn => k = Unborn
        BY <4>2 DEF Unborn, ControllerType
      <4> QED BY <2>0, <2>1, <4>1, <4>3
    <3> QED BY <2>1, <2>2, <3>1, <3>2, <3>3, <3>4, TearingGoesOn DEF Tearing, Spawned
  <2>7. CASE ResetLands(t)
    <3>1. /\ calls[t].stage = "reset" /\ UNCHANGED <<controllers, epoch>>
          /\ Goto(t, "cleared")
      BY <2>7 DEF ResetLands, At
    <3>2. calls'[t].stage = "cleared" /\ IsCleared(Collective)
      BY <2>g, <2>t, <3>1
    <3> QED BY <2>1, <2>2, <3>1, <3>2, TearingGoesOn DEF Tearing, Spawned, IsCleared
  <2>8. CASE ResetFails(t)
    <3>1. /\ calls[t].stage = "reset" /\ UNCHANGED <<controllers, epoch>>
          /\ Ends(t, "raised")
      BY <2>8 DEF ResetFails, At
    <3>2. calls'[t].stage \in {"raised", "idle"}
      BY <2>e, <3>1
    <3> QED BY <2>1, <2>2, <3>1, <3>2, TearingGoesOn DEF Tearing, Spawned
  <2>9. CASE TeardownEnds(t)
    <3>1. /\ calls[t].stage = "cleared" /\ epoch' = epoch
          /\ controllers' = [controllers EXCEPT ![Collective].volumes = Nothing]
          /\ Ends(t, "returned")
      BY <2>1, <2>9 DEF TeardownEnds, At
    <3>2. calls'[t].stage \in {"returned", "idle"} /\ IsCleared(Collective)
      BY <2>e, <2>t, <3>1
    <3>3. controllers'[Collective] = Unborn
      <4>1. controllers'[Collective]
              = [controllers[Collective] EXCEPT !.volumes = Nothing]
        BY <2>0, <3>1
      <4> QED BY <2>0, <3>2, <4>1 DEF IsCleared, Unborn, ControllerType
    <3>4. IsCleared(Collective)'
      BY <3>3 DEF IsCleared, Unborn
    <3> QED BY <2>1, <2>2, <3>1, <3>2, <3>3, <3>4, TearingGoesOn DEF Tearing, Spawned
  <2>10. CASE \/ AskStrategy(t) \/ AskRefused(t) \/ InstallClient(t) \/ PutLands(t)
              \/ PutFails(t) \/ Notify(t) \/ Locate(t) \/ GetLands(t)
    BY <2>1, <2>10
       DEF AskStrategy, AskRefused, InstallClient, PutLands, PutFails, Notify, Locate,
           GetLands, At, Spawned, Tearing
  <2> QED BY <2>3, <2>4, <2>5, <2>6, <2>7, <2>8, <2>9, <2>10 DEF LifeStep
<1> QED BY <1>1, <1>2

-----------------------------------------------------------------------------
(* The other steps of a session *)

(* A call of the session goes on to its next step.                         *)
LEMMA SpmdGoesOn ==
  ASSUME SessionInv, LifeInv', NEW t \in Task, Moves(t), calls[t].caller = "spmd",
         UNCHANGED <<controllers, epoch, started, sessions>>,
         rendezvous'.controller = rendezvous.controller,
         \/ rendezvous'.shutdown = rendezvous.shutdown
         \/ /\ rendezvous.controller
            /\ rendezvous'.shutdown = "ok" => controllers[Collective] = Unborn,
         SameCall(t) \/ IsIdle(calls'[t]),
         calls'[t].stage \in {"join", "attach", "init"}
           => calls[t].stage \in {"join", "attach", "init"},
         calls'[t].stage \notin {"returned", "get_id"} \cup Tearing,
         Of[t] # Primary => calls'[t].stage \in {"join", "controller", "status", "idle"},
         job' = "alive" => \/ Cleans(t, OnTheWay)'
                           \/ job = "alive" /\ ~Cleans(t, OnTheWay),
         mesh' = "alive" => \/ Cleans(t, OnTheWay \cup {"mesh"})'
                            \/ mesh = "alive" /\ ~Cleans(t, OnTheWay \cup {"mesh"})
  PROVE  SessionInv'
<1> USE DEF SessionInv
<1>1. Registered'
  BY DEF Registered, Moves, SameCall, IsIdle
<1>2. PeersOnlyWait'
  <2>1. InOrder(calls[t]) /\ InOrder(calls'[t])
    BY DEF LifeInv
  <2>2. SameCall(t) => calls'[t].stage # "idle"
    BY <2>1 DEF SameCall, InOrder, Spawned, Tearing
  <2> QED BY <2>2 DEF PeersOnlyWait, Moves, SameCall, IsIdle
<1>3. \A u \in Task : Starting(u)' => Starting(u)
  BY DEF Moves, SameCall, IsIdle, Starting
<1>4. StartsOnce'
  <2>1. \A u \in Task : calls'[u].caller = "spmd" /\ calls'[u].op = "shutdown"
                          => calls[u].caller = "spmd" /\ calls[u].op = "shutdown"
    BY DEF Moves, SameCall, IsIdle
  <2>2. \A u \in Task : calls'[u].stage \in Tearing
                          => calls[u].stage \in Tearing /\ calls'[u] = calls[u]
    BY DEF Moves
  <2>3. \A u \in Task :
          /\ calls'[u].stage \in {"join", "attach", "init"}
               => calls[u].stage \in {"join", "attach", "init"}
          /\ calls'[u].stage \in {"get_id", "returned"} => calls'[u] = calls[u]
    BY DEF Moves
  <2> QED BY <1>3, <2>1, <2>2, <2>3 DEF StartsOnce
<1>5. ClearedForGood'
  BY DEF ClearedForGood, StatusIsTrue, Moves, IsCleared, Tearing
<1>6. WillBeCleaned'
  <2>1. \A u \in Task : \A S : u # t /\ Cleans(u, S) => Cleans(u, S)'
    BY DEF Cleans, Moves
  <2> QED BY <2>1 DEF WillBeCleaned
<1> QED BY <1>1, <1>2, <1>4, <1>5, <1>6

(* Every step of the session keeps its invariant.                          *)
LEMMA SessionStepKeepsSession ==
  ASSUME SessionInv, LifeInv', NEW t \in Task, SessionStep(t)
  PROVE  SessionInv'
<1> USE DEF SessionInv
<1>0. /\ calls \in [Task -> CallType] /\ InOrder(calls[t]) /\ calls[t] \in CallType
      /\ rendezvous \in Rendezvous /\ sessions \subseteq started
  BY DEF LifeInv, TypeOK
<1>o. /\ calls[t].stage \in {"join", "attach", "controller"}
           => calls[t].op = "initialize" /\ calls[t].caller = "spmd"
      /\ calls[t].stage \in {"kill", "status"}
           => calls[t].op = "shutdown" /\ calls[t].caller = "spmd"
      /\ calls[t].stage = "mesh"
           => calls[t].op \in {"initialize", "shutdown"} /\ calls[t].caller = "spmd"
      /\ calls[t].stage = "ask" => calls[t].op \in {"put", "get"}
                                   /\ calls[t].caller = "api"
  BY <1>0 DEF InOrder, CallType, Handling, Spawned, Tearing
<1>p. {"attach", "controller", "kill", "mesh", "raised", "init"} \subseteq Stages
  BY DEF Stages, LifeStages
<1>g. ASSUME NEW stage \in {"attach", "controller", "kill", "mesh", "raised"},
             Goto(t, stage)
      PROVE  Moves(t) /\ SameCall(t) /\ calls'[t].stage = stage
  BY <1>0, <1>g, <1>p, GotoMoves DEF GoesOn, SameCall
<1>f. ASSUME Finished(t) PROVE Moves(t) /\ IsIdle(calls'[t])
  BY <1>0, <1>f, FinishedMoves
<1>q. calls[t].caller = "spmd" /\ calls[t].stage \notin {"join", "controller", "status"}
        => Of[t] = Primary
  BY DEF PeersOnlyWait
<1>w. OnTheWay \cap {"join", "controller", "status", "mesh", "idle"} = {}
      /\ {"attach", "init", "raised", "kill"} \subseteq OnTheWay
  BY DEF OnTheWay, Spawned, Tearing
<1>1. CASE Unreached(t)
  <2>1. Apart(calls[t]) /\ Apart(calls'[t]) /\ Moves(t)
        /\ UNCHANGED <<controllers, epoch, spmdVars>>
    BY <1>1, <1>o, <1>f DEF Unreached, At, Apart, IsIdle
  <2>2. SameSession
    BY <2>1 DEF SameSession, Moves, spmdVars
  <2> QED BY <2>2, SameSessionKept
<1>2. CASE Join(t)
  <2>1. /\ calls[t].stage = "join" /\ calls[t].caller = "spmd"
        /\ UNCHANGED <<controllers, epoch, started, sessions, job, mesh>>
        /\ rendezvous' = [rendezvous EXCEPT !.joined = @ \cup {Of[t]}]
    BY <1>2, <1>o DEF Join, At
  <2>2. rendezvous'.controller = rendezvous.controller
        /\ rendezvous'.shutdown = rendezvous.shutdown
    BY <1>0, <2>1 DEF Rendezvous
  <2>3. /\ Moves(t) /\ SameCall(t)
        /\ calls'[t].stage \in {"join", "controller"}
    <3>1. CASE Primarily(t)
      BY <1>0, <1>2, <2>1, <3>1 DEF Join, Moves, SameCall
    <3>2. CASE ~Primarily(t)
      BY <1>2, <1>g, <3>2 DEF Join
    <3> QED BY <3>1, <3>2
  <2>4. ~Cleans(t, OnTheWay) /\ ~Cleans(t, OnTheWay \cup {"mesh"})
    BY <1>w, <2>1 DEF Cleans
  <2> QED BY <2>1, <2>2, <2>3, <2>4, SpmdGoesOn DEF Tearing
<1>3. CASE StartJob(t)
  <2>1. /\ calls[t].stage = "join" /\ calls[t].caller = "spmd" /\ Of[t] = Primary
        /\ UNCHANGED <<controllers, epoch, started, sessions, rendezvous, mesh>>
        /\ Moves(t) /\ SameCall(t) /\ calls'[t].stage = "attach"
    BY <1>3, <1>o, <1>g DEF StartJob, At, Primarily
  <2>2. Cleans(t, OnTheWay)' /\ Cleans(t, OnTheWay \cup {"mesh"})'
    BY <1>w, <2>1 DEF Cleans, SameCall
  <2> QED BY <2>1, <2>2, SpmdGoesOn DEF Tearing
<1>4. CASE JoinTimesOut(t)
  <2>1. /\ calls[t].stage = "join" /\ calls[t].caller = "spmd"
        /\ UNCHANGED <<controllers, epoch, started, sessions, job, mesh>>
        /\ Moves(t) /\ IsIdle(calls'[t])
        /\ rendezvous' = [rendezvous EXCEPT !.server = @ /\ ~Primarily(t)]
    BY <1>4, <1>o, <1>f DEF JoinTimesOut, At
  <2>2. rendezvous'.controller = rendezvous.controller
        /\ rendezvous'.shutdown = rendezvous.shutdown
    BY <1>0, <2>1 DEF Rendezvous
  <2>3. ~Cleans(t, OnTheWay) /\ ~Cleans(t, OnTheWay \cup {"mesh"})
    BY <1>w, <2>1 DEF Cleans
  <2> QED BY <2>1, <2>2, <2>3, SpmdGoesOn DEF Tearing, IsIdle
<1>5. CASE Attach(t)
  <2>1. /\ calls[t].stage = "attach" /\ calls[t].caller = "spmd"
        /\ calls[t].op = "initialize" /\ calls[t].store = Collective
        /\ Of[t] = Primary
        /\ UNCHANGED <<controllers, epoch, started, sessions, rendezvous, job>>
    BY <1>5, <1>o, <1>0, <1>q DEF Attach, At, InOrder, Spawn
  <2>2. /\ Moves(t) /\ calls'[t].stage = "init" /\ calls'[t].op = "initialize"
        /\ calls'[t].caller = "spmd" /\ calls'[t].store = Collective
    <3>1. Spawn(t, Collective, "spmd") /\ "spmd" \in {"api", "spmd"}
      BY <1>5 DEF Attach
    <3> QED BY <3>1, SpawnInOrder
  <2>3. SameCall(t)
    BY <2>1, <2>2 DEF SameCall
  <2>4. Cleans(t, OnTheWay)' /\ Cleans(t, OnTheWay \cup {"mesh"})'
    BY <1>w, <2>1, <2>2 DEF Cleans
  <2> QED BY <2>1, <2>2, <2>3, <2>4, SpmdGoesOn DEF Tearing
<1>6. CASE AttachFails(t) \/ BroadcastFails(t)
  <2>1. /\ calls[t].caller = "spmd" /\ Of[t] = Primary
        /\ UNCHANGED <<controllers, epoch, spmdVars>>
        /\ Moves(t) /\ SameCall(t) /\ calls'[t].stage = "raised"
    <3>1. CASE AttachFails(t)
      <4>1. /\ calls[t].caller = "spmd" /\ calls[t].stage = "attach"
            /\ Ends(t, "raised") /\ UNCHANGED <<controllers, epoch, spmdVars>>
        BY <1>o, <3>1 DEF AttachFails, At
      <4>2. Goto(t, "raised")
        BY <4>1 DEF Ends, Goto
      <4> QED BY <1>g, <1>q, <4>1, <4>2
    <3>2. CASE BroadcastFails(t)
      BY <1>g, <1>q, <3>2 DEF BroadcastFails, InSpmd, At
    <3> QED BY <1>6, <3>1, <3>2
  <2>2. Cleans(t, OnTheWay)' /\ Cleans(t, OnTheWay \cup {"mesh"})'
    BY <1>w, <2>1 DEF Cleans, SameCall
  <2> QED BY <2>1, <2>2, SpmdGoesOn DEF Tearing, spmdVars
<1>7. CASE Broadcast(t)
  <2>1. /\ calls[t].stage = "returned" /\ calls[t].op = "initialize"
        /\ calls[t].caller = "spmd" /\ Of[t] = Primary
        /\ UNCHANGED <<controllers, epoch, started, job, mesh>>
        /\ rendezvous' = [rendezvous EXCEPT !.controller = TRUE]
        /\ sessions' = sessions \cup {Of[t]}
        /\ Moves(t) /\ IsIdle(calls'[t])
    BY <1>7, <1>f, <1>q DEF Broadcast, InSpmd, At
  <2>2. rendezvous'.controller /\ rendezvous'.shutdown = rendezvous.shutdown
    BY <1>0, <2>1 DEF Rendezvous
  <2>3. /\ Starting(t) /\ epoch[Collective] = 1 /\ controllers[Collective].up
        /\ Primary \in started
        /\ \A u \in Task : /\ Starting(u) => u = t
                           /\ calls[u].stage \in Tearing => calls[u].store # Collective
    BY <2>1 DEF Starting, StartsOnce
  <2>4. Registered' /\ PeersOnlyWait'
    BY <2>1 DEF Registered, PeersOnlyWait, Moves, IsIdle
  <2>5. \A u \in Task : ~Starting(u)'
    BY <2>1, <2>3 DEF Moves, IsIdle, Starting
  <2>6. StartsOnce'
    BY <2>1, <2>2, <2>3, <2>5 DEF StartsOnce, Moves, IsIdle, Tearing
  <2>7. ClearedForGood'
    BY <2>1, <2>2 DEF ClearedForGood, Moves, IsIdle, IsCleared, StatusIsTrue
  <2>8. WillBeCleaned'
    BY <2>1 DEF WillBeCleaned
  <2> QED BY <2>4, <2>6, <2>7, <2>8
<1>8. CASE ReceiveController(t)
  <2>1. /\ calls[t].stage = "controller" /\ calls[t].op = "initialize"
        /\ calls[t].caller = "spmd" /\ rendezvous.controller
        /\ UNCHANGED <<controllers, epoch, started, rendezvous, job, mesh>>
        /\ sessions' = sessions \cup {Of[t]}
        /\ Moves(t) /\ IsIdle(calls'[t])
    BY <1>8, <1>f, <1>o DEF ReceiveController, At
  <2>2. Of[t] # Primary
    BY <2>1 DEF StartsOnce, Starting
  <2>3. Registered' /\ PeersOnlyWait'
    BY <2>1 DEF Registered, PeersOnlyWait, Moves, IsIdle
  <2>4. \A u \in Task : Starting(u)' => Starting(u)
    BY <2>1 DEF Moves, IsIdle, Starting
  <2>5. StartsOnce'
    BY <2>1, <2>2, <2>4 DEF StartsOnce, Moves, IsIdle, Tearing
  <2>6. ClearedForGood'
    BY <2>1 DEF ClearedForGood, Moves, IsIdle, IsCleared, StatusIsTrue
  <2>7. WillBeCleaned'
    BY <1>w, <2>1 DEF WillBeCleaned, Cleans, Moves
  <2> QED BY <2>3, <2>5, <2>6, <2>7
<1>9. CASE ControllerTimesOut(t) \/ ReadStatus(t) \/ StatusTimesOut(t)
  <2>1. /\ calls[t].stage \in {"controller", "status"} /\ calls[t].caller = "spmd"
        /\ UNCHANGED <<controllers, epoch, spmdVars>>
        /\ Moves(t) /\ IsIdle(calls'[t])
    BY <1>9, <1>f, <1>o DEF ControllerTimesOut, ReadStatus, StatusTimesOut, At
  <2>2. ~Cleans(t, OnTheWay) /\ ~Cleans(t, OnTheWay \cup {"mesh"})
    BY <1>w, <2>1 DEF Cleans
  <2> QED BY <2>1, <2>2, SpmdGoesOn DEF Tearing, IsIdle, spmdVars
<1>10. CASE SetStatus(t)
  <2>1. /\ calls[t].caller = "spmd" /\ calls[t].op = "shutdown"
        /\ calls[t].stage \in {"returned", "raised"} /\ Of[t] = Primary
        /\ \/ rendezvous' = [rendezvous EXCEPT !.shutdown =
                               IF At(t, "returned") THEN "ok" ELSE "error"]
           \/ UNCHANGED rendezvous
        /\ UNCHANGED <<controllers, epoch, started, sessions, job, mesh>>
        /\ Moves(t) /\ SameCall(t) /\ calls'[t].stage = "kill"
    BY <1>10, <1>g, <1>q DEF SetStatus, InSpmd, At
  <2>2. /\ rendezvous.controller
        /\ calls[t].stage = "returned" => controllers[Collective] = Unborn
    BY <2>1 DEF StartsOnce, ClearedForGood
  <2>3. /\ rendezvous'.controller = rendezvous.controller
        /\ \/ rendezvous'.shutdown = rendezvous.shutdown
           \/ rendezvous'.shutdown = "ok" => calls[t].stage = "returned"
    BY <1>0, <2>1 DEF Rendezvous, At
  <2>4. Cleans(t, OnTheWay)' /\ Cleans(t, OnTheWay \cup {"mesh"})'
    BY <1>w, <2>1 DEF Cleans, SameCall
  <2> QED BY <2>1, <2>2, <2>3, <2>4, SpmdGoesOn DEF Tearing
<1>11. CASE KillJob(t)
  <2>1. /\ calls[t].caller = "spmd" /\ calls[t].stage \in {"kill", "raised"}
        /\ Of[t] = Primary
        /\ UNCHANGED <<controllers, epoch, started, sessions, rendezvous, mesh>>
        /\ Moves(t) /\ SameCall(t) /\ calls'[t].stage = "mesh"
    BY <1>11, <1>g, <1>o, <1>q DEF KillJob, Killing, InSpmd, At
  <2>2. job' # "alive"
    BY <1>11 DEF KillJob, AfterKill
  <2>3. Cleans(t, OnTheWay \cup {"mesh"})'
    BY <2>1 DEF Cleans, SameCall
  <2> QED BY <2>1, <2>2, <2>3, SpmdGoesOn DEF Tearing
<1>12. CASE StopMesh(t)
  <2>1. /\ calls[t].caller = "spmd" /\ calls[t].stage = "mesh"
        /\ UNCHANGED <<controllers, epoch, started, sessions, rendezvous, job>>
        /\ Moves(t) /\ IsIdle(calls'[t])
    BY <1>12, <1>f, <1>o DEF StopMesh, At
  <2>2. mesh' # "alive"
    BY <1>12 DEF StopMesh, AfterStop
  <2>3. ~Cleans(t, OnTheWay)
    BY <1>w, <2>1 DEF Cleans
  <2> QED BY <2>1, <2>2, <2>3, SpmdGoesOn DEF Tearing, IsIdle
<1> QED BY <1>1, <1>2, <1>3, <1>4, <1>5, <1>6, <1>7, <1>8, <1>9, <1>10, <1>11, <1>12
        DEF SessionStep

-----------------------------------------------------------------------------
(* The invariant of the session *)

(* The session starts with its invariant.                                  *)
LEMMA SessionInitially == Init => SessionInv
<1> SUFFICES ASSUME Init PROVE SessionInv
  OBVIOUS
<1>1. LifeInv
  BY LifeInitially
<1>2. \A t \in Task : calls[t] = Idle
  BY DEF Init, LifeInit
<1>3. Idle.stage = "idle" /\ Idle.caller = "api" /\ Idle.op = "none"
  BY DEF Idle
<1>4. /\ epoch[Collective] = 0 /\ ~controllers[Collective].indexed
      /\ sessions = {} /\ ~rendezvous.controller /\ rendezvous.shutdown = "none"
      /\ job = "none" /\ mesh = "none"
  BY DEF Init, LifeInit, Unborn
<1>5. Registered /\ PeersOnlyWait
  BY <1>2, <1>3 DEF Registered, PeersOnlyWait
<1>6. StartsOnce
  BY <1>2, <1>3, <1>4 DEF StartsOnce, Starting, Tearing
<1>7. ClearedForGood
  BY <1>2, <1>3, <1>4 DEF ClearedForGood, StatusIsTrue
<1>8. WillBeCleaned
  BY <1>4 DEF WillBeCleaned
<1> QED BY <1>1, <1>5, <1>6, <1>7, <1>8 DEF SessionInv

(* The invariant of the session is inductive.                              *)
LEMMA SessionInvStep == SessionInv /\ [Next]_vars => SessionInv'
<1> SUFFICES ASSUME SessionInv, [Next]_vars PROVE SessionInv'
  OBVIOUS
<1>0. LifeInv /\ Registered /\ LifeInv'
  BY LifeInvStep DEF SessionInv
<1>1. CASE UNCHANGED vars
  <2>1. SameSession
    BY <1>1 DEF vars, lifeVars, spmdVars, SameSession
  <2> QED BY <1>0, <2>1, SameSessionKept
<1>2. CASE Resets
  <2>1. SameSession
    BY <1>2 DEF Resets, ResetClient, SameSession, spmdVars
  <2> QED BY <1>0, <2>1, SameSessionKept
<1>3. CASE Exit
  <2>1. /\ UNCHANGED <<controllers, calls, epoch, started, sessions, job, mesh>>
        /\ rendezvous' = [rendezvous EXCEPT !.server = FALSE]
    BY <1>3 DEF Exit, lifeVars
  <2>2. rendezvous'.controller = rendezvous.controller
        /\ rendezvous'.shutdown = rendezvous.shutdown
    BY <1>0, <2>1 DEF LifeInv, TypeOK, Rendezvous
  <2>3. Registered' /\ PeersOnlyWait' /\ WillBeCleaned'
    BY <2>1 DEF SessionInv, Registered, PeersOnlyWait, WillBeCleaned, Cleans
  <2>4. StartsOnce'
    BY <2>1, <2>2 DEF SessionInv, StartsOnce, Starting
  <2>5. ClearedForGood'
    BY <2>1, <2>2 DEF SessionInv, ClearedForGood, IsCleared, StatusIsTrue
  <2> QED BY <1>0, <2>3, <2>4, <2>5 DEF SessionInv
<1>4. ASSUME NEW t \in Task, Starts(t) PROVE SessionInv'
  BY <1>0, <1>4, StartsKeepSession
<1>5. ASSUME NEW t \in Task, LifeStep(t), UNCHANGED spmdVars PROVE SessionInv'
  BY <1>0, <1>5, LifeStepKeepsSession
<1>6. ASSUME NEW t \in Task, SessionStep(t) PROVE SessionInv'
  BY <1>0, <1>6, SessionStepKeepsSession
<1> QED BY <1>1, <1>2, <1>3, <1>4, <1>5, <1>6, NextInParts

(* So it always holds.                                                     *)
LEMMA SessionInvHolds == Spec => []SessionInv
<1>1. Init => SessionInv
  BY SessionInitially
<1>2. SessionInv /\ [Next]_vars => SessionInv'
  BY SessionInvStep
<1> QED BY <1>1, <1>2, PTL DEF Spec

(* The state of the stores and of the session has its type, whichever      *)
(* calls run and fail in any of the processes.                             *)
THEOREM LifeTypeCorrect == Spec => []TypeOK
<1>1. SessionInv => TypeOK
  BY DEF SessionInv, LifeInv
<1> QED BY <1>1, SessionInvHolds, PTL

(* While rank 0 has its session the controller is up: no rank holds a      *)
(* session of a store that was not initialized, nor of one that another    *)
(* call has shut down.                                                     *)
THEOREM SessionsServed == Spec => []SessionsAreServed
<1>1. SessionInv => SessionsAreServed
  BY DEF SessionInv, StartsOnce, SessionsAreServed
<1> QED BY <1>1, SessionInvHolds, PTL

(* What the peers are told of the shutdown is true, and stays true: the    *)
(* controller has let go of its index, its strategy and its volumes.       *)
THEOREM StatusTrue == Spec => []StatusIsTrue
<1>1. SessionInv => StatusIsTrue
  BY DEF SessionInv, ClearedForGood
<1> QED BY <1>1, SessionInvHolds, PTL

(* Whatever fails in initialize or in shutdown, rank 0 does not go on      *)
(* without having tried to kill the job and to stop the mesh it started.   *)
THEOREM NoLeaks == Spec => []NothingLeaks
<1>1. SessionInv => NothingLeaks
  BY DEF SessionInv, WillBeCleaned, NothingLeaks, Cleans, Primarily
<1> QED BY <1>1, SessionInvHolds, PTL

-----------------------------------------------------------------------------
(* No call waits for ever *)

(* What each step of a task asks of the state, in the order of Step.  None *)
(* of them asks anything more of the next state than to be what the step   *)
(* makes it, so this is when the task can go on.                           *)
CanGoOn(t) ==
  LET c == calls[t]
      controller == controllers[OfStore(t)]
      content == contents[c.volume]
  IN
  \* InitBegins, InitRefused; InitFails, InitEnds
  \/ At(t, "init") /\ ~controller.up
  \/ At(t, "init") /\ controller.up
  \/ At(t, "get_id") /\ ("init" \in LifeFault \/ content = Gone)
  \/ At(t, "get_id") /\ content # Gone
  \* TeardownBegins; ResetLands, ResetFails; TeardownEnds
  \/ At(t, "teardown")
  \/ At(t, "reset") /\ content # Gone
  \/ At(t, "reset") /\ ("reset" \in LifeFault \/ content = Gone)
  \/ At(t, "cleared")
  \* AskStrategy, AskRefused, Unreached; InstallClient
  \/ At(t, "ask") /\ Reaches(t) /\ controller.up /\ controller.strategy # Nothing
  \/ At(t, "ask") /\ Reaches(t) /\ (~controller.up \/ controller.strategy = Nothing)
  \/ At(t, "ask") /\ ~Reaches(t)
  \/ At(t, "install")
  \* PutLands, PutFails, Notify; Locate, GetLands
  \/ At(t, "go") /\ c.op = "put" /\ content # Gone
  \/ At(t, "go") /\ c.op = "put" /\ ("put" \in LifeFault \/ content = Gone)
  \/ At(t, "notify")
  \/ At(t, "go") /\ c.op = "get"
  \/ At(t, "get")
  \* Join, StartJob, JoinTimesOut
  \/ At(t, "join") /\ rendezvous.server /\ Of[t] \notin rendezvous.joined
  \/ At(t, "join") /\ Primarily(t) /\ rendezvous.joined = Rank
  \/ At(t, "join")
       /\ IF Primarily(t) THEN rendezvous.joined # Rank ELSE ~rendezvous.server
  \* Attach, AttachFails; Broadcast, BroadcastFails
  \/ At(t, "attach") /\ epoch[Collective] < MaxInit[Collective]
  \/ At(t, "attach") /\ "attach" \in SpmdFault
  \/ InSpmd(t, "initialize", "returned")
  \/ InSpmd(t, "initialize", "returned") /\ "set" \in SpmdFault
  \* ReceiveController, ControllerTimesOut
  \/ At(t, "controller") /\ rendezvous.server /\ rendezvous.controller
  \/ At(t, "controller") /\ ~(rendezvous.server /\ rendezvous.controller)
  \* SetStatus; KillJob; StopMesh
  \/ InSpmd(t, "shutdown", "returned") \/ InSpmd(t, "shutdown", "raised")
  \/ Killing(t)
  \/ At(t, "mesh")
  \* ReadStatus, StatusTimesOut
  \/ At(t, "status") /\ rendezvous.server /\ rendezvous.shutdown # "none"
  \/ At(t, "status") /\ (~rendezvous.server \/ rendezvous.shutdown = "none")

(* Invariant: every task in the middle of a call can go on.                *)
NoCallIsStuck == \A t \in Task : ~At(t, "idle") => CanGoOn(t)

(* A rank comes to the TCPStore with one task, and once.                   *)
JoinsOnce ==
  /\ rendezvous.joined \subseteq started
  /\ \A t, u \in Task : At(t, "join") /\ At(u, "join") /\ Of[t] = Of[u] => t = u
  /\ \A t \in Task :
       At(t, "join") /\ Of[t] # Primary => Of[t] \notin rendezvous.joined

(* A step that brings nobody to the TCPStore leaves that so.               *)
LEMMA NoneComes ==
  ASSUME JoinsOnce, NEW t \in Task, Moves(t),
         calls'[t].stage = "join" => calls[t].stage = "join",
         started \subseteq started', rendezvous'.joined = rendezvous.joined
  PROVE  JoinsOnce'
<1>1. \A u \in Task : At(u, "join")' => At(u, "join")
  BY DEF At, Moves
<1> QED BY <1>1 DEF JoinsOnce

(* The steps of a store do not lead to the TCPStore.                       *)
LEMMA LifeStepStaysAway ==
  ASSUME LifeInv, NEW t \in Task, LifeStep(t)
  PROVE  calls'[t].stage # "join"
<1>0. calls \in [Task -> CallType] /\ calls[t] \in CallType
  BY DEF LifeInv
<1>p. {"get_id", "cleared", "reset", "go", "notify", "get", "install", "returned",
       "raised"} \subseteq Stages \ {"join"}
  BY DEF Stages, LifeStages
<1>1. ASSUME NEW how \in {"returned", "raised"}, Ends(t, how)
      PROVE  calls'[t].stage # "join"
  BY <1>0, <1>1, <1>p, EndsMoves DEF GoesOn, IsIdle
<1>2. ASSUME NEW stage \in Stages \ {"join"}, Goto(t, stage)
      PROVE  calls'[t].stage # "join"
  BY <1>0, <1>2, GotoMoves DEF GoesOn
<1>3. CASE InitBegins(t) \/ ResetLands(t) \/ InstallClient(t) \/ PutLands(t)
  BY <1>2, <1>3, <1>p DEF InitBegins, ResetLands, InstallClient, PutLands
<1>4. CASE \/ InitRefused(t) \/ InitFails(t) \/ InitEnds(t)
           \/ ResetFails(t) \/ TeardownEnds(t) \/ AskRefused(t) \/ PutFails(t)
  BY <1>1, <1>4
     DEF InitRefused, InitFails, InitEnds, ResetFails, TeardownEnds, AskRefused,
         PutFails
<1>5. CASE GetLands(t) \/ Notify(t)
  BY <1>1, <1>5 DEF GetLands, Notify
<1>6. CASE Locate(t)
  BY <1>1, <1>2, <1>6, <1>p DEF Locate
<1>7. CASE TeardownBegins(t)
  BY <1>0, <1>7 DEF TeardownBegins, CallType
<1>8. CASE AskStrategy(t)
  BY <1>0, <1>8 DEF AskStrategy, CallType
<1> QED BY <1>3, <1>4, <1>5, <1>6, <1>7, <1>8 DEF LifeStep

(* SpmdInitialize does, once for each rank.                                *)
LEMMA StartsJoinOnce ==
  ASSUME SessionInv, JoinsOnce, NEW t \in Task, Starts(t)
  PROVE  JoinsOnce'
<1>1. Moves(t) /\ LifeInv
  BY StartsMove DEF SessionInv
<1>2. CASE SpmdInitialize(t)
  <2>1. /\ Of[t] \in Rank \ started /\ started' = started \cup {Of[t]}
        /\ rendezvous' = [rendezvous EXCEPT !.server = @ \/ Primarily(t)]
    BY <1>2 DEF SpmdInitialize
  <2>2. rendezvous'.joined = rendezvous.joined
    BY <1>1, <2>1 DEF LifeInv, TypeOK, Rendezvous
  <2>3. \A u \in Task : At(u, "join") => Of[u] \in started
    <3>1. \A u \in Task : InOrder(calls[u]) /\ Registered
      BY <1>1 DEF LifeInv, SessionInv
    <3> QED BY <3>1 DEF At, InOrder, Registered
  <2>4. \A u \in Task : At(u, "join")' => u = t \/ At(u, "join")
    BY <1>1 DEF At, Moves
  <2> QED BY <2>1, <2>2, <2>3, <2>4 DEF JoinsOnce
<1>3. CASE ~SpmdInitialize(t)
  <2>1. calls'[t].stage # "join"
    BY <1>1, <1>3, StartsMove
  <2>2. started \subseteq started' /\ rendezvous'.joined = rendezvous.joined
    BY <1>1, <1>3, StartsMove DEF UsesContext, SpmdShutdown
  <2> QED BY <1>1, <2>1, <2>2, NoneComes
<1> QED BY <1>2, <1>3

(* The other steps of the session lead on from it.                         *)
LEMMA SessionStepJoinsOnce ==
  ASSUME SessionInv, JoinsOnce, NEW t \in Task, SessionStep(t)
  PROVE  JoinsOnce'
<1>0. /\ calls \in [Task -> CallType] /\ InOrder(calls[t]) /\ calls[t] \in CallType
      /\ rendezvous \in Rendezvous
  BY DEF SessionInv, LifeInv, TypeOK
<1>p. {"attach", "controller", "kill", "mesh", "raised", "init"}
        \subseteq Stages \ {"join"}
  BY DEF Stages, LifeStages
<1>g. ASSUME NEW stage \in Stages \ {"join"}, Goto(t, stage)
      PROVE  Moves(t) /\ calls'[t].stage # "join"
  BY <1>0, <1>g, GotoMoves DEF GoesOn
<1>f. ASSUME Finished(t) PROVE Moves(t) /\ calls'[t].stage # "join"
  BY <1>0, <1>f, FinishedMoves DEF IsIdle
<1>1. CASE Join(t)
  <2>1. /\ At(t, "join") /\ rendezvous' = [rendezvous EXCEPT !.joined = @ \cup {Of[t]}]
        /\ UNCHANGED started
    BY <1>1 DEF Join
  <2>2. rendezvous'.joined = rendezvous.joined \cup {Of[t]}
    BY <1>0, <2>1 DEF Rendezvous
  <2>3. Of[t] \in started
    BY <1>0, <2>1 DEF At, InOrder, Registered, SessionInv
  <2>4. CASE Of[t] = Primary
    <3>1. UNCHANGED calls
      BY <1>1, <2>4 DEF Join, Primarily
    <3> QED BY <2>1, <2>2, <2>3, <2>4, <3>1 DEF JoinsOnce, At
  <2>5. CASE Of[t] # Primary
    <3>1. Moves(t) /\ calls'[t].stage # "join"
      BY <1>1, <1>g, <1>p, <2>5 DEF Join, Primarily
    <3>2. \A u \in Task : At(u, "join")' => u # t /\ At(u, "join")
      BY <3>1 DEF At, Moves
    <3> QED BY <2>1, <2>2, <2>3, <3>2 DEF JoinsOnce
  <2> QED BY <2>4, <2>5
<1>2. CASE JoinTimesOut(t)
  <2>1. rendezvous'.joined = rendezvous.joined /\ UNCHANGED started
    BY <1>0, <1>2 DEF JoinTimesOut, Rendezvous
  <2> QED BY <1>2, <1>f, <2>1, NoneComes DEF JoinTimesOut
<1>3. CASE Attach(t)
  <2>1. Moves(t) /\ calls'[t].stage = "init"
    <3>1. Spawn(t, Collective, "spmd") /\ "spmd" \in {"api", "spmd"}
      BY <1>3 DEF Attach
    <3> QED BY <3>1, SpawnInOrder DEF SessionInv
  <2> QED BY <1>3, <2>1, NoneComes DEF Attach
<1>4. CASE AttachFails(t)
  <2>1. Moves(t) /\ calls'[t].stage # "join"
    BY <1>0, <1>4, <1>p, EndsMoves DEF AttachFails, GoesOn, IsIdle
  <2> QED BY <1>4, <2>1, NoneComes DEF AttachFails, spmdVars
<1>5. CASE Broadcast(t)
  <2>1. rendezvous'.joined = rendezvous.joined /\ UNCHANGED started
    BY <1>0, <1>5 DEF Broadcast, Rendezvous
  <2> QED BY <1>5, <1>f, <2>1, NoneComes DEF Broadcast
<1>6. CASE SetStatus(t)
  <2>1. rendezvous'.joined = rendezvous.joined /\ UNCHANGED started
    BY <1>0, <1>6 DEF SetStatus, Rendezvous
  <2> QED BY <1>6, <1>g, <1>p, <2>1, NoneComes DEF SetStatus
<1>7. CASE StartJob(t) \/ BroadcastFails(t) \/ KillJob(t)
  BY <1>7, <1>g, <1>p, NoneComes DEF StartJob, BroadcastFails, KillJob, spmdVars
<1>8. CASE \/ Unreached(t) \/ ReceiveController(t) \/ ControllerTimesOut(t)
           \/ StopMesh(t) \/ ReadStatus(t) \/ StatusTimesOut(t)
  BY <1>8, <1>f, NoneComes
     DEF Unreached, ReceiveController, ControllerTimesOut, StopMesh, ReadStatus,
         StatusTimesOut, spmdVars
<1> QED BY <1>1, <1>2, <1>3, <1>4, <1>5, <1>6, <1>7, <1>8 DEF SessionStep

(* With the invariant of the session, JoinsOnce is inductive.              *)
LEMMA JoinsOnceStep == SessionInv /\ JoinsOnce /\ [Next]_vars => JoinsOnce'
<1> SUFFICES ASSUME SessionInv, JoinsOnce, [Next]_vars PROVE JoinsOnce'
  OBVIOUS
<1>1. CASE UNCHANGED vars
  BY <1>1 DEF vars, lifeVars, spmdVars, JoinsOnce, At
<1>2. CASE Resets
  BY <1>2 DEF Resets, ResetClient, spmdVars, JoinsOnce, At
<1>3. CASE Exit
  <2>1. rendezvous'.joined = rendezvous.joined /\ UNCHANGED <<calls, started>>
    BY <1>3 DEF Exit, lifeVars, SessionInv, LifeInv, TypeOK, Rendezvous
  <2> QED BY <2>1 DEF JoinsOnce, At
<1>4. ASSUME NEW t \in Task, Starts(t) PROVE JoinsOnce'
  BY <1>4, StartsJoinOnce
<1>5. ASSUME NEW t \in Task, LifeStep(t), UNCHANGED spmdVars PROVE JoinsOnce'
  <2>1. Moves(t) /\ calls'[t].stage # "join"
    BY <1>5, LifeStepMoves, LifeStepStaysAway DEF SessionInv
  <2> QED BY <1>5, <2>1, NoneComes DEF spmdVars
<1>6. ASSUME NEW t \in Task, SessionStep(t) PROVE JoinsOnce'
  BY <1>6, SessionStepJoinsOnce
<1> QED BY <1>1, <1>2, <1>3, <1>4, <1>5, <1>6, NextInParts

(* At each stage the guards leave no state out.                            *)
LEMMA NoneStuck == SessionInv /\ JoinsOnce => NoCallIsStuck
<1> SUFFICES ASSUME SessionInv, JoinsOnce, NEW t \in Task, ~At(t, "idle")
             PROVE  CanGoOn(t)
  BY DEF NoCallIsStuck
<1>1. InOrder(calls[t]) /\ calls[t] \in CallType
  BY DEF SessionInv, LifeInv
<1>2. CASE calls[t].stage \in Spawned \cup Tearing \cup
             {"ask", "install", "notify", "get", "controller", "status", "kill", "mesh"}
  BY <1>2 DEF CanGoOn, At, Killing, Spawned, Tearing
<1>3. CASE calls[t].stage = "go"
  <2>1. calls[t].op \in {"put", "get"}
    BY <1>1, <1>3 DEF InOrder, CallType, Spawned, Tearing
  <2> QED BY <1>3, <2>1 DEF CanGoOn, At
<1>4. CASE calls[t].stage \in {"returned", "raised"}
  <2>1. calls[t].caller = "spmd" /\ calls[t].op \in {"initialize", "shutdown"}
    BY <1>1, <1>4 DEF InOrder
  <2> QED BY <1>4, <2>1 DEF CanGoOn, At, InSpmd, Killing
<1>5. CASE calls[t].stage = "attach"
  <2>1. Starting(t)
    BY <1>1, <1>5
       DEF InOrder, CallType, Tearing, Starting, SessionInv, PeersOnlyWait
  <2>2. epoch[Collective] = 0
    BY <1>5, <2>1 DEF SessionInv, StartsOnce
  <2>3. epoch[Collective] < MaxInit[Collective]
    BY <2>2
  <2> QED BY <1>5, <2>3 DEF CanGoOn, At
<1>6. CASE calls[t].stage = "join"
  BY <1>6 DEF CanGoOn, At, JoinsOnce, Primarily
<1> QED BY <1>1, <1>2, <1>3, <1>4, <1>5, <1>6
        DEF CallType, Stages, LifeStages, Spawned, Tearing, At

(* A task that is in the middle of a call can go on, whoever else failed,  *)
(* timed out or has left: nothing in the life of a store or of a session   *)
(* waits without a timeout for what may never come.  This is NoCallHangs   *)
(* with the guards of the steps for ENABLED.                               *)
THEOREM CallsCanGoOn == Spec => []NoCallIsStuck
<1>1. Init => JoinsOnce
  BY DEF Init, LifeInit, JoinsOnce, At, Idle
<1>2. SessionInv /\ JoinsOnce /\ [Next]_vars => JoinsOnce'
  BY JoinsOnceStep
<1> QED BY <1>1, <1>2, NoneStuck, SessionInvHolds, PTL DEF Spec

-----------------------------------------------------------------------------
(* The volumes: what other stores do does not matter *)

(* Without sharing, the volume of a store is no volume of another one.     *)
LEMMA OwnVolumes ==
  ASSUME NoSharing, NEW s \in Store, NEW q \in Store, NEW n, NEW m,
         VolumeOf(s, n) = VolumeOf(q, m)
  PROVE  s = q
<1>1. CASE s \in Shares
  <2>1. q \in Shares
    BY <1>1 DEF VolumeOf
  <2> QED BY <1>1, <2>1 DEF NoSharing
<1>2. CASE s \notin Shares
  <2>1. q \notin Shares
    BY <1>2 DEF VolumeOf
  <2> QED BY <1>2, <2>1 DEF VolumeOf
<1> QED BY <1>1, <1>2

AtWork == Handling \cup Spawned \cup Tearing

(* A step that leaves the store and the work on it as it is, but for a     *)
(* client or a host that is lost and for a call that is done.              *)
LeavesAlone(s) ==
  /\ epoch'[s] = epoch[s]
  /\ controllers'[s].up = controllers[s].up
  /\ controllers'[s].indexed = controllers[s].indexed
  /\ controllers'[s].strategy = controllers[s].strategy
  /\ controllers'[s].volumes \in {controllers[s].volumes, Nothing}
  /\ \A p \in Process : clients'[p][s] \in {clients[p][s], Nothing}
  /\ epoch[s] > 0 => contents'[Current(s)] \in {contents[Current(s)], Gone}
  /\ \A u \in Task : calls'[u] = calls[u] \/ ~IsOf(u, s, AtWork)'

(* A store that is left alone keeps what holds of it.                      *)
LEMMA AloneHolds ==
  ASSUME NEW s \in Store, StoreHolds(s), LeavesAlone(s)
  PROVE  StoreHolds(s)'
<1> USE DEF StoreHolds
<1>1. Current(s)' = Current(s) /\ Own(s)' = Own(s)
  BY DEF LeavesAlone, Current, Own
<1>2. \A u \in Task : \A S \in {Handling, Spawned, Tearing, {"notify"}, {"get"}} :
        IsOf(u, s, S)' => calls'[u] = calls[u] /\ IsOf(u, s, S)
  BY DEF LeavesAlone, IsOf, AtWork, Handling
<1>3. ControllerHolds(s)'
  BY <1>1 DEF ControllerHolds, LeavesAlone
<1>4. ClientsHold(s)'
  BY <1>1 DEF ClientsHold, LeavesAlone
<1>5. HandlingHolds(s)'
  <2> SUFFICES ASSUME NEW u \in Task
               PROVE  /\ IsOf(u, s, Handling)' =>
                           /\ calls'[u].volume = Current(s)
                           /\ calls'[u].epoch = epoch[s] /\ epoch[s] > 0
                      /\ (IsOf(u, s, {"notify"}) /\ controllers[s].up)'
                           => contents'[Current(s)] \in {Own(s), Gone}
                      /\ IsOf(u, s, {"get"})'
                           => contents'[Current(s)] \in {Own(s), Nothing, Gone}
    BY <1>1 DEF HandlingHolds, LeavesAlone
  <2>1. IsOf(u, s, {"notify"}) \/ IsOf(u, s, {"get"}) => IsOf(u, s, Handling)
    BY DEF IsOf, Handling
  <2>2. IsOf(u, s, Handling) => epoch[s] > 0
    BY DEF HandlingHolds
  <2>3. IsOf(u, s, {"notify"}) \/ IsOf(u, s, {"get"})
          => contents'[Current(s)] \in {contents[Current(s)], Gone}
    BY <2>1, <2>2 DEF LeavesAlone
  <2> QED BY <1>2, <2>3 DEF HandlingHolds, LeavesAlone
<1>6. InitHolds(s)'
  BY <1>1, <1>2 DEF InitHolds, LeavesAlone
<1>7. TeardownHolds(s)'
  BY <1>1, <1>2 DEF TeardownHolds, LeavesAlone
<1> QED BY <1>3, <1>4, <1>5, <1>6, <1>7

(* What a step does to the volume and the clients of its own store. *)
LEMMA LifeStepContents ==
  ASSUME LifeInv, NEW t \in Task, LifeStep(t)
  PROVE  /\ \/ UNCHANGED contents
            \/ /\ IsOf(t, OfStore(t), {"go", "reset"})
               /\ \E c : contents' = [contents EXCEPT ![calls[t].volume] = c]
         /\ \/ UNCHANGED clients
            \/ \E v : clients' = [clients EXCEPT ![Of[t]][OfStore(t)] = v]
  BY DEF LifeStep, InitBegins, InitRefused, InitFails, InitEnds, TeardownBegins,
         ResetLands, ResetFails, TeardownEnds, ResetsClient, Forget, AskStrategy,
         AskRefused, InstallClient, PutLands, PutFails, Notify, Locate, GetLands,
         At, IsOf, OfStore

(* A step of one store leaves every other one alone.                       *)
LEMMA ElsewhereAlone ==
  ASSUME LifeInv, VolumeInv, NoSharing, NEW t \in Task, LifeStep(t),
         NEW s \in Store, OfStore(t) # s
  PROVE  LeavesAlone(s)
<1>0. /\ OfStore(t) \in Store /\ Of[t] \in Process
      /\ clients \in [Process -> [Store -> Volumes \cup {Nothing}]]
      /\ Moves(t)
      /\ (calls'[t].store = OfStore(t) \/ calls'[t].stage = "idle")
  <2>1. /\ calls[t].stage # "idle" /\ Moves(t)
        /\ \/ SameCall(t)
           \/ calls[t].caller = "api" /\ IsIdle(calls'[t])
    BY LifeStepMoves
  <2>2. OfStore(t) \in Store
    BY <2>1 DEF LifeInv, InOrder, OfStore
  <2>3. calls'[t].store = OfStore(t) \/ calls'[t].stage = "idle"
    BY <2>1 DEF SameCall, IsIdle, OfStore
  <2> QED BY <2>1, <2>2, <2>3 DEF LifeInv, TypeOK, LifecycleTypeOK
<1>1. \A u \in Task : calls'[u] = calls[u] \/ ~IsOf(u, s, AtWork)'
  <2>1. "idle" \notin AtWork
    BY DEF AtWork, Handling, Spawned, Tearing
  <2> QED BY <1>0, <2>1 DEF Moves, IsOf
<1>2. \A p \in Process : clients'[p][s] = clients[p][s]
  <2>1. CASE UNCHANGED clients
    BY <2>1
  <2>2. ASSUME NEW v, clients' = [clients EXCEPT ![Of[t]][OfStore(t)] = v]
        PROVE  \A p \in Process : clients'[p][s] = clients[p][s]
    BY <1>0, <2>2
  <2> QED BY <2>1, <2>2, LifeStepContents
<1>3. contents'[Current(s)] = contents[Current(s)]
  <2>1. CASE UNCHANGED contents
    BY <2>1
  <2>2. ASSUME IsOf(t, OfStore(t), {"go", "reset"}),
               NEW c, contents' = [contents EXCEPT ![calls[t].volume] = c]
        PROVE  contents'[Current(s)] = contents[Current(s)]
    <3>1. StoreHolds(OfStore(t))
      BY <1>0 DEF VolumeInv
    <3>2. calls[t].volume = Current(OfStore(t))
      BY <2>2, <3>1 DEF StoreHolds, HandlingHolds, TeardownHolds, IsOf, Handling, Tearing
    <3>3. Current(s) # calls[t].volume
      BY <1>0, <3>2, OwnVolumes DEF Current
    <3> QED BY <2>2, <3>3
  <2> QED BY <2>1, <2>2, LifeStepContents
<1>4. controllers'[s] = controllers[s] /\ epoch'[s] = epoch[s]
  <2>1. controllers \in [Store -> ControllerType] /\ epoch \in [Store -> Nat]
    BY DEF LifeInv, TypeOK, LifecycleTypeOK, ControllerType
  <2>2. CASE InitBegins(t)
    BY <1>0, <2>1, <2>2 DEF InitBegins
  <2>3. CASE InitEnds(t) \/ TeardownEnds(t)
    BY <1>0, <2>1, <2>3 DEF InitEnds, TeardownEnds
  <2>4. CASE TeardownBegins(t)
    BY <1>0, <2>1, <2>4 DEF TeardownBegins
  <2>5. CASE Notify(t)
    <3> DEFINE x == controllers[OfStore(t)].indexed \/ controllers[OfStore(t)].up
    <3>1. controllers' = [controllers EXCEPT ![OfStore(t)].indexed = x]
          /\ epoch' = epoch
      BY <2>5 DEF Notify
    <3> HIDE DEF x
    <3> QED BY <1>0, <2>1, <3>1
  <2>6. CASE UNCHANGED <<controllers, epoch>>
    BY <2>6
  <2> QED BY <2>2, <2>3, <2>4, <2>5, <2>6
          DEF LifeStep, InitRefused, InitFails, ResetLands, ResetFails, AskStrategy,
              AskRefused, InstallClient, PutLands, PutFails, Locate, GetLands
<1> QED BY <1>1, <1>2, <1>3, <1>4 DEF LeavesAlone

-----------------------------------------------------------------------------
(* The volumes: what the steps of a store do *)

(* A call that ends is no work on any store. *)
LEMMA EndsWork ==
  ASSUME LifeInv, NEW t \in Task, NEW how \in {"returned", "raised"}, Ends(t, how)
  PROVE  Moves(t) /\ calls'[t].stage \notin AtWork
<1>1. how \in Stages /\ how \notin AtWork /\ "idle" \notin AtWork
  BY DEF Stages, LifeStages, AtWork, Handling, Spawned, Tearing
<1> QED BY <1>1, EndsMoves DEF LifeInv, GoesOn, IsIdle

(* A step of a store keeps what holds of it.                               *)
LEMMA ItsOwnHolds ==
  ASSUME LifeInv, VolumeInv, NEW t \in Task, LifeStep(t),
         NEW s \in Store, OfStore(t) = s
  PROVE  StoreHolds(s)'
<1>0. /\ calls \in [Task -> CallType] /\ InOrder(calls[t]) /\ calls[t] \in CallType
      /\ controllers \in [Store -> ControllerType] /\ epoch \in [Store -> Nat]
      /\ controllers[s] \in ControllerType
      /\ clients \in [Process -> [Store -> Volumes \cup {Nothing}]]
      /\ DOMAIN contents = Volumes /\ Of[t] \in Process
      /\ calls[t].store = s
  BY DEF LifeInv, TypeOK, LifecycleTypeOK, ControllerType, OfStore
<1>h. StoreHolds(s)
  BY DEF VolumeInv
<1>p. {"get_id", "cleared", "reset", "go", "notify", "get", "install"} \subseteq Stages
  BY DEF Stages, LifeStages
<1>g. ASSUME NEW stage \in {"get_id", "cleared", "go", "notify", "get"}, Goto(t, stage)
      PROVE  GoesOn(t, stage)
  BY <1>0, <1>g, <1>p, GotoMoves
<1>e. ASSUME NEW how \in {"returned", "raised"}, Ends(t, how)
      PROVE  \A u \in Task : calls'[u] = calls[u] \/ ~IsOf(u, s, AtWork)'
  BY <1>e, EndsWork DEF Moves, IsOf
<1>q. \A u \in Task : calls[u].store = s <=> OfStore(u) = s
  BY DEF OfStore
<1> DEFINE c == controllers[s]
           v == calls[t].volume
<1>1. CASE InitBegins(t)
  <2>1. /\ calls[t].stage = "init" /\ ~controllers[s].up
        /\ controllers' = [controllers EXCEPT ![s].strategy = v, ![s].volumes = v]
        /\ epoch' = [epoch EXCEPT ![s] = calls[t].epoch]
        /\ GoesOn(t, "get_id") /\ UNCHANGED <<contents, clients>>
    BY <1>1, <1>g DEF InitBegins, At
  <2>2. /\ v = VolumeOf(s, calls[t].epoch) /\ calls[t].epoch = epoch[s] + 1
        /\ epoch[s] \in Nat /\ epoch'[s] = calls[t].epoch
    BY <1>0, <1>h, <2>1 DEF InOrder, Spawned, StoreHolds, InitHolds, IsOf
  <2>3. /\ controllers'[s].strategy = v /\ controllers'[s].volumes = v
        /\ ~controllers'[s].up /\ ~controllers'[s].indexed
    BY <1>0, <1>h, <2>1 DEF ControllerType, StoreHolds, ControllerHolds
  <2>4. /\ \A u \in Task : /\ ~IsOf(u, s, Handling)
                           /\ IsOf(u, s, Spawned) => u = t
                           /\ ~IsOf(u, s, Tearing)
        /\ \A p \in Process : clients[p][s] = Nothing
    BY <1>0, <1>h, <2>1 DEF StoreHolds, InitHolds, IsOf, Spawned
  <2>5. Current(s)' = v
    BY <2>2 DEF Current
  <2>6. \A u \in Task : /\ ~IsOf(u, s, Handling)'
                        /\ IsOf(u, s, Spawned)' => u = t
                        /\ ~IsOf(u, s, Tearing)'
    BY <2>1, <2>4 DEF GoesOn, Moves, IsOf, Handling, Spawned, Tearing
  <2>7. calls'[t].stage = "get_id" /\ calls'[t].epoch = calls[t].epoch
    BY <2>1 DEF GoesOn
  <2>8. ControllerHolds(s)' /\ ClientsHold(s)'
    BY <2>1, <2>3, <2>4, <2>5 DEF ControllerHolds, ClientsHold
  <2>9. HandlingHolds(s)' /\ TeardownHolds(s)'
    BY <2>6 DEF HandlingHolds, TeardownHolds, IsOf, Handling
  <2>10. InitHolds(s)'
    BY <2>1, <2>2, <2>3, <2>4, <2>5, <2>6, <2>7 DEF InitHolds
  <2> QED BY <2>8, <2>9, <2>10 DEF StoreHolds
<1>2. CASE InitRefused(t) \/ InitFails(t) \/ ResetFails(t) \/ AskRefused(t)
           \/ PutFails(t) \/ GetLands(t) \/ (Locate(t) /\ ~Located(t))
  <2>1. /\ UNCHANGED <<controllers, contents, epoch>>
        /\ Ends(t, "returned") \/ Ends(t, "raised")
    BY <1>2 DEF InitRefused, InitFails, ResetFails, AskRefused, PutFails, GetLands,
                Locate
  <2>2. \A p \in Process : clients'[p][s] \in {clients[p][s], Nothing}
    <3>1. UNCHANGED clients \/ Forget(Of[t], s)
      BY <1>2 DEF InitRefused, InitFails, ResetFails, AskRefused, PutFails, GetLands,
                  Locate, ResetsClient
    <3> QED BY <1>0, <3>1 DEF Forget
  <2>3. LeavesAlone(s)
    BY <1>e, <2>1, <2>2 DEF LeavesAlone
  <2> QED BY <1>h, <2>3, AloneHolds
<1>3. CASE TeardownEnds(t)
  <2>1. /\ controllers' = [controllers EXCEPT ![s].volumes = Nothing]
        /\ Ends(t, "returned") /\ UNCHANGED <<contents, epoch>>
        /\ UNCHANGED clients \/ Forget(Of[t], s)
    BY <1>3 DEF TeardownEnds, ResetsClient
  <2>2. \A p \in Process : clients'[p][s] \in {clients[p][s], Nothing}
    BY <1>0, <2>1 DEF Forget
  <2>3. /\ controllers'[s].up = controllers[s].up
        /\ controllers'[s].indexed = controllers[s].indexed
        /\ controllers'[s].strategy = controllers[s].strategy
        /\ controllers'[s].volumes = Nothing
    BY <1>0, <2>1 DEF ControllerType
  <2>4. LeavesAlone(s)
    BY <1>e, <2>1, <2>2, <2>3 DEF LeavesAlone
  <2> QED BY <1>h, <2>4, AloneHolds
<1>4. CASE InitEnds(t)
  <2>1. /\ calls[t].stage = "get_id"
        /\ controllers' = [controllers EXCEPT ![s].up = TRUE]
        /\ Ends(t, "returned") /\ UNCHANGED <<contents, clients, epoch>>
    BY <1>4 DEF InitEnds, At
  <2>2. /\ calls[t].epoch = epoch[s] /\ ~controllers[s].up /\ epoch[s] > 0
        /\ controllers[s].strategy = Current(s) /\ ~controllers[s].indexed
        /\ \A u \in Task : /\ ~IsOf(u, s, Handling)
                           /\ IsOf(u, s, Spawned) => u = t
                           /\ ~IsOf(u, s, Tearing)
        /\ \A p \in Process : clients[p][s] = Nothing
    <3>1. IsOf(t, s, Spawned)
      BY <1>0, <2>1 DEF IsOf, Spawned
    <3>2. calls[t].epoch = epoch[s] /\ ~controllers[s].up
          /\ controllers[s].strategy = Current(s)
      BY <1>h, <2>1, <3>1 DEF StoreHolds, InitHolds
    <3>3. calls[t].epoch \in 1..MaxInit[s]
      BY <1>0, <2>1 DEF InOrder, Spawned
    <3>4. epoch[s] > 0
      BY <3>2, <3>3
    <3> QED BY <1>h, <3>1, <3>2, <3>4 DEF StoreHolds, InitHolds, ControllerHolds
  <2>3. /\ controllers'[s].up /\ ~controllers'[s].indexed
        /\ controllers'[s].strategy = controllers[s].strategy
        /\ controllers'[s].volumes = controllers[s].volumes
    BY <1>0, <2>1, <2>2 DEF ControllerType
  <2>4. \A u \in Task : ~IsOf(u, s, AtWork)'
    BY <1>e, <2>1, <2>2, EndsWork DEF IsOf, AtWork, Moves, Spawned
  <2>5. Current(s)' = Current(s)
    BY <2>1 DEF Current
  <2>6. ControllerHolds(s)' /\ ClientsHold(s)'
    BY <1>h, <2>1, <2>2, <2>3, <2>5 DEF ControllerHolds, ClientsHold, StoreHolds
  <2>7. HandlingHolds(s)' /\ TeardownHolds(s)' /\ InitHolds(s)'
    BY <2>4 DEF HandlingHolds, TeardownHolds, InitHolds, IsOf, AtWork, Handling
  <2> QED BY <2>6, <2>7 DEF StoreHolds
<1>5. CASE TeardownBegins(t)
  <2> DEFINE w    == c.volumes
             next == IF w = Nothing THEN "cleared" ELSE "reset"
  <2>1. /\ calls[t].stage = "teardown"
        /\ controllers' = [controllers EXCEPT ![s].up = FALSE, ![s].indexed = FALSE,
                                              ![s].strategy = Nothing]
        /\ calls' = [calls EXCEPT ![t].volume = w, ![t].stage = next]
        /\ UNCHANGED <<contents, clients, epoch>>
    BY <1>5 DEF TeardownBegins, At
  <2>2. /\ w \in {Nothing, Current(s)} /\ epoch[s] > 0
        /\ \A u \in Task : ~IsOf(u, s, Spawned)
    <3>1. IsOf(t, s, Tearing)
      BY <1>0, <2>1 DEF IsOf, Tearing
    <3> QED BY <1>h, <3>1 DEF StoreHolds, ControllerHolds, TeardownHolds, InitHolds
  <2>3. /\ ~controllers'[s].up /\ ~controllers'[s].indexed
        /\ controllers'[s].volumes = w
    BY <1>0, <2>1 DEF ControllerType
  <2>4. next \in {"cleared", "reset"} /\ (next = "reset" => w # Nothing)
    OBVIOUS
  <2> HIDE DEF next
  <2>5. /\ calls'[t].stage = next /\ calls'[t].volume = w /\ calls'[t].store = s
        /\ \A u \in Task \ {t} : calls'[u] = calls[u]
    BY <1>0, <2>1 DEF CallType
  <2>6. Current(s)' = Current(s) /\ Own(s)' = Own(s)
    BY <2>1 DEF Current, Own
  <2>7. \A u \in Task : /\ IsOf(u, s, Handling)' => u # t /\ IsOf(u, s, Handling)
                        /\ ~IsOf(u, s, Spawned)'
    BY <2>2, <2>4, <2>5 DEF IsOf, Handling, Spawned
  <2>8. ControllerHolds(s)' /\ ClientsHold(s)'
    BY <1>h, <2>1, <2>2, <2>3, <2>6 DEF ControllerHolds, ClientsHold, StoreHolds
  <2>9. HandlingHolds(s)'
    <3>1. \A u \in Task : IsOf(u, s, {"get"})' => IsOf(u, s, Handling)'
      BY DEF IsOf, Handling
    <3>2. \A u \in Task : IsOf(u, s, {"get"})' => IsOf(u, s, {"get"})
      BY <2>4, <2>5 DEF IsOf
    <3> QED BY <1>h, <2>1, <2>3, <2>5, <2>6, <2>7, <3>1, <3>2
            DEF HandlingHolds, StoreHolds
  <2>10. InitHolds(s)'
    BY <2>7 DEF InitHolds
  <2>11. TeardownHolds(s)'
    <3>1. \A u \in Task : IsOf(u, s, Tearing)' => u = t \/ IsOf(u, s, Tearing)
      BY <2>5 DEF IsOf
    <3> QED BY <1>h, <2>1, <2>2, <2>3, <2>4, <2>5, <2>6, <3>1
            DEF TeardownHolds, StoreHolds, IsOf
  <2> QED BY <2>8, <2>9, <2>10, <2>11 DEF StoreHolds
<1>6. CASE ResetLands(t)
  <2>1. /\ calls[t].stage = "reset" /\ GoesOn(t, "cleared")
        /\ contents' = [contents EXCEPT ![v] = Nothing]
        /\ UNCHANGED <<controllers, clients, epoch>>
    BY <1>6, <1>g DEF ResetLands, At
  <2>2. IsOf(t, s, Tearing)
    BY <1>0, <2>1 DEF IsOf, Tearing
  <2>3. ~controllers[s].up /\ v = Current(s) /\ epoch[s] > 0
        /\ \A u \in Task : ~IsOf(u, s, Spawned)
    BY <1>h, <2>1, <2>2 DEF StoreHolds, TeardownHolds, InitHolds
  <2>4. contents'[Current(s)] \in {Nothing, contents[Current(s)]}
        /\ (Current(s) \in Volumes => contents'[Current(s)] = Nothing)
    BY <1>0, <2>1, <2>3
  <2>5. Current(s)' = Current(s) /\ Own(s)' = Own(s)
    BY <2>1 DEF Current, Own
  <2>6. \A u \in Task : /\ IsOf(u, s, Handling)' => u # t
                        /\ ~IsOf(u, s, Spawned)'
    BY <2>1, <2>3 DEF IsOf, Handling, Spawned, GoesOn, Moves
  <2>7. ControllerHolds(s)' /\ ClientsHold(s)'
    BY <1>h, <2>1, <2>3, <2>5 DEF ControllerHolds, ClientsHold, StoreHolds
  <2>8. HandlingHolds(s)'
    <3>1. \A u \in Task : u # t => calls'[u] = calls[u]
      BY <2>1 DEF GoesOn, Moves
    <3>2. \A u \in Task : IsOf(u, s, {"get"})' => IsOf(u, s, {"get"})
      BY <2>1, <3>1 DEF IsOf, GoesOn
    <3>3. \A u \in Task : IsOf(u, s, Handling)' => IsOf(u, s, Handling)
      BY <2>6, <3>1 DEF IsOf
    <3> QED BY <1>h, <2>1, <2>3, <2>4, <2>5, <2>6, <3>1, <3>2, <3>3
            DEF HandlingHolds, StoreHolds
  <2>9. InitHolds(s)'
    BY <2>6 DEF InitHolds
  <2>10. TeardownHolds(s)'
    BY <1>h, <2>1, <2>3, <2>5 DEF TeardownHolds, StoreHolds, IsOf, GoesOn, Moves
  <2> QED BY <2>7, <2>8, <2>9, <2>10 DEF StoreHolds
<1>7. CASE AskStrategy(t)
  <2>1. /\ calls[t].stage = "ask" /\ c.up
        /\ calls' = [calls EXCEPT ![t].volume = c.strategy, ![t].epoch = epoch[s],
                                  ![t].stage = "install"]
        /\ UNCHANGED <<controllers, contents, clients, epoch>>
    BY <1>7 DEF AskStrategy, At
  <2>2. /\ calls'[t].stage = "install" /\ calls'[t].volume = c.strategy
        /\ calls'[t].epoch = epoch[s] /\ calls'[t].store = s
        /\ \A u \in Task \ {t} : calls'[u] = calls[u]
    BY <1>0, <2>1 DEF CallType
  <2>3. c.strategy = Current(s) /\ epoch[s] > 0
    BY <1>h, <2>1 DEF StoreHolds, ControllerHolds
  <2>4. Current(s)' = Current(s) /\ Own(s)' = Own(s)
    BY <2>1 DEF Current, Own
  <2>5. \A u \in Task : \A S \in {Spawned, Tearing, {"notify"}, {"get"}} :
          IsOf(u, s, S)' => calls'[u] = calls[u] /\ IsOf(u, s, S)
    BY <2>2 DEF IsOf, Spawned, Tearing
  <2>6. \A u \in Task : IsOf(u, s, Handling)' => u = t
                          \/ (calls'[u] = calls[u] /\ IsOf(u, s, Handling))
    BY <2>2 DEF IsOf
  <2>7. ControllerHolds(s)' /\ ClientsHold(s)'
    BY <1>h, <2>1, <2>4 DEF ControllerHolds, ClientsHold, StoreHolds
  <2>8. HandlingHolds(s)'
    <3>1. calls'[t].volume = Current(s) /\ calls'[t].epoch = epoch[s]
      BY <2>2, <2>3
    <3> QED BY <1>h, <2>1, <2>3, <2>4, <2>5, <2>6, <3>1 DEF HandlingHolds, StoreHolds
  <2>9. InitHolds(s)'
    BY <1>h, <2>1, <2>4, <2>5 DEF InitHolds, StoreHolds
  <2>10. TeardownHolds(s)'
    BY <1>h, <2>1, <2>4, <2>5 DEF TeardownHolds, StoreHolds
  <2> QED BY <2>7, <2>8, <2>9, <2>10 DEF StoreHolds
<1>8. CASE InstallClient(t)
  <2>1. /\ calls[t].stage = "install" /\ GoesOn(t, "go")
        /\ clients' = [clients EXCEPT ![Of[t]][s] = v]
        /\ UNCHANGED <<controllers, contents, epoch>>
    BY <1>8, <1>g DEF InstallClient, At
  <2>2. IsOf(t, s, Handling)
    BY <1>0, <2>1 DEF IsOf, Handling
  <2>3. v = Current(s) /\ epoch[s] > 0 /\ calls[t].epoch = epoch[s]
    BY <1>h, <2>2 DEF StoreHolds, HandlingHolds
  <2>4. Current(s)' = Current(s) /\ Own(s)' = Own(s)
    BY <2>1 DEF Current, Own
  <2>5. \A p \in Process : clients'[p][s] \in {clients[p][s], v}
    BY <1>0, <2>1
  <2>6. \A u \in Task : \A S \in {Spawned, Tearing, {"notify"}, {"get"}} :
          IsOf(u, s, S)' => calls'[u] = calls[u] /\ IsOf(u, s, S)
    BY <2>1 DEF IsOf, Spawned, Tearing, GoesOn, Moves
  <2>7. ControllerHolds(s)'
    BY <1>h, <2>1, <2>4 DEF ControllerHolds, StoreHolds
  <2>8. ClientsHold(s)'
    BY <1>h, <2>1, <2>3, <2>4, <2>5 DEF ClientsHold, StoreHolds
  <2>9. HandlingHolds(s)'
    <3>1. \A u \in Task : IsOf(u, s, Handling)' => u = t
                            \/ (calls'[u] = calls[u] /\ IsOf(u, s, Handling))
      BY <2>1 DEF GoesOn, Moves, IsOf
    <3>2. calls'[t].volume = Current(s) /\ calls'[t].epoch = epoch[s]
      BY <2>1, <2>3 DEF GoesOn
    <3> QED BY <1>h, <2>1, <2>3, <2>4, <2>6, <3>1, <3>2 DEF HandlingHolds, StoreHolds
  <2>10. InitHolds(s)'
    <3>1. \A u \in Task : IsOf(u, s, Spawned)' => controllers[s].up
      BY <1>h, <2>2, <2>6 DEF InitHolds, StoreHolds
    <3> QED BY <1>h, <2>1, <2>4, <2>6, <3>1 DEF InitHolds, StoreHolds
  <2>11. TeardownHolds(s)'
    BY <1>h, <2>1, <2>4, <2>6 DEF TeardownHolds, StoreHolds
  <2> QED BY <2>7, <2>8, <2>9, <2>10, <2>11 DEF StoreHolds
<1>9. CASE PutLands(t)
  <2>1. /\ calls[t].stage = "go" /\ GoesOn(t, "notify")
        /\ contents' = [contents EXCEPT ![v] = <<s, calls[t].epoch>>]
        /\ UNCHANGED <<controllers, clients, epoch>>
    BY <1>9, <1>g DEF PutLands, At
  <2>2. IsOf(t, s, Handling)
    BY <1>0, <2>1 DEF IsOf, Handling
  <2>3. v = Current(s) /\ epoch[s] > 0 /\ calls[t].epoch = epoch[s]
    BY <1>h, <2>2 DEF StoreHolds, HandlingHolds
  <2>4. Current(s)' = Current(s) /\ Own(s)' = Own(s)
    BY <2>1 DEF Current, Own
  <2>5. contents'[Current(s)] = Own(s)
    <3>1. v \in Volumes
      <4>1. epoch[s] \in 1..MaxInit[s]
        BY <2>3 DEF LifeInv, TypeOK, LifecycleTypeOK
      <4> QED BY <2>3, <4>1, VolumesOfEpochs DEF Current
    <3> QED BY <1>0, <2>1, <2>3, <3>1 DEF Own
  <2>6. \A u \in Task : /\ u # t => calls'[u] = calls[u]
                        /\ IsOf(u, s, Handling)' => u = t \/ IsOf(u, s, Handling)
                        /\ IsOf(u, s, Spawned)' => u # t /\ IsOf(u, s, Spawned)
                        /\ IsOf(u, s, Tearing)' => u # t /\ IsOf(u, s, Tearing)
    BY <2>1 DEF IsOf, Spawned, Tearing, GoesOn, Moves
  <2>7. ControllerHolds(s)' /\ ClientsHold(s)'
    BY <1>h, <2>1, <2>4, <2>5 DEF ControllerHolds, ClientsHold, StoreHolds
  <2>8. HandlingHolds(s)'
    <3>1. calls'[t].volume = Current(s) /\ calls'[t].epoch = epoch[s]
      BY <2>1, <2>3 DEF GoesOn
    <3> QED BY <1>h, <2>1, <2>3, <2>4, <2>5, <2>6, <3>1 DEF HandlingHolds, StoreHolds
  <2>9. InitHolds(s)'
    <3>1. \A u \in Task : IsOf(u, s, Spawned)' => controllers[s].up
      BY <1>h, <2>2, <2>6 DEF InitHolds, StoreHolds
    <3> QED BY <1>h, <2>1, <2>4, <2>6, <3>1 DEF InitHolds, StoreHolds
  <2>10. TeardownHolds(s)'
    BY <1>h, <2>1, <2>4, <2>6 DEF TeardownHolds, StoreHolds
  <2> QED BY <2>7, <2>8, <2>9, <2>10 DEF StoreHolds
<1>10. CASE Notify(t)
  <2> DEFINE x == c.indexed \/ c.up
  <2>1. /\ calls[t].stage = "notify"
        /\ controllers' = [controllers EXCEPT ![s].indexed = x]
        /\ Ends(t, "returned") \/ Ends(t, "raised")
        /\ UNCHANGED <<contents, clients, epoch>>
    BY <1>10 DEF Notify, At
  <2>2. /\ ~c.up => ~c.indexed
        /\ c.up => contents[Current(s)] \in {Own(s), Gone}
    <3>1. IsOf(t, s, {"notify"})
      BY <1>0, <2>1 DEF IsOf
    <3> QED BY <1>h, <3>1 DEF StoreHolds, ControllerHolds, HandlingHolds
  <2>3. /\ controllers'[s].up = c.up /\ controllers'[s].indexed = x
        /\ controllers'[s].strategy = c.strategy /\ controllers'[s].volumes = c.volumes
    BY <1>0, <2>1 DEF ControllerType
  <2>4. Current(s)' = Current(s) /\ Own(s)' = Own(s)
    BY <2>1 DEF Current, Own
  <2>5. \A u \in Task : \A S \in {Handling, Spawned, Tearing, {"notify"}, {"get"}} :
          IsOf(u, s, S)' => calls'[u] = calls[u] /\ IsOf(u, s, S)
    BY <1>e, <2>1 DEF IsOf, AtWork, Handling
  <2>6. ControllerHolds(s)' /\ ClientsHold(s)'
    BY <1>h, <2>1, <2>2, <2>3, <2>4 DEF ControllerHolds, ClientsHold, StoreHolds
  <2>7. HandlingHolds(s)'
    BY <1>h, <2>1, <2>3, <2>4, <2>5 DEF HandlingHolds, StoreHolds
  <2>8. InitHolds(s)'
    BY <1>h, <2>1, <2>3, <2>4, <2>5 DEF InitHolds, StoreHolds
  <2>9. TeardownHolds(s)'
    BY <1>h, <2>1, <2>3, <2>4, <2>5 DEF TeardownHolds, StoreHolds
  <2> QED BY <2>6, <2>7, <2>8, <2>9 DEF StoreHolds
<1>11. CASE Locate(t) /\ Located(t)
  <2>1. /\ calls[t].stage = "go" /\ GoesOn(t, "get") /\ c.up /\ c.indexed
        /\ UNCHANGED <<controllers, contents, clients, epoch>>
    BY <1>11, <1>g DEF Locate, Located, At
  <2>2. IsOf(t, s, Handling)
    BY <1>0, <2>1 DEF IsOf, Handling
  <2>3. /\ v = Current(s) /\ epoch[s] > 0 /\ calls[t].epoch = epoch[s]
        /\ contents[Current(s)] \in {Own(s), Gone}
    BY <1>h, <2>1, <2>2 DEF StoreHolds, HandlingHolds, ControllerHolds
  <2>4. Current(s)' = Current(s) /\ Own(s)' = Own(s)
    BY <2>1 DEF Current, Own
  <2>5. \A u \in Task : /\ u # t => calls'[u] = calls[u]
                        /\ IsOf(u, s, Handling)' => u = t \/ IsOf(u, s, Handling)
                        /\ IsOf(u, s, Spawned)' => u # t /\ IsOf(u, s, Spawned)
                        /\ IsOf(u, s, Tearing)' => u # t /\ IsOf(u, s, Tearing)
                        /\ IsOf(u, s, {"notify"})' => u # t /\ IsOf(u, s, {"notify"})
    BY <2>1 DEF IsOf, Spawned, Tearing, GoesOn, Moves
  <2>6. ControllerHolds(s)' /\ ClientsHold(s)'
    BY <1>h, <2>1, <2>4 DEF ControllerHolds, ClientsHold, StoreHolds
  <2>7. HandlingHolds(s)'
    <3>1. calls'[t].volume = Current(s) /\ calls'[t].epoch = epoch[s]
      BY <2>1, <2>3 DEF GoesOn
    <3>2. \A u \in Task : IsOf(u, s, {"get"})' => u = t \/ IsOf(u, s, {"get"})
      BY <2>5 DEF IsOf
    <3> QED BY <1>h, <2>1, <2>3, <2>4, <2>5, <3>1, <3>2 DEF HandlingHolds, StoreHolds
  <2>8. InitHolds(s)'
    BY <1>h, <2>1, <2>4, <2>5 DEF InitHolds, StoreHolds
  <2>9. TeardownHolds(s)'
    BY <1>h, <2>1, <2>4, <2>5 DEF TeardownHolds, StoreHolds
  <2> QED BY <2>6, <2>7, <2>8, <2>9 DEF StoreHolds
<1> QED BY <1>1, <1>2, <1>3, <1>4, <1>5, <1>6, <1>7, <1>8, <1>9, <1>10, <1>11
        DEF LifeStep

-----------------------------------------------------------------------------
(* The volumes: what begins, and the session *)

(* An initialize that spawns its volumes finds nobody at work.             *)
LEMMA SpawnHolds ==
  ASSUME NEW s \in Store, StoreHolds(s), NEW t \in Task, Moves(t),
         UNCHANGED <<controllers, contents, clients, epoch>>,
         calls'[t].stage = "init", calls'[t].epoch = epoch[s] + 1,
         \A u \in Task : ~IsOf(u, s, AtWork),
         \A p \in Process : clients[p][s] = Nothing
  PROVE  StoreHolds(s)'
<1> USE DEF StoreHolds
<1>1. Current(s)' = Current(s) /\ Own(s)' = Own(s)
  BY DEF Current, Own
<1>2. \A u \in Task : /\ ~IsOf(u, s, Handling)' /\ ~IsOf(u, s, Tearing)'
                      /\ IsOf(u, s, Spawned)' => u = t
                      /\ ~IsOf(u, s, {"notify"})' /\ ~IsOf(u, s, {"get"})'
  BY DEF Moves, IsOf, AtWork, Handling, Tearing, Spawned
<1>3. ControllerHolds(s)' /\ ClientsHold(s)'
  BY <1>1 DEF ControllerHolds, ClientsHold
<1>4. HandlingHolds(s)' /\ TeardownHolds(s)'
  BY <1>2 DEF HandlingHolds, TeardownHolds
<1>5. InitHolds(s)'
  BY <1>2 DEF InitHolds
<1> QED BY <1>3, <1>4, <1>5

(* A teardown may start whatever else goes on.                             *)
LEMMA TeardownStarts ==
  ASSUME NEW s \in Store, StoreHolds(s), NEW t \in Task, Moves(t),
         UNCHANGED <<controllers, contents, clients, epoch>>,
         calls'[t].stage = "teardown", epoch[s] > 0,
         \A u \in Task : ~IsOf(u, s, Spawned)
  PROVE  StoreHolds(s)'
<1> USE DEF StoreHolds
<1>1. Current(s)' = Current(s) /\ Own(s)' = Own(s)
  BY DEF Current, Own
<1>2. \A u \in Task : \A S \in {Handling, {"notify"}, {"get"}} :
        IsOf(u, s, S)' => calls'[u] = calls[u] /\ IsOf(u, s, S)
  BY DEF Moves, IsOf, Handling
<1>3. \A u \in Task : ~IsOf(u, s, Spawned)'
  BY DEF Moves, IsOf, Spawned
<1>4. \A u \in Task : IsOf(u, s, Tearing)' => u = t
                        \/ (calls'[u] = calls[u] /\ IsOf(u, s, Tearing))
  BY DEF Moves, IsOf
<1>5. ControllerHolds(s)' /\ ClientsHold(s)'
  BY <1>1 DEF ControllerHolds, ClientsHold
<1>6. HandlingHolds(s)'
  BY <1>1, <1>2 DEF HandlingHolds
<1>7. InitHolds(s)'
  BY <1>3 DEF InitHolds
<1>8. TeardownHolds(s)'
  BY <1>1, <1>4 DEF TeardownHolds
<1> QED BY <1>5, <1>6, <1>7, <1>8

(* A call with a cached client works on the store as it is.                *)
LEMMA CachedCallHolds ==
  ASSUME NEW s \in Store, StoreHolds(s), NEW t \in Task, Moves(t),
         UNCHANGED <<controllers, contents, clients, epoch>>,
         Of[t] \in Process, clients[Of[t]][s] # Nothing,
         calls'[t].stage = "go", calls'[t].volume = clients[Of[t]][s],
         calls'[t].epoch = epoch[s]
  PROVE  StoreHolds(s)'
<1> USE DEF StoreHolds
<1>1. Current(s)' = Current(s) /\ Own(s)' = Own(s)
  BY DEF Current, Own
<1>2. calls'[t].volume = Current(s) /\ epoch[s] > 0
  BY DEF ClientsHold
<1>3. \A u \in Task : \A S \in {Spawned, Tearing, {"notify"}, {"get"}} :
        IsOf(u, s, S)' => calls'[u] = calls[u] /\ IsOf(u, s, S)
  BY DEF Moves, IsOf, Spawned, Tearing
<1>4. \A u \in Task : IsOf(u, s, Handling)' => u = t
                        \/ (calls'[u] = calls[u] /\ IsOf(u, s, Handling))
  BY DEF Moves, IsOf
<1>5. ControllerHolds(s)' /\ ClientsHold(s)'
  BY <1>1 DEF ControllerHolds, ClientsHold
<1>6. HandlingHolds(s)'
  BY <1>1, <1>2, <1>3, <1>4 DEF HandlingHolds
<1>7. InitHolds(s)'
  <2>1. \A u \in Task : IsOf(u, s, Spawned)' => controllers[s].up
    BY <1>3 DEF InitHolds
  <2> QED BY <1>1, <1>3, <2>1 DEF InitHolds
<1>8. TeardownHolds(s)'
  BY <1>1, <1>3 DEF TeardownHolds
<1> QED BY <1>5, <1>6, <1>7, <1>8

(* The start of a call keeps what holds of every store.                    *)
LEMMA StartsHold ==
  ASSUME SessionInv, VolumeInv, NEW t \in Task, Starts(t)
  PROVE  VolumeInv'
<1> SUFFICES ASSUME NEW s \in Store PROVE StoreHolds(s)'
  BY DEF VolumeInv
<1>h. StoreHolds(s) /\ LifeInv /\ Of[t] \in Process
  BY DEF VolumeInv, SessionInv
<1>0. /\ Moves(t) /\ calls[t].stage = "idle"
      /\ UNCHANGED <<controllers, contents, clients, epoch>>
  BY <1>h, StartsMove
<1>i. \A u \in Task : InOrder(calls[u]) /\ calls[u] \in CallType
  BY <1>h DEF LifeInv
<1>n. \A u \in Task : calls[u].stage \in Spawned => calls[u].op = "initialize"
  BY <1>i DEF InOrder, CallType, Spawned, Tearing, Handling
<1>a. ASSUME calls'[t].store # s \/ calls'[t].stage \notin AtWork
      PROVE  StoreHolds(s)'
  <2>1. LeavesAlone(s)
    BY <1>0, <1>a DEF LeavesAlone, Moves, IsOf, Current
  <2> QED BY <1>h, <2>1, AloneHolds
<1>b. {"ask", "join", "status"} \cap AtWork = {}
  BY DEF AtWork, Handling, Spawned, Tearing
<1>1. ASSUME NEW q \in Store, Initialize(t, q), calls'[t].store = q,
             calls'[t].stage = "init", calls'[t].epoch = epoch[q] + 1
      PROVE  StoreHolds(s)'
  <2>1. CASE q = s
    <3>1. /\ \A u \in Task : calls[u].store # s
          /\ \A p \in Process : clients[p][s] = Nothing
      BY <1>1, <2>1 DEF Initialize, Quiet, OfStore
    <3> QED BY <1>h, <1>0, <1>1, <2>1, <3>1, SpawnHolds DEF IsOf
  <2> QED BY <1>1, <1>a, <2>1
<1>2. ASSUME NEW q \in Store, PlainShutdown(t, q), calls'[t].store = q,
             calls'[t].stage = "teardown"
      PROVE  StoreHolds(s)'
  <2>1. CASE q = s
    <3>1. epoch[s] > 0 /\ \A u \in Task : calls[u].op = "initialize"
                                            => calls[u].store # s
      BY <1>2, <2>1 DEF PlainShutdown, Shutdown, Settled, OfStore
    <3>2. \A u \in Task : ~IsOf(u, s, Spawned)
      BY <1>n, <3>1 DEF IsOf
    <3> QED BY <1>h, <1>0, <1>2, <3>1, <3>2, TeardownStarts
  <2> QED BY <1>2, <1>a, <2>1
<1>3. ASSUME NEW q \in Store, calls'[t].store = q,
             LET v == clients[Of[t]][q]
             IN  IF v = Nothing THEN calls'[t].stage = "ask"
                 ELSE /\ calls'[t].stage = "go" /\ calls'[t].volume = v
                      /\ calls'[t].epoch = epoch[q]
      PROVE  StoreHolds(s)'
  <2>1. CASE q = s /\ clients[Of[t]][s] # Nothing
    BY <1>h, <1>0, <1>3, <2>1, CachedCallHolds
  <2>2. CASE q # s \/ clients[Of[t]][s] = Nothing
    BY <1>3, <1>a, <1>b, <2>2
  <2> QED BY <2>1, <2>2
<1>4. CASE calls'[t].stage = "join"
  BY <1>4, <1>a, <1>b
<1>5. CASE /\ SpmdShutdown(t) /\ calls'[t].store = Collective
           /\ calls'[t].stage = IF Primarily(t) THEN "teardown" ELSE "status"
  <2>1. CASE Of[t] = Primary /\ s = Collective
    <3>1. rendezvous.controller /\ epoch[s] > 0
      BY <1>5, <2>1 DEF SpmdShutdown, SessionInv, StartsOnce
    <3>2. \A u \in Task : ~IsOf(u, s, Spawned)
      <4>1. \A u \in Task : IsOf(u, s, Spawned) => Starting(u)
        BY <1>n, <2>1
           DEF SessionInv, PeersOnlyWait, IsOf, Starting, Spawned
      <4> QED BY <3>1, <4>1 DEF SessionInv, StartsOnce
    <3> QED BY <1>h, <1>0, <1>5, <2>1, <3>1, <3>2, TeardownStarts DEF Primarily
  <2>2. CASE Of[t] # Primary \/ s # Collective
    BY <1>5, <1>a, <1>b, <2>2 DEF Primarily
  <2> QED BY <2>1, <2>2
<1> QED BY <1>h, <1>1, <1>2, <1>3, <1>4, <1>5, StartsMove

(* A step of the session keeps what holds of every store.                  *)
LEMMA SessionStepHolds ==
  ASSUME SessionInv, VolumeInv, NEW t \in Task, SessionStep(t)
  PROVE  VolumeInv'
<1> SUFFICES ASSUME NEW s \in Store PROVE StoreHolds(s)'
  BY DEF VolumeInv
<1>0. /\ StoreHolds(s) /\ LifeInv
      /\ calls \in [Task -> CallType] /\ InOrder(calls[t]) /\ calls[t] \in CallType
      /\ clients \in [Process -> [Store -> Volumes \cup {Nothing}]]
      /\ DOMAIN contents = Volumes
  BY DEF VolumeInv, SessionInv, LifeInv, TypeOK, LifecycleTypeOK
<1>p. /\ {"attach", "controller", "kill", "mesh", "raised"} \subseteq Stages
      /\ {"attach", "controller", "kill", "mesh", "raised", "join", "idle"}
           \cap AtWork = {}
  BY DEF Stages, LifeStages, AtWork, Handling, Spawned, Tearing
<1>g. ASSUME \/ Finished(t)
             \/ \E stage \in {"attach", "controller", "kill", "mesh", "raised"} :
                  Goto(t, stage)
      PROVE  Moves(t) /\ calls'[t].stage \notin AtWork
  BY <1>0, <1>g, <1>p, FinishedMoves, GotoMoves DEF GoesOn, IsIdle
<1>a. ASSUME Moves(t), calls'[t].stage \notin AtWork,
             UNCHANGED <<controllers, epoch>>,
             \A p \in Process : clients'[p][s] \in {clients[p][s], Nothing},
             \A v \in Volumes : contents'[v] \in {contents[v], Gone}
      PROVE  StoreHolds(s)'
  <2>1. epoch[s] > 0 => Current(s) \in Volumes
    <3>1. epoch[s] \in 0..MaxInit[s] /\ MaxInit[s] \in Nat
      BY LifecycleAssumption DEF SessionInv, LifeInv
    <3>2. epoch[s] > 0 => epoch[s] \in 1..MaxInit[s]
      BY <3>1
    <3> QED BY <3>2, VolumesOfEpochs DEF Current
  <2>2. LeavesAlone(s)
    BY <1>a, <2>1 DEF LeavesAlone, Moves, IsOf
  <2> QED BY <1>0, <2>2, AloneHolds
<1>f. ASSUME Moves(t), calls'[t].stage \notin AtWork,
             UNCHANGED <<controllers, contents, epoch>>,
             \/ UNCHANGED clients
             \/ \E p \in Process, q \in Store : Forget(p, q)
      PROVE  StoreHolds(s)'
  <2>1. \A p \in Process : clients'[p][s] \in {clients[p][s], Nothing}
    <3>1. ASSUME NEW r \in Process, NEW q \in Store, Forget(r, q)
          PROVE  \A p \in Process : clients'[p][s] \in {clients[p][s], Nothing}
      BY <1>0, <3>1 DEF Forget
    <3> QED BY <1>f, <3>1
  <2> QED BY <1>f, <2>1, <1>a
<1>1. CASE Attach(t)
  <2>1. /\ calls[t].stage = "attach" /\ Spawn(t, Collective, "spmd")
        /\ calls[t].op = "initialize" /\ calls[t].caller = "spmd"
    BY <1>0, <1>1 DEF Attach, At, InOrder, CallType, Spawned, Tearing, Handling
  <2>2. Starting(t) /\ epoch[Collective] = 0 /\ Collective \in Store
    BY <2>1 DEF Starting, SessionInv, PeersOnlyWait, StartsOnce
  <2>3. /\ Moves(t) /\ UNCHANGED <<controllers, contents, clients, epoch>>
        /\ calls'[t].stage = "init" /\ calls'[t].store = Collective
        /\ calls'[t].epoch = epoch[Collective] + 1
    <3>1. "spmd" \in {"api", "spmd"}
      OBVIOUS
    <3> QED BY <1>0, <2>1, <2>2, <3>1, SpawnInOrder
  <2>4. CASE s = Collective
    <3>1. \A u \in Task : /\ ~IsOf(u, s, Handling) /\ ~IsOf(u, s, Tearing)
                          /\ ~IsOf(u, s, Spawned)
      <4>1. \A u \in Task : ~IsOf(u, s, Handling) /\ ~IsOf(u, s, Tearing)
        BY <1>0, <2>2, <2>4 DEF StoreHolds, HandlingHolds, TeardownHolds
      <4>2. \A u \in Task : IsOf(u, s, Spawned) => Starting(u)
        <5>1. \A u \in Task : calls[u].stage \in Spawned => calls[u].op = "initialize"
          BY <1>0 DEF LifeInv, InOrder, CallType, Spawned, Tearing, Handling
        <5> QED BY <2>4, <5>1 DEF SessionInv, PeersOnlyWait, IsOf, Starting, Spawned
      <4>3. \A u \in Task : Starting(u) => u = t
        BY <2>2 DEF SessionInv, StartsOnce
      <4> QED BY <2>1, <4>1, <4>2, <4>3 DEF IsOf, Spawned
    <3>2. \A p \in Process : clients[p][s] = Nothing
      <4>1. epoch[s] = 0
        BY <2>2, <2>4
      <4>2. \A p \in Process : clients[p][s] # Nothing => epoch[s] > 0
        BY <1>0 DEF StoreHolds, ClientsHold
      <4>3. ~(epoch[s] > 0)
        BY <4>1
      <4> QED BY <4>2, <4>3
    <3>3. \A u \in Task : ~IsOf(u, s, AtWork)
      BY <3>1 DEF IsOf, AtWork
    <3> QED BY <1>0, <2>3, <2>4, <3>2, <3>3, SpawnHolds
  <2>5. CASE s # Collective
    <3>1. LeavesAlone(s)
      BY <2>3, <2>5 DEF LeavesAlone, Moves, IsOf, Current
    <3> QED BY <1>0, <3>1, AloneHolds
  <2> QED BY <2>4, <2>5
<1>2. CASE StopMesh(t)
  <2>1. /\ Moves(t) /\ calls'[t].stage \notin AtWork
        /\ UNCHANGED <<controllers, clients, epoch>>
        /\ \/ contents' = contents
           \/ contents' = [contents EXCEPT ![CollectiveVolume] = Gone]
    BY <1>2, <1>g DEF StopMesh
  <2>2. \A v \in Volumes : contents'[v] \in {contents[v], Gone}
    BY <1>0, <2>1
  <2> QED BY <2>1, <2>2, <1>a
<1>3. CASE Join(t)
  <2>1. /\ calls[t].stage = "join"
        /\ (UNCHANGED calls \/ Goto(t, "controller"))
        /\ UNCHANGED <<controllers, contents, clients, epoch>>
    BY <1>3 DEF Join, At
  <2>2. CASE UNCHANGED calls
    <3>1. Moves(t) /\ calls'[t].stage \notin AtWork
      BY <1>0, <1>p, <2>1, <2>2 DEF Moves
    <3> QED BY <1>f, <2>1, <3>1
  <2>3. CASE Goto(t, "controller")
    BY <1>f, <1>g, <2>1, <2>3
  <2> QED BY <2>1, <2>2, <2>3
<1>4. CASE AttachFails(t)
  <2>1. Ends(t, "raised") /\ UNCHANGED <<controllers, contents, clients, epoch>>
    BY <1>4 DEF AttachFails
  <2>2. Moves(t) /\ calls'[t].stage \notin AtWork
    BY <1>0, <2>1, EndsWork
  <2> QED BY <1>f, <2>1, <2>2
<1>5. CASE \/ Unreached(t) \/ StartJob(t) \/ JoinTimesOut(t) \/ Broadcast(t)
           \/ BroadcastFails(t) \/ ReceiveController(t) \/ ControllerTimesOut(t)
           \/ KillJob(t)
  <2>1. /\ UNCHANGED <<controllers, contents, clients, epoch>>
        /\ \/ Finished(t)
           \/ \E stage \in {"attach", "controller", "kill", "mesh", "raised"} :
                Goto(t, stage)
    BY <1>5 DEF Unreached, StartJob, JoinTimesOut, Broadcast, BroadcastFails,
                ReceiveController, ControllerTimesOut, KillJob
  <2> QED BY <1>f, <1>g, <2>1
<1>6. CASE SetStatus(t) \/ ReadStatus(t) \/ StatusTimesOut(t)
  <2>1. /\ UNCHANGED <<controllers, contents, epoch>>
        /\ \/ Finished(t)
           \/ \E stage \in {"attach", "controller", "kill", "mesh", "raised"} :
                Goto(t, stage)
    BY <1>6 DEF SetStatus, ReadStatus, StatusTimesOut
  <2>2. /\ Forget(Primary, Collective) \/ Forget(Of[t], Collective)
        /\ Primary \in Process /\ Of[t] \in Process /\ Collective \in Store
    BY <1>6 DEF SetStatus, ReadStatus, StatusTimesOut
  <2> QED BY <1>f, <1>g, <2>1, <2>2
<1> QED BY <1>1, <1>2, <1>3, <1>4, <1>5, <1>6 DEF SessionStep

(* The invariant of the volumes is inductive.                              *)
LEMMA VolumeInvStep == NoSharing /\ SessionInv /\ VolumeInv /\ [Next]_vars => VolumeInv'
<1> SUFFICES ASSUME NoSharing, SessionInv, VolumeInv, [Next]_vars PROVE VolumeInv'
  OBVIOUS
<1>0. LifeInv
  BY DEF SessionInv
<1>1. CASE UNCHANGED vars \/ Exit
  <2>1. UNCHANGED lifeVars
    BY <1>1 DEF vars, Exit
  <2>2. ASSUME NEW s \in Store PROVE StoreHolds(s)'
    <3>1. LeavesAlone(s)
      BY <2>1 DEF lifeVars, LeavesAlone
    <3> QED BY <3>1, AloneHolds DEF VolumeInv
  <2> QED BY <2>2 DEF VolumeInv
<1>2. CASE Resets
  <2>1. PICK p \in Process, q \in Store :
          /\ Forget(p, q) /\ UNCHANGED <<controllers, contents, calls, epoch>>
    BY <1>2 DEF Resets, ResetClient
  <2>2. ASSUME NEW s \in Store PROVE StoreHolds(s)'
    <3>1. clients \in [Process -> [Store -> Volumes \cup {Nothing}]]
      BY <1>0 DEF LifeInv, TypeOK, LifecycleTypeOK
    <3>2. \A r \in Process : clients'[r][s] \in {clients[r][s], Nothing}
      BY <2>1, <3>1 DEF Forget
    <3>3. LeavesAlone(s)
      BY <2>1, <3>2 DEF LeavesAlone
    <3> QED BY <3>3, AloneHolds DEF VolumeInv
  <2> QED BY <2>2 DEF VolumeInv
<1>3. ASSUME NEW t \in Task, Starts(t) PROVE VolumeInv'
  BY <1>3, StartsHold
<1>4. ASSUME NEW t \in Task, LifeStep(t) PROVE VolumeInv'
  <2>1. ASSUME NEW s \in Store PROVE StoreHolds(s)'
    <3>1. CASE OfStore(t) = s
      BY <1>0, <1>4, <3>1, ItsOwnHolds
    <3>2. CASE OfStore(t) # s
      <4>1. LeavesAlone(s)
        BY <1>0, <1>4, <3>2, ElsewhereAlone
      <4> QED BY <4>1, AloneHolds DEF VolumeInv
    <3> QED BY <3>1, <3>2
  <2> QED BY <2>1 DEF VolumeInv
<1>5. ASSUME NEW t \in Task, SessionStep(t) PROVE VolumeInv'
  BY <1>5, SessionStepHolds
<1> QED BY <1>1, <1>2, <1>3, <1>4, <1>5, NextInParts

(* The volumes start with it.                                              *)
LEMMA VolumeInitially == Init => VolumeInv
<1> SUFFICES ASSUME Init, NEW s \in Store PROVE StoreHolds(s)
  BY DEF VolumeInv
<1>1. /\ \A t \in Task : calls[t] = Idle
      /\ controllers[s] = Unborn
      /\ \A p \in Process : clients[p][s] = Nothing
  BY DEF Init, LifeInit
<1>2. Idle.stage = "idle" /\ ~Unborn.up /\ Unborn.volumes = Nothing /\ ~Unborn.indexed
  BY DEF Idle, Unborn
<1>3. \A t \in Task : ~IsOf(t, s, AtWork)
  BY <1>1, <1>2 DEF IsOf, AtWork, Handling, Spawned, Tearing
<1>4. \A t \in Task : /\ ~IsOf(t, s, Handling) /\ ~IsOf(t, s, Spawned)
                      /\ ~IsOf(t, s, Tearing) /\ ~IsOf(t, s, {"notify"})
                      /\ ~IsOf(t, s, {"get"})
  BY <1>3 DEF IsOf, AtWork, Handling
<1>5. ControllerHolds(s) /\ ClientsHold(s)
  BY <1>1, <1>2 DEF ControllerHolds, ClientsHold
<1> QED BY <1>4, <1>5
        DEF StoreHolds, HandlingHolds, InitHolds, TeardownHolds

(* So it always holds, if no two stores share a volume.                    *)
LEMMA VolumeInvHolds == NoSharing => (Spec => []VolumeInv)
<1> SUFFICES ASSUME NoSharing PROVE Spec => []VolumeInv
  OBVIOUS
<1>1. Init => VolumeInv
  BY VolumeInitially
<1>2. SessionInv /\ VolumeInv /\ [Next]_vars => VolumeInv'
  BY VolumeInvStep
<1> QED BY <1>1, <1>2, SessionInvHolds, PTL DEF Spec

(* Where no two stores share the volume of the default strategy, a key     *)
(* that a store which is up has in its index is held by the volume of its  *)
(* strategy, with a value of that store since it was initialized.          *)
THEOREM IndexHeld == NoSharing => (Spec => []IndexedIsHeld)
<1> SUFFICES ASSUME NoSharing PROVE Spec => []IndexedIsHeld
  OBVIOUS
<1>1. VolumeInv => IndexedIsHeld
  BY DEF VolumeInv, StoreHolds, ControllerHolds, IndexedIsHeld, Own, Current
<1> QED BY <1>1, VolumeInvHolds, PTL

(* There a get never returns a value of another store or of an earlier     *)
(* life of its own, whoever shuts down and initializes meanwhile.          *)
THEOREM GetsTheirOwn == NoSharing => (Spec => GetIsOwn)
<1> SUFFICES ASSUME NoSharing PROVE Spec => GetIsOwn
  OBVIOUS
<1> DEFINE Step1 == \A t \in Task :
             At(t, "get") /\ calls'[t].stage # "get"
               => contents[calls[t].volume]
                    \in {<<OfStore(t), calls[t].epoch>>, Nothing, Gone}
<1>1. SessionInv /\ VolumeInv /\ [Next]_vars => [Step1]_lifeVars
  <2> SUFFICES ASSUME SessionInv, VolumeInv, NEW t \in Task, At(t, "get")
               PROVE  contents[calls[t].volume]
                        \in {<<OfStore(t), calls[t].epoch>>, Nothing, Gone}
    OBVIOUS
  <2>1. OfStore(t) \in Store
    BY DEF At, SessionInv, LifeInv, InOrder, OfStore
  <2>2. IsOf(t, OfStore(t), Handling) /\ IsOf(t, OfStore(t), {"get"})
    BY DEF At, IsOf, OfStore, Handling
  <2> QED BY <2>1, <2>2 DEF VolumeInv, StoreHolds, HandlingHolds, Own
<1> HIDE DEF Step1
<1>2. Spec => [][Step1]_lifeVars
  BY <1>1, SessionInvHolds, VolumeInvHolds, PTL DEF Spec
<1> QED BY <1>2 DEF GetIsOwn, Step1

=============================================================================
