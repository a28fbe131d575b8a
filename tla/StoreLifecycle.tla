--------------------------- MODULE StoreLifecycle ---------------------------
(***************************************************************************)
(* The life of the stores of a program: initialize, shutdown, the cached   *)
(* clients, and the puts and gets that run meanwhile.  A task is a         *)
(* coroutine of a process; what it does between two awaits is one step, as *)
(* is what an actor does between two awaits of an endpoint.                *)
(*                                                                         *)
(* Every store has one key and one volume.  A value is the store it was    *)
(* put in and the initialize it followed.                                  *)
(***************************************************************************)
EXTENDS Naturals

CONSTANTS
  Process, Task,
  Of,           \* Of[t]: the process of task t
  Store,        \* the names of the stores
  Shares,       \* those whose strategy is ControllerStorageVolumes
  Manages,      \* Manages[t]: the stores task t initializes and shuts down
  Uses,         \* Uses[t]: the calls of t, pairs of store and "put" or "get"
  MaxInit,      \* MaxInit[s]: bound on the calls of initialize
  Default,      \* the name that the strategy of Shares spawns its volume with
  Nothing,      \* no value, no volume, no store
  Gone,         \* the content of a volume whose host was shut down
  LifeFault     \* which calls may fail: "init", "reset", "put"

ASSUME LifecycleAssumption ==
  /\ Of \in [Task -> Process]
  /\ MaxInit \in [Store -> Nat]
  /\ Shares \subseteq Store /\ Default \notin Store
  /\ Nothing # Gone

VARIABLES
  controllers,  \* the Controller actor of each store
  contents,     \* what each volume holds
  clients,      \* _local_clent_map: the volume of each process's strategy
  calls,        \* where each task is
  epoch         \* how often Controller.init was let in, for each store

lifeVars == <<controllers, contents, clients, calls, epoch>>

Value == Store \X Nat

(* A controller: is_initialized, the volume of its strategy, its           *)
(* storage_volumes, and whether its index has the key.                     *)
Unborn == [up |-> FALSE, strategy |-> Nothing, volumes |-> Nothing,
           indexed |-> FALSE]

Idle == [stage |-> "idle", op |-> "none", caller |-> "api",
         store |-> Nothing, volume |-> Nothing, epoch |-> 0]

LifeStages ==
  {"idle", "init", "get_id", "teardown", "reset", "cleared", "ask", "install",
   "go", "notify", "get", "returned", "raised"}

(* spawn_actors names the volumes of a call anew; the singleton is got if  *)
(* it is there.                                                            *)
VolumeOf(s, n) == IF s \in Shares THEN <<Default, 0>> ELSE <<s, n>>
Volumes == UNION { { VolumeOf(s, n) : n \in 1..MaxInit[s] } : s \in Store }

LifeInit ==
  /\ controllers = [s \in Store |-> Unborn]
  /\ contents = [v \in Volumes |-> Nothing]
  /\ clients = [p \in Process |-> [s \in Store |-> Nothing]]
  /\ calls = [t \in Task |-> Idle]
  /\ epoch = [s \in Store |-> 0]

At(t, stage) == calls[t].stage = stage
OfStore(t) == calls[t].store
Goto(t, stage) == calls' = [calls EXCEPT ![t].stage = stage]

Begin(t, op, caller, s, v, n, stage) ==
  calls' = [calls EXCEPT ![t] =
    [stage |-> stage, op |-> op, caller |-> caller, store |-> s, volume |-> v,
     epoch |-> n]]

(* A call ends, or goes on in spmd.py where it came from. *)
Ends(t, how) ==
  calls' = [calls EXCEPT ![t] =
    IF @.caller = "api" THEN Idle ELSE [@ EXCEPT !.stage = how]]

(* What the callers see to: initialize begins when nothing is being done   *)
(* with the store and all its clients were reset, and shutdown not before  *)
(* it ends.  A shutdown may begin amid puts, gets and other shutdowns.     *)
Quiet(s) ==
  /\ \A t \in Task : OfStore(t) # s
  /\ \A p \in Process : clients[p][s] = Nothing

Settled(s) ==
  \A t \in Task : calls[t].op = "initialize" => OfStore(t) # s

-----------------------------------------------------------------------------
(* initialize: spawn the volumes, then Controller.init, which asks them    *)
(* for their ids before it is done.                                        *)

Spawn(t, s, caller) ==
  /\ epoch[s] < MaxInit[s]
  /\ Begin(t, "initialize", caller, s, VolumeOf(s, epoch[s] + 1),
           epoch[s] + 1, "init")
  /\ UNCHANGED <<controllers, contents, clients, epoch>>

Initialize(t, s) ==
  At(t, "idle") /\ s \in Manages[t] /\ Quiet(s) /\ Spawn(t, s, "api")

(* Variant: no check for a store that is up already. *)
InitBeginsAgain(t) ==
  /\ At(t, "init")
  /\ controllers' = [controllers EXCEPT
       ![OfStore(t)].strategy = calls[t].volume,
       ![OfStore(t)].volumes = calls[t].volume]
  /\ epoch' = [epoch EXCEPT ![OfStore(t)] = calls[t].epoch]
  /\ Goto(t, "get_id")
  /\ UNCHANGED <<contents, clients>>

InitBegins(t) ==
  /\ At(t, "init") /\ ~controllers[OfStore(t)].up
  /\ controllers' = [controllers EXCEPT
       ![OfStore(t)].strategy = calls[t].volume,
       ![OfStore(t)].volumes = calls[t].volume]
  /\ epoch' = [epoch EXCEPT ![OfStore(t)] = calls[t].epoch]
  /\ Goto(t, "get_id")
  /\ UNCHANGED <<contents, clients>>

InitRefused(t) ==
  /\ At(t, "init") /\ controllers[OfStore(t)].up
  /\ Ends(t, "raised")
  /\ UNCHANGED <<controllers, contents, clients, epoch>>

InitFails(t) ==
  /\ At(t, "get_id")
  /\ "init" \in LifeFault \/ contents[calls[t].volume] = Gone
  /\ Ends(t, "raised")
  /\ UNCHANGED <<controllers, contents, clients, epoch>>

InitEnds(t) ==
  /\ At(t, "get_id") /\ contents[calls[t].volume] # Gone
  /\ controllers' = [controllers EXCEPT ![OfStore(t)].up = TRUE]
  /\ Ends(t, "returned")
  /\ UNCHANGED <<contents, clients, epoch>>

-----------------------------------------------------------------------------
(* shutdown: Controller.teardown, which awaits the reset of the volumes,   *)
(* then reset_client in the process of the caller, whatever happened.      *)

Shutdown(t, s) ==
  /\ At(t, "idle") /\ s \in Manages[t] /\ epoch[s] > 0 /\ Settled(s)
  /\ Begin(t, "shutdown", "api", s, Nothing, epoch[s], "teardown")
  /\ UNCHANGED <<controllers, contents, clients, epoch>>

TeardownBegins(t) ==
  /\ At(t, "teardown")
  /\ controllers' = [controllers EXCEPT
       ![OfStore(t)].up = FALSE,
       ![OfStore(t)].indexed = FALSE,
       ![OfStore(t)].strategy = Nothing]
  /\ LET v == controllers[OfStore(t)].volumes
     IN  calls' = [calls EXCEPT
           ![t].volume = v,
           ![t].stage = IF v = Nothing THEN "cleared" ELSE "reset"]
  /\ UNCHANGED <<contents, clients, epoch>>

ResetLands(t) ==
  /\ At(t, "reset") /\ contents[calls[t].volume] # Gone
  /\ contents' = [contents EXCEPT ![calls[t].volume] = Nothing]
  /\ Goto(t, "cleared")
  /\ UNCHANGED <<controllers, clients, epoch>>

Forget(p, s) == clients' = [clients EXCEPT ![p][s] = Nothing]

(* In an SPMD session the caller resets the client, and later. *)
ResetsClient(t) ==
  IF calls[t].caller = "api" THEN Forget(Of[t], OfStore(t))
                             ELSE UNCHANGED clients

ResetFails(t) ==
  /\ At(t, "reset")
  /\ "reset" \in LifeFault \/ contents[calls[t].volume] = Gone
  /\ Ends(t, "raised") /\ ResetsClient(t)
  /\ UNCHANGED <<controllers, contents, epoch>>

TeardownEnds(t) ==
  /\ At(t, "cleared")
  /\ controllers' = [controllers EXCEPT ![OfStore(t)].volumes = Nothing]
  /\ Ends(t, "returned") /\ ResetsClient(t)
  /\ UNCHANGED <<contents, epoch>>

(* Called where a store that another process shut down is still cached. *)
ResetClient(p, s) ==
  /\ clients[p][s] # Nothing /\ ~controllers[s].up
  /\ Forget(p, s)
  /\ UNCHANGED <<controllers, contents, calls, epoch>>

-----------------------------------------------------------------------------
(* client: the cached one, or a new one with the controller's strategy,    *)
(* installed when the answer is back.                                      *)

Call(t, s, op) ==
  /\ At(t, "idle") /\ <<s, op>> \in Uses[t]
  /\ LET cached == clients[Of[t]][s]
     IN  Begin(t, op, "api", s, cached, epoch[s],
               IF cached = Nothing THEN "ask" ELSE "go")
  /\ UNCHANGED <<controllers, contents, clients, epoch>>

AskStrategy(t) ==
  LET c == controllers[OfStore(t)]
  IN  /\ At(t, "ask") /\ c.up /\ c.strategy # Nothing
      /\ calls' = [calls EXCEPT ![t].volume = c.strategy,
                                ![t].epoch = epoch[OfStore(t)],
                                ![t].stage = "install"]
      /\ UNCHANGED <<controllers, contents, clients, epoch>>

AskRefused(t) ==
  LET c == controllers[OfStore(t)]
  IN  /\ At(t, "ask") /\ (~c.up \/ c.strategy = Nothing)
      /\ Ends(t, "raised")
      /\ UNCHANGED <<controllers, contents, clients, epoch>>

InstallClient(t) ==
  /\ At(t, "install")
  /\ clients' = [clients EXCEPT ![Of[t]][OfStore(t)] = calls[t].volume]
  /\ Goto(t, "go")
  /\ UNCHANGED <<controllers, contents, epoch>>

-----------------------------------------------------------------------------
(* put: the volume first, then the controller.  get: the other way round.  *)

PutLands(t) ==
  /\ At(t, "go") /\ calls[t].op = "put" /\ contents[calls[t].volume] # Gone
  /\ contents' = [contents EXCEPT ![calls[t].volume] =
                    <<OfStore(t), calls[t].epoch>>]
  /\ Goto(t, "notify")
  /\ UNCHANGED <<controllers, clients, epoch>>

PutFails(t) ==
  /\ At(t, "go") /\ calls[t].op = "put"
  /\ "put" \in LifeFault \/ contents[calls[t].volume] = Gone
  /\ Ends(t, "raised")
  /\ UNCHANGED <<controllers, contents, clients, epoch>>

(* Variant: notify_put_batch does not assert that the store is up. *)
NotifyUnchecked(t) ==
  /\ At(t, "notify")
  /\ controllers' = [controllers EXCEPT ![OfStore(t)].indexed = TRUE]
  /\ Ends(t, "returned")
  /\ UNCHANGED <<contents, clients, epoch>>

Notify(t) ==
  /\ At(t, "notify")
  /\ controllers' = [controllers EXCEPT
       ![OfStore(t)].indexed = @ \/ controllers[OfStore(t)].up]
  /\ Ends(t, IF controllers[OfStore(t)].up THEN "returned" ELSE "raised")
  /\ UNCHANGED <<contents, clients, epoch>>

Located(t) == controllers[OfStore(t)].up /\ controllers[OfStore(t)].indexed

Locate(t) ==
  /\ At(t, "go") /\ calls[t].op = "get"
  /\ IF Located(t) THEN Goto(t, "get") ELSE Ends(t, "raised")
  /\ UNCHANGED <<controllers, contents, clients, epoch>>

GetLands(t) ==
  /\ At(t, "get")
  /\ Ends(t, IF contents[calls[t].volume] \in {Nothing, Gone}
             THEN "raised" ELSE "returned")
  /\ UNCHANGED <<controllers, contents, clients, epoch>>

-----------------------------------------------------------------------------
LifeStep(t) ==
  \/ InitBegins(t) \/ InitRefused(t) \/ InitFails(t) \/ InitEnds(t)
  \/ TeardownBegins(t) \/ ResetLands(t) \/ ResetFails(t) \/ TeardownEnds(t)
  \/ AskStrategy(t) \/ AskRefused(t) \/ InstallClient(t)
  \/ PutLands(t) \/ PutFails(t) \/ Notify(t) \/ Locate(t) \/ GetLands(t)

(* Invariant: the type of the state.                                       *)
LifecycleTypeOK ==
  /\ controllers \in [Store ->
       [up : BOOLEAN, strategy : Volumes \cup {Nothing},
        volumes : Volumes \cup {Nothing}, indexed : BOOLEAN]]
  /\ DOMAIN contents = Volumes
  /\ \A v \in Volumes : contents[v] \in Value \cup {Nothing, Gone}
  /\ clients \in [Process -> [Store -> Volumes \cup {Nothing}]]
  /\ epoch \in [Store -> Nat]

(* Invariant: a key that a store that is up has in its index is held by    *)
(* the volume of its strategy, with a value put in that store since it was *)
(* initialized, unless the volume's host is gone.                          *)
IndexedIsHeld ==
  \A s \in Store :
    LET c == controllers[s]
    IN  c.up /\ c.indexed
          => contents[c.strategy] \in {<<s, epoch[s]>>, Gone}

(* Action property: what a get returns was put in the same store, after    *)
(* the initialize that the get itself followed.                            *)
GetIsOwn ==
  [][ \A t \in Task :
        At(t, "get") /\ calls'[t].stage # "get"
          => contents[calls[t].volume]
               \in {<<OfStore(t), calls[t].epoch>>, Nothing, Gone} ]_lifeVars

=============================================================================
