---------------------------- MODULE SpmdSession ----------------------------
(***************************************************************************)
(* spmd.initialize and the session it makes, beside the stores of          *)
(* StoreLifecycle.  The ranks meet in a TCPStore whose server runs in the  *)
(* primary; the primary starts the job and its host mesh, initializes the  *)
(* store named Collective and broadcasts the controller; at shutdown it    *)
(* tears the controller down, broadcasts the outcome and stops the job.    *)
(* A rank can do this once: it needs a fresh Monarch context.  The other   *)
(* processes are actors that rank 0 has spawned.                           *)
(***************************************************************************)
EXTENDS StoreLifecycle

CONSTANTS
  Rank,         \* the processes that torchrun has started
  Primary,      \* the one of rank 0
  Collective,   \* the name of the store
  SpmdFault     \* what may fail: "attach", "set", "kill", "stop", "exit"

ASSUME SpmdAssumption ==
  /\ Rank \subseteq Process /\ Primary \in Rank
  /\ Collective \in Store \ Shares /\ MaxInit[Collective] = 1

VARIABLES
  started,      \* the ranks whose Monarch context is not fresh any more
  rendezvous,   \* the TCPStore: its server, who has connected, its two keys
  sessions,     \* the processes with the store in their _spmd_state_map
  job, mesh     \* of the primary: "none", "alive", "failed" or "gone"

spmdVars == <<started, rendezvous, sessions, job, mesh>>
vars == <<lifeVars, spmdVars>>

Rendezvous == [server : BOOLEAN, joined : SUBSET Rank,
               controller : BOOLEAN, shutdown : {"none", "ok", "error"}]

Init ==
  /\ LifeInit
  /\ started = {} /\ sessions = {}
  /\ rendezvous = [server |-> FALSE, joined |-> {}, controller |-> FALSE,
                   shutdown |-> "none"]
  /\ job = "none" /\ mesh = "none"

Primarily(t) == Of[t] = Primary
CollectiveVolume == VolumeOf(Collective, 1)

(* Which controller the tasks of a process reach: a rank other than 0 has  *)
(* only that of its session, and finds in its own runtime one that nobody  *)
(* initializes.                                                            *)
Reaches(t) ==
  Of[t] \in Rank \ {Primary}
    => OfStore(t) = Collective /\ Of[t] \in sessions

InSpmd(t, op, stage) ==
  At(t, stage) /\ calls[t].op = op /\ calls[t].caller = "spmd"

Finished(t) == calls' = [calls EXCEPT ![t] = Idle]

-----------------------------------------------------------------------------
(* initialize *)

(* Variant: nothing tells that the context is not fresh any more. *)
SpmdInitializeUnmarked(t) ==
  /\ At(t, "idle") /\ Collective \in Manages[t] /\ Of[t] \in Rank \ started
  /\ rendezvous' = [rendezvous EXCEPT !.server = @ \/ Primarily(t)]
  /\ Begin(t, "initialize", "spmd", Collective, Nothing, 0, "join")
  /\ UNCHANGED <<controllers, contents, clients, epoch, started, sessions,
                 job, mesh>>

SpmdInitialize(t) ==
  /\ At(t, "idle") /\ Collective \in Manages[t] /\ Of[t] \in Rank \ started
  /\ started' = started \cup {Of[t]}
  /\ rendezvous' = [rendezvous EXCEPT !.server = @ \/ Primarily(t)]
  /\ Begin(t, "initialize", "spmd", Collective, Nothing, 0, "join")
  /\ UNCHANGED <<controllers, contents, clients, epoch, sessions, job, mesh>>

(* TCPStore connects; its server waits for all ranks. *)
Join(t) ==
  /\ At(t, "join") /\ rendezvous.server /\ Of[t] \notin rendezvous.joined
  /\ rendezvous' = [rendezvous EXCEPT !.joined = @ \cup {Of[t]}]
  /\ IF Primarily(t) THEN UNCHANGED calls ELSE Goto(t, "controller")
  /\ UNCHANGED <<controllers, contents, clients, epoch, started, sessions,
                 job, mesh>>

StartJob(t) ==
  /\ At(t, "join") /\ Primarily(t) /\ rendezvous.joined = Rank
  /\ job' = "alive"
  /\ Goto(t, "attach")
  /\ UNCHANGED <<controllers, contents, clients, epoch, started, rendezvous,
                 sessions, mesh>>

(* The TCPStore of a call that fails before its try leaves nothing. *)
JoinTimesOut(t) ==
  /\ At(t, "join")
  /\ IF Primarily(t) THEN rendezvous.joined # Rank ELSE ~rendezvous.server
  /\ Finished(t)
  /\ rendezvous' = [rendezvous EXCEPT !.server = @ /\ ~Primarily(t)]
  /\ UNCHANGED <<controllers, contents, clients, epoch, started, sessions,
                 job, mesh>>

(* job.state() and spawn_procs, then api.initialize, as in StoreLifecycle. *)
Attach(t) ==
  /\ At(t, "attach")
  /\ mesh' = "alive"
  /\ Spawn(t, Collective, "spmd")
  /\ UNCHANGED <<started, rendezvous, sessions, job>>

AttachFails(t) ==
  /\ At(t, "attach") /\ "attach" \in SpmdFault
  /\ Ends(t, "raised")
  /\ UNCHANGED <<controllers, contents, clients, epoch, spmdVars>>

(* Variant: the handle is broadcast before the store is initialized. *)
BroadcastEarly(t) ==
  /\ InSpmd(t, "initialize", "returned") \/ InSpmd(t, "initialize", "get_id")
  /\ rendezvous' = [rendezvous EXCEPT !.controller = TRUE]
  /\ sessions' = sessions \cup {Of[t]}
  /\ Finished(t)
  /\ UNCHANGED <<controllers, contents, clients, epoch, started, job, mesh>>

Broadcast(t) ==
  /\ InSpmd(t, "initialize", "returned")
  /\ rendezvous' = [rendezvous EXCEPT !.controller = TRUE]
  /\ sessions' = sessions \cup {Of[t]}
  /\ Finished(t)
  /\ UNCHANGED <<controllers, contents, clients, epoch, started, job, mesh>>

BroadcastFails(t) ==
  /\ InSpmd(t, "initialize", "returned")
  /\ "set" \in SpmdFault
  /\ Goto(t, "raised")
  /\ UNCHANGED <<controllers, contents, clients, epoch, spmdVars>>

ReceiveController(t) ==
  /\ At(t, "controller") /\ rendezvous.server /\ rendezvous.controller
  /\ sessions' = sessions \cup {Of[t]}
  /\ Finished(t)
  /\ UNCHANGED <<controllers, contents, clients, epoch, started, rendezvous,
                 job, mesh>>

(* A rank that gives up has no job to clean up. *)
ControllerTimesOut(t) ==
  /\ At(t, "controller") /\ ~(rendezvous.server /\ rendezvous.controller)
  /\ Finished(t)
  /\ UNCHANGED <<controllers, contents, clients, epoch, spmdVars>>

-----------------------------------------------------------------------------
(* shutdown of a session *)

SpmdShutdown(t) ==
  /\ At(t, "idle") /\ Collective \in Manages[t] /\ Of[t] \in sessions
  /\ sessions' = sessions \ {Of[t]}
  /\ Begin(t, "shutdown", "spmd", Collective, Nothing, 1,
           IF Primarily(t) THEN "teardown" ELSE "status")
  /\ UNCHANGED <<controllers, contents, clients, epoch, started, rendezvous,
                 job, mesh>>

(* Variant: peers hear that all is well whatever the teardown raised. *)
SetStatusAnyhow(t) ==
  /\ InSpmd(t, "shutdown", "returned") \/ InSpmd(t, "shutdown", "raised")
  /\ rendezvous' = [rendezvous EXCEPT !.shutdown = "ok"]
  /\ Forget(Primary, Collective)
  /\ Goto(t, "kill")
  /\ UNCHANGED <<controllers, contents, epoch, started, sessions, job, mesh>>

(* The end of _shutdown_primary, and reset_client. *)
SetStatus(t) ==
  /\ InSpmd(t, "shutdown", "returned") \/ InSpmd(t, "shutdown", "raised")
  /\ \/ rendezvous' = [rendezvous EXCEPT !.shutdown =
                         IF At(t, "returned") THEN "ok" ELSE "error"]
     \/ "set" \in SpmdFault /\ UNCHANGED rendezvous
  /\ Forget(Primary, Collective)
  /\ Goto(t, "kill")
  /\ UNCHANGED <<controllers, contents, epoch, started, sessions, job, mesh>>

Killing(t) == At(t, "kill") \/ InSpmd(t, "initialize", "raised")

AfterKill == IF job = "none" THEN {"none"}
             ELSE IF "kill" \in SpmdFault THEN {"gone", "failed"}
             ELSE {"gone"}

AfterStop == IF mesh = "none" THEN {"none"}
             ELSE IF "stop" \in SpmdFault THEN {"gone", "failed"}
             ELSE {"gone"}

(* Variant: an error of job.kill() leaves the mesh as it is. *)
KillJobOrRaise(t) ==
  /\ Killing(t)
  /\ job' \in AfterKill
  /\ IF job' = "failed" THEN Finished(t) ELSE Goto(t, "mesh")
  /\ UNCHANGED <<controllers, contents, clients, epoch, started, rendezvous,
                 sessions, mesh>>

(* job.kill(), in _SPMDSession.shutdown and in _best_effort_cleanup; its   *)
(* errors are kept for the end.                                            *)
KillJob(t) ==
  /\ Killing(t)
  /\ job' \in AfterKill
  /\ Goto(t, "mesh")
  /\ UNCHANGED <<controllers, contents, clients, epoch, started, rendezvous,
                 sessions, mesh>>

(* host_mesh.shutdown(), with the processes of the volumes. *)
StopMesh(t) ==
  /\ At(t, "mesh")
  /\ mesh' \in AfterStop
  /\ contents' = IF mesh' # "gone" THEN contents
                 ELSE [contents EXCEPT ![CollectiveVolume] = Gone]
  /\ Finished(t)
  /\ UNCHANGED <<controllers, clients, epoch, started, rendezvous, sessions,
                 job>>

(* A peer learns the outcome, or times out. *)
ReadStatus(t) ==
  /\ At(t, "status")
  /\ rendezvous.server /\ rendezvous.shutdown # "none"
  /\ Forget(Of[t], Collective)
  /\ Finished(t)
  /\ UNCHANGED <<controllers, contents, epoch, spmdVars>>

(* Variant: a server that is gone is waited for without a timeout. *)
StatusTimesOutIfServed(t) ==
  /\ At(t, "status")
  /\ rendezvous.server /\ rendezvous.shutdown = "none"
  /\ Forget(Of[t], Collective)
  /\ Finished(t)
  /\ UNCHANGED <<controllers, contents, epoch, spmdVars>>

StatusTimesOut(t) ==
  /\ At(t, "status")
  /\ ~rendezvous.server \/ rendezvous.shutdown = "none"
  /\ Forget(Of[t], Collective)
  /\ Finished(t)
  /\ UNCHANGED <<controllers, contents, epoch, spmdVars>>

(* The primary exits after its shutdown, and the TCPStore with it, whoever *)
(* still waits there.                                                      *)
Exit ==
  /\ "exit" \in SpmdFault
  /\ rendezvous.server /\ Primary \in started \ sessions
  /\ \A t \in Task : Primarily(t) => At(t, "idle")
  /\ rendezvous' = [rendezvous EXCEPT !.server = FALSE]
  /\ UNCHANGED <<lifeVars, started, sessions, job, mesh>>

-----------------------------------------------------------------------------
(* A store is shut down by its name: through the session if the process    *)
(* has one.                                                                *)
PlainShutdown(t, s) ==
  /\ s = Collective => Primarily(t) /\ Primary \notin sessions
  /\ Shutdown(t, s)

(* The first call to an actor makes the Monarch context of its process.    *)
UsesContext(t) ==
  /\ started' = started \cup ({Of[t]} \cap Rank)
  /\ UNCHANGED <<rendezvous, sessions, job, mesh>>

Starts(t) ==
  \/ \E s \in Store \ {Collective} : Initialize(t, s) /\ UsesContext(t)
  \/ \E s \in Store : PlainShutdown(t, s) /\ UsesContext(t)
  \/ \E s \in Store, op \in {"put", "get"} :
       Call(t, s, op) /\ UsesContext(t)
  \/ SpmdInitialize(t) \/ SpmdShutdown(t)

(* A rank without a session asks a controller that is not initialized.     *)
Unreached(t) ==
  /\ At(t, "ask") /\ ~Reaches(t)
  /\ Finished(t)
  /\ UNCHANGED <<controllers, contents, clients, epoch, spmdVars>>

Step(t) ==
  \/ (At(t, "ask") => Reaches(t)) /\ LifeStep(t) /\ UNCHANGED spmdVars
  \/ Unreached(t)
  \/ Join(t) \/ StartJob(t) \/ JoinTimesOut(t) \/ Attach(t) \/ AttachFails(t)
  \/ Broadcast(t) \/ BroadcastFails(t)
  \/ ReceiveController(t) \/ ControllerTimesOut(t)
  \/ SetStatus(t) \/ KillJob(t) \/ StopMesh(t)
  \/ ReadStatus(t) \/ StatusTimesOut(t)

Resets ==
  \E p \in Process, s \in Store : ResetClient(p, s) /\ UNCHANGED spmdVars

Next == (\E t \in Task : Starts(t) \/ Step(t)) \/ Resets \/ Exit

Spec == Init /\ [][Next]_vars

(* Invariant: the type of the state.                                       *)
TypeOK ==
  /\ LifecycleTypeOK
  /\ \A t \in Task :
       /\ calls[t].stage \in LifeStages \cup {"join", "attach", "controller",
                                              "status", "kill", "mesh"}
       /\ calls[t].store \in Store \cup {Nothing}
       /\ calls[t].volume \in Volumes \cup {Nothing}
  /\ started \subseteq Rank /\ sessions \subseteq started
  /\ rendezvous \in Rendezvous
  /\ {job, mesh} \subseteq {"none", "alive", "failed", "gone"}

(* Invariant: a rank that has a session has a controller that is up, until *)
(* rank 0 begins to shut down.                                             *)
SessionsAreServed ==
  sessions # {} /\ ~controllers[Collective].up => Primary \notin sessions

(* Invariant: when the peers are told that the shutdown went well, the     *)
(* controller is down, has let go of its volumes and knows no key.         *)
StatusIsTrue ==
  rendezvous.shutdown = "ok"
    => controllers[Collective] = Unborn

(* Invariant: when rank 0 has no session and is not about to have one, it  *)
(* has tried to kill its job and to stop its mesh, whatever failed before. *)
NothingLeaks ==
  Primary \notin sessions
    /\ (\A t \in Task : Primarily(t) => calls[t].caller # "spmd")
    => "alive" \notin {job, mesh}

(* Invariant: no call waits for something that may never come: each has a  *)
(* step it can take by itself, if only to time out, and none of its steps  *)
(* leads back, so that a task which runs ends every call it makes.         *)
NoCallHangs == \A t \in Task : ~At(t, "idle") => ENABLED Step(t)
=============================================================================
