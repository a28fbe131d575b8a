---------------------------- MODULE NixlTransport ----------------------------
(***************************************************************************)
(* NixlTransportBuffer: the client registers the tensors of a batch and    *)
(* sends their descriptors with its agent's metadata; the volume loads the *)
(* metadata, starts the transfers and polls until none is under way.  NIXL *)
(* reads and writes the memory by itself, so while a transfer is active    *)
(* nobody may free or unload what it uses.  One client and one volume.     *)
(***************************************************************************)
EXTENDS TransportBuffers, Naturals

CONSTANTS
  Groups,      \* how many transfers may start: one per pair of memory types
  Concurrent,  \* may two requests be under way at once?
  NixlFault    \* which of "volume", "abandon" may happen

ASSUME GroupsAssumption == Groups \subseteq Nat
ASSUME ConcurrentAssumption == Concurrent \in BOOLEAN

VARIABLES
  registered,    \* the requests whose tensors the client has registered
  metadata,      \* metadata[r]: what get_agent_metadata told of them
  remoteAgent,   \* what the volume has loaded: _remote_agents[the client]
  active,        \* active[r]: how many of its transfers are under way
  failed         \* failed[r]: one of them has failed, or could not start

memoryVars == <<registered, metadata, remoteAgent, active, failed>>
nixlVars == <<bufferVars, memoryVars>>

NixlInit ==
  /\ registered = {}
  /\ metadata = [r \in Request |-> {}]
  /\ remoteAgent = {}
  /\ active = [r \in Request |-> 0]
  /\ failed = [r \in Request |-> FALSE]

-----------------------------------------------------------------------------
(* Transfers of the request are with NIXL. *)
IsActive(r) == active[r] > 0

(***************************************************************************)
(* Registers the tensors and publishes the metadata; then the data RPC,    *)
(* which the volume takes up after those that were sent before.            *)
(***************************************************************************)
NixlSend(r) ==
  /\ phase[r] = "new"
  /\ Concurrent \/ \A q \in Request : ~Active(q) /\ rpc[q] # "data"
  /\ registered' = registered \cup {r}
  /\ metadata' = [metadata EXCEPT ![r] = registered \cup {r}]
  /\ Goto(r, "data", "data")
  /\ UNCHANGED <<remoteAgent, active, failed>>

(***************************************************************************)
(* _transfer, up to the first sleep: the metadata is replaced when it      *)
(* differs; the handles before one that raises are active and stay so.     *)
(***************************************************************************)
NixlDispatch(r, n, raises) ==
  /\ rpc[r] = "data" /\ (n = 0 => raises)
  /\ Reply(r, "serving")
  /\ remoteAgent' = metadata[r]
  /\ active' = [active EXCEPT ![r] = n]
  /\ failed' = [failed EXCEPT ![r] = raises]
  /\ UNCHANGED <<registered, metadata>>

(* A batch of objects and empty tensors moves nothing and loads nothing. *)
NixlMovesNothing(r) ==
  /\ rpc[r] = "data"
  /\ Reply(r, "ok")
  /\ UNCHANGED memoryVars

(* The store or the buffer refuses the batch before anything is loaded. *)
NixlRefuses(r) ==
  /\ "volume" \in NixlFault
  /\ rpc[r] = "data"
  /\ Reply(r, "error")
  /\ UNCHANGED memoryVars

(* NIXL's own step. *)
TransferEnds(r, fails) ==
  /\ IsActive(r)
  /\ active' = [active EXCEPT ![r] = @ - 1]
  /\ failed' = [failed EXCEPT ![r] = @ \/ fails]
  /\ UNCHANGED <<bufferVars, registered, metadata, remoteAgent>>

(* Variant: an error is raised without waiting for the other transfers. *)
RaisesAtOnce(r) == failed[r] \/ ~IsActive(r)

(* The polling loop has found every handle in a terminal state. *)
Drained(r) == ~IsActive(r)

(***************************************************************************)
(* The handles are released, which does not stop a transfer; timing out    *)
(* shows only now, and as an error.                                        *)
(***************************************************************************)
NixlServed(r, timedOut) ==
  /\ rpc[r] = "serving"
  /\ Drained(r)
  /\ Reply(r, IF failed[r] \/ timedOut THEN "error" ELSE "ok")
  /\ UNCHANGED memoryVars

NixlReturns(r) ==
  /\ phase[r] = "data" /\ rpc[r] \in {"ok", "error"}
  /\ Goto(r, IF rpc[r] = "ok" THEN "done" ELSE "raised", "none")
  /\ UNCHANGED memoryVars

(* The client stops waiting, and drops what it held, as when cancelled. *)
NixlAbandons(r) ==
  /\ "abandon" \in NixlFault
  /\ phase[r] = "data"
  /\ phase' = [phase EXCEPT ![r] = "forsaken"]
  /\ UNCHANGED <<rpc, memoryVars>>

(* A tensor that nobody holds any more is deregistered with its storage. *)
TensorFreed(r) ==
  /\ r \in registered /\ ~Active(r)
  /\ registered' = registered \ {r}
  /\ UNCHANGED <<bufferVars, metadata, remoteAgent, active, failed>>

NixlNext ==
  \E r \in Request :
    \/ NixlSend(r) \/ NixlRefuses(r) \/ NixlReturns(r) \/ NixlAbandons(r)
    \/ NixlMovesNothing(r) \/ TensorFreed(r)
    \/ \E n \in Groups, raises \in BOOLEAN : NixlDispatch(r, n, raises)
    \/ \E fails \in BOOLEAN : TransferEnds(r, fails)
    \/ \E timedOut \in BOOLEAN : NixlServed(r, timedOut)

NixlSpec == BufferInit /\ NixlInit /\ [][NixlNext]_nixlVars

-----------------------------------------------------------------------------
(* Every variable of the agents and of NIXL holds a value of its type. *)
NixlTypeOK ==
  /\ BufferTypeOK
  /\ registered \subseteq Request /\ remoteAgent \subseteq Request
  /\ metadata \in [Request -> SUBSET Request]
  /\ active \in [Request -> Nat]
  /\ failed \in [Request -> BOOLEAN]

(***************************************************************************)
(* While NIXL moves the data of a request, the client still waits for it   *)
(* and keeps the tensor registered, the volume keeps its end, and the      *)
(* metadata that the volume has loaded names the tensor.  Only a client    *)
(* that stops waiting may free memory that is still read or written.       *)
(***************************************************************************)
ActiveIsHeld ==
  \A r \in Request : IsActive(r) /\ phase[r] # "forsaken" =>
    /\ phase[r] = "data" /\ rpc[r] = "serving"
    /\ r \in registered
    /\ r \in remoteAgent

=============================================================================
