-------------------------- MODULE UniflowTransport --------------------------
(***************************************************************************)
(* TorchCommsTransportBuffer over two UniflowCaches: the requests of one   *)
(* client process to one storage volume, and the connections they make.    *)
(*                                                                         *)
(* A request's handshake_id is fresh, so a connection is named by the      *)
(* request that made it, and an end of it by the place that still refers   *)
(* to it: whatever the code takes out of such a place it also shuts down.  *)
(* The volume handles the RPCs of a request in the order they were sent.   *)
(***************************************************************************)
EXTENDS TransportBuffers

CONSTANTS
  Device,      \* device ids: CPU, or a GPU
  Crossing,    \* may a request connect a device that another is connecting?
  UniflowFault \* which of "volume", "client", "abort", "cancel" may fail

ASSUME CrossingAssumption == Crossing \in BOOLEAN

VARIABLES
  devices,     \* the devices of the request's tensors
  connections, \* those it has to connect: the keys of _connections
  transports,  \* the client's cache: device -> the connection it is an end of
  volumeTransports, \* the volume's cache
  handshakes   \* <<handshake_id, device>> in the volume's _handshake_transports

endVars == <<devices, connections, transports, volumeTransports, handshakes>>
uniflowVars == <<bufferVars, endVars>>

UniflowInit ==
  /\ devices = [r \in Request |-> {}]
  /\ connections = [r \in Request |-> {}]
  /\ transports = [d \in Device |-> NoRequest]
  /\ volumeTransports = [d \in Device |-> NoRequest]
  /\ handshakes = {}

-----------------------------------------------------------------------------
(* What a request refers to *)

OwnHandshakes(r) == {r} \X Device

(* discard_handshake *)
Discarded(r) == handshakes \ OwnHandshakes(r)

(* _remote_handshake_pending *)
RemoteHandshakePending(r) ==
  phase[r] \in {"hook", "data"} /\ connections[r] # {}

(* The client's end: the request's own transport, until it is cleaned up. *)
ClientEnd(r, d) ==
  IF d \notin connections[r] THEN transports[d]
  ELSE IF phase[r] = "data" THEN r ELSE NoRequest

(* _get_sv_transport *)
VolumeEnd(r, d) ==
  IF d \notin connections[r] THEN volumeTransports[d]
  ELSE IF <<r, d>> \in handshakes THEN r ELSE NoRequest

(* A transfer gets through when it has the two ends of one connection. *)
Reaches(r) ==
  \A d \in devices[r] :
    VolumeEnd(r, d) # NoRequest /\ VolumeEnd(r, d) = ClientEnd(r, d)

-----------------------------------------------------------------------------
(* The client *)

(* requires_handshake: the devices without a cached transport. *)
Unconnected(ds) == { d \in ds : transports[d] = NoRequest }

IsConnecting(d) == \E q \in Request : Active(q) /\ d \in connections[q]

UniflowStart(r, ds) ==
  /\ phase[r] = "new"
  /\ Crossing \/ \A d \in Unconnected(ds) : ~IsConnecting(d)
  /\ devices' = [devices EXCEPT ![r] = ds]
  /\ connections' = [connections EXCEPT ![r] = Unconnected(ds)]
  /\ IF Unconnected(ds) = {} THEN Goto(r, "hook", "none")
     ELSE Goto(r, "topology", "topology")
  /\ UNCHANGED <<transports, volumeTransports, handshakes>>

(* The request is over: an abort is sent when the volume may hold its ends. *)
EndRequest(r, abort) ==
  /\ IF abort THEN Goto(r, "aborting", "none") ELSE Goto(r, "raised", "none")
  /\ UNCHANGED endVars

(* _post_topology_handshake creates and connects the client's ends. *)
PostTopology(r) ==
  /\ phase[r] = "topology" /\ rpc[r] = "ok"
  /\ Goto(r, "connect", "connect")
  /\ UNCHANGED endVars

PostConnect(r) ==
  /\ phase[r] = "connect" /\ rpc[r] = "ok"
  /\ Goto(r, "hook", "none")
  /\ UNCHANGED endVars

(* Variant: the client caches a transport as soon as it is connected. *)
PublishEarly(r) ==
  /\ phase[r] = "hook"
  /\ Goto(r, "data", "data")
  /\ transports' = [d \in Device |-> IF d \in connections[r] THEN r
                                     ELSE transports[d]]
  /\ UNCHANGED <<devices, connections, volumeTransports, handshakes>>

(* _pre_put_hook, _pre_get_hook, and the data RPC. *)
UniflowSend(r) ==
  /\ phase[r] = "hook"
  /\ Goto(r, "data", "data")
  /\ UNCHANGED endVars

(* _publish_local_transports: the first to publish stays. *)
Publish(r) ==
  /\ phase[r] = "data" /\ rpc[r] = "ok"
  /\ Goto(r, "done", "none")
  /\ transports' =
       [d \in Device |-> IF d \in connections[r] /\ transports[d] = NoRequest
                         THEN r ELSE transports[d]]
  /\ UNCHANGED <<devices, connections, volumeTransports, handshakes>>

(* An RPC raises: undelivered, unheard, or refused by the store before the *)
(* buffer's handler runs, which leaves the handshake to the abort.         *)
UniflowCallFails(r) ==
  /\ "client" \in UniflowFault
  /\ rpc[r] \in Unhandled \cup {"ok"} /\ Active(r) /\ phase[r] # "aborting"
  /\ rpc' = [rpc EXCEPT ![r] = "error"]
  /\ UNCHANGED <<phase, endVars>>

InHandshake(r) == phase[r] \in {"topology", "connect"}

(* Variant: the abort is left to drop, which finds nothing pending. *)
UniflowRaisesUnaborted(r) ==
  /\ rpc[r] = "error" /\ Active(r) /\ phase[r] # "aborting"
  /\ EndRequest(r, RemoteHandshakePending(r))

(* perform_handshake's except clause, or the finally of the request. *)
UniflowRaises(r) ==
  /\ rpc[r] = "error" /\ Active(r) /\ phase[r] # "aborting"
  /\ EndRequest(r, InHandshake(r) \/ RemoteHandshakePending(r))

(* The client's own part fails: its native transports, or its hook. *)
UniflowClientFails(r) ==
  /\ "client" \in UniflowFault
  /\ \/ phase[r] = "topology" /\ rpc[r] = "ok"
     \/ phase[r] = "hook"
  /\ EndRequest(r, InHandshake(r) \/ RemoteHandshakePending(r))

(***************************************************************************)
(* CancelledError is no Exception: perform_handshake does not abort, and   *)
(* drop aborts only once the handshake is over.  An RPC that was sent will *)
(* be handled all the same.                                                *)
(***************************************************************************)
UniflowCancelled(r) ==
  /\ "cancel" \in UniflowFault
  /\ Active(r) /\ phase[r] # "aborting"
  /\ LET unheard == IF rpc[r] \in Unhandled THEN rpc[r] ELSE "none"
     IN  IF RemoteHandshakePending(r) THEN Goto(r, "aborting", unheard)
         ELSE Goto(r, "forsaken", unheard)
  /\ UNCHANGED endVars

-----------------------------------------------------------------------------
(* The volume *)

(* Any handler of the buffer may fail; it then discards the handshake. *)
UniflowHandlerFails(r) ==
  /\ "volume" \in UniflowFault /\ rpc[r] \in Unhandled
  /\ Reply(r, "error")
  /\ handshakes' = Discarded(r)
  /\ UNCHANGED <<devices, connections, transports, volumeTransports>>

RecvTopology(r) ==
  /\ rpc[r] = "topology"
  /\ Reply(r, "ok")
  /\ handshakes' = handshakes \cup ({r} \X connections[r])
  /\ UNCHANGED <<devices, connections, transports, volumeTransports>>

RecvConnect(r) ==
  /\ rpc[r] = "connect"
  /\ IF {r} \X connections[r] \subseteq handshakes
     THEN Reply(r, "ok") /\ UNCHANGED handshakes
     ELSE Reply(r, "error") /\ handshakes' = Discarded(r)
  /\ UNCHANGED <<devices, connections, transports, volumeTransports>>

(* Variant: a cached transport is not replaced. *)
PromoteFirst(r) ==
  [d \in Device |-> IF <<r, d>> \in handshakes /\ volumeTransports[d] = NoRequest
                    THEN r ELSE volumeTransports[d]]

(* _promote_server_transports: the last to be promoted stays. *)
Promoted(r) ==
  [d \in Device |-> IF <<r, d>> \in handshakes THEN r ELSE volumeTransports[d]]

UniflowHandle(r) ==
  /\ rpc[r] = "data"
  /\ IF Reaches(r)
     THEN /\ Reply(r, "ok")
          /\ volumeTransports' = Promoted(r)
     ELSE /\ Reply(r, "error")
          /\ UNCHANGED volumeTransports
  /\ handshakes' = Discarded(r)
  /\ UNCHANGED <<devices, connections, transports>>

RecvAbort(r) ==
  /\ phase[r] = "aborting" /\ rpc[r] \notin Unhandled
  /\ Goto(r, "raised", "none")
  /\ handshakes' = Discarded(r)
  /\ UNCHANGED <<devices, connections, transports, volumeTransports>>

(* _abort_remote_handshake only logs that its own RPC failed. *)
AbortIsLost(r) ==
  /\ "abort" \in UniflowFault
  /\ phase[r] = "aborting" /\ rpc[r] \notin Unhandled
  /\ Goto(r, "forsaken", "none")
  /\ UNCHANGED endVars

UniflowNext ==
  \E r \in Request :
    \/ \E ds \in SUBSET Device : UniflowStart(r, ds)
    \/ PostTopology(r) \/ PostConnect(r) \/ UniflowSend(r) \/ Publish(r)
    \/ UniflowCallFails(r) \/ UniflowRaises(r) \/ UniflowClientFails(r)
    \/ UniflowCancelled(r) \/ UniflowHandlerFails(r)
    \/ RecvTopology(r) \/ RecvConnect(r) \/ UniflowHandle(r)
    \/ RecvAbort(r) \/ AbortIsLost(r)

UniflowSpec == BufferInit /\ UniflowInit /\ [][UniflowNext]_uniflowVars

-----------------------------------------------------------------------------
(* Type correctness of the two caches and of the requests under way. *)
UniflowTypeOK ==
  /\ BufferTypeOK
  /\ devices \in [Request -> SUBSET Device]
  /\ connections \in [Request -> SUBSET Device]
  /\ transports \in [Device -> Request \cup {NoRequest}]
  /\ volumeTransports \in [Device -> Request \cup {NoRequest}]
  /\ handshakes \subseteq Request \X Device

(***************************************************************************)
(* The connections that the client keeps for reuse are, device by device,  *)
(* those that the volume keeps: the two ends are published by different    *)
(* steps, in one request each, and nothing ever compares them.             *)
(***************************************************************************)
PublishedPairsMeet ==
  \A d \in Device :
    transports[d] # NoRequest => volumeTransports[d] = transports[d]

(***************************************************************************)
(* A data RPC finds on the volume the other ends of the connections that   *)
(* its client uses, made by its own handshake or long before.              *)
(***************************************************************************)
TransfersReach ==
  \A r \in Request : phase[r] = "data" /\ rpc[r] = "data" => Reaches(r)

(***************************************************************************)
(* The volume holds an unpromoted end only for a request under way, or     *)
(* for one that was cancelled or whose abort was lost.                     *)
(***************************************************************************)
HandshakesAreOwned ==
  \A h \in handshakes : phase[h[1]] \notin {"new", "done", "raised"}
=============================================================================
