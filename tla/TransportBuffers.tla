-------------------------- MODULE TransportBuffers --------------------------
(***************************************************************************)
(* What every TransportBuffer shares: a request of a client process to one *)
(* storage volume is a coroutine that runs the handshake it needs, its     *)
(* hook and its put, get or delete, and is dropped whatever happens; each  *)
(* call of the volume is sent, handled and answered in steps of their own. *)
(* A buffer serves one request, so the request stands for its buffer.      *)
(***************************************************************************)
CONSTANTS Request, NoRequest

ASSUME NoRequestAssumption == NoRequest \notin Request

VARIABLES
  phase,   \* phase[r]: how far the client's coroutine has come
  rpc      \* rpc[r]: its RPC, not yet handled, or the reply to it

bufferVars == <<phase, rpc>>

Phase == {"new", "topology", "connect", "handshake", "copy", "hook", "data",
          "aborting", "done", "raised", "forsaken"}
Rpc == {"none", "topology", "connect", "handshake", "data", "serving",
        "ok", "error"}

BufferInit ==
  /\ phase = [r \in Request |-> "new"]
  /\ rpc = [r \in Request |-> "none"]

Ended == {"done", "raised", "forsaken"}
Active(r) == phase[r] \notin Ended \cup {"new"}

(* The RPCs that the volume has not handled yet. *)
Unhandled == {"topology", "connect", "handshake", "data"}

Goto(r, p, m) ==
  /\ phase' = [phase EXCEPT ![r] = p]
  /\ rpc' = [rpc EXCEPT ![r] = m]

Reply(r, m) ==
  /\ rpc' = [rpc EXCEPT ![r] = m]
  /\ UNCHANGED phase

(* Every coroutine and every call is at a place that the code has. *)
BufferTypeOK ==
  /\ phase \in [Request -> Phase]
  /\ rpc \in [Request -> Rpc]
=============================================================================
