---------------------------- MODULE GlooTransport ----------------------------
(***************************************************************************)
(* GlooTransportBuffer: the requests of one client process to one storage  *)
(* volume over the two-process groups that they make.  Every tensor goes   *)
(* over the group with tag 0, so the sends of one end meet the receives of *)
(* the other in the order in which the two were posted, whichever requests *)
(* posted them.  A group is named by the request whose handshake made it.  *)
(***************************************************************************)
EXTENDS TransportBuffers, Sequences

CONSTANTS
  Overlap,     \* may two puts, or two gets, be under way at once?
  GlooFault    \* which of "volume", "client", "abandon", "timeout", "reset"
               \* may happen

ASSUME OverlapAssumption == Overlap \in BOOLEAN

VARIABLES
  kind,         \* kind[r]: put or get of a tensor, or either of an object
  group,        \* group[r]: the store_key of the request
  storeAddr,    \* _store_addrs[volume_id], a global of the client's process
  clientGroups, \* the GlooProcessGroupCache of the client's context
  volumeGroups, \* that of the volume
  broken,       \* the groups on which an operation has timed out
  task,         \* task[r]: the client's _send_task or _recv_task
  serving,      \* serving[r]: the volume's part of the transfer
  wire,         \* the operations posted on a group and not yet met
  took          \* took[r]: the request whose tensor r's receive has got

glooVars == <<bufferVars, kind, group, storeAddr, clientGroups, volumeGroups,
              broken, task, serving, wire, took>>
connectionVars == <<storeAddr, clientGroups, volumeGroups>>
transferVars == <<broken, task, serving, wire, took>>

Kind == {"put", "get", "object"}
Operation == {"none", "started", "posted", "met", "failed"}
Lane == {"put", "get"} \X {"send", "receive"}

GlooInit ==
  /\ kind = [r \in Request |-> "object"]
  /\ group = [r \in Request |-> NoRequest]
  /\ storeAddr = NoRequest
  /\ clientGroups = {} /\ volumeGroups = {} /\ broken = {}
  /\ task = [r \in Request |-> "none"]
  /\ serving = [r \in Request |-> "none"]
  /\ wire = [g \in Request |-> [l \in Lane |-> <<>>]]
  /\ took = [r \in Request |-> NoRequest]

-----------------------------------------------------------------------------
(* A put is sent by the client, a get by the volume. *)
ClientLane(r) == <<kind[r], IF kind[r] = "put" THEN "send" ELSE "receive">>
VolumeLane(r) == <<kind[r], IF kind[r] = "put" THEN "receive" ELSE "send">>

-----------------------------------------------------------------------------
(* The client *)

(* requires_handshake: only the process's own record of addresses counts. *)
GlooStart(r, k) ==
  /\ phase[r] = "new"
  /\ Overlap \/ \A q \in Request : Active(q) => kind[q] # k
  /\ kind' = [kind EXCEPT ![r] = k]
  /\ IF storeAddr = NoRequest
     THEN /\ Goto(r, "handshake", "handshake")
          /\ group' = [group EXCEPT ![r] = r]
     ELSE /\ Goto(r, "hook", "none")
          /\ group' = [group EXCEPT ![r] = storeAddr]
  /\ UNCHANGED <<connectionVars, transferVars>>

(* _post_handshake: a group that both sides have made. *)
GlooPostHandshake(r) ==
  /\ phase[r] = "handshake" /\ rpc[r] = "ok"
  /\ Goto(r, "hook", "none")
  /\ storeAddr' = r
  /\ clientGroups' = clientGroups \cup {r}
  /\ UNCHANGED <<kind, group, volumeGroups, transferVars>>

(* _pre_put_hook and _pre_get_hook create the task; then the data RPC. *)
GlooSend(r) ==
  /\ phase[r] = "hook"
  /\ Goto(r, "data", "data")
  /\ task' = IF kind[r] = "object" THEN task
             ELSE [task EXCEPT ![r] = "started"]
  /\ UNCHANGED <<kind, group, connectionVars, broken, serving, wire, took>>

(* get_meta raises, or finds a name that is not there. *)
GlooHookFails(r) ==
  /\ "client" \in GlooFault
  /\ phase[r] = "hook" /\ kind[r] # "put"
  /\ Goto(r, "raised", "none")
  /\ UNCHANGED <<kind, group, connectionVars, transferVars>>

(* Variant: the buffer is dropped while its send is still under way. *)
GlooReturnsAtOnce(r) ==
  /\ phase[r] = "data" /\ rpc[r] \in {"ok", "error"}
  /\ Goto(r, IF rpc[r] = "ok" THEN "done" ELSE "raised", "none")
  /\ UNCHANGED <<kind, group, connectionVars, transferVars>>

(***************************************************************************)
(* The reply, or the error of the call.  A put waits in drop for its send, *)
(* whatever the call came to; a get waits for its receive only after a     *)
(* reply, and otherwise leaves it behind.                                  *)
(***************************************************************************)
GlooReturns(r) ==
  /\ phase[r] = "data" /\ rpc[r] \in {"ok", "error"}
  /\ \/ task[r] \in {"none", "met", "failed"}
     \/ kind[r] = "get" /\ rpc[r] = "error"
  /\ Goto(r, IF rpc[r] = "ok" /\ task[r] # "failed" THEN "done" ELSE "raised",
          "none")
  /\ UNCHANGED <<kind, group, connectionVars, transferVars>>

GlooHandshakeRaises(r) ==
  /\ phase[r] = "handshake" /\ rpc[r] = "error"
  /\ Goto(r, "raised", "none")
  /\ UNCHANGED <<kind, group, connectionVars, transferVars>>

(***************************************************************************)
(* The call raises in the client, whether or not the volume has handled    *)
(* it; when calls may be abandoned, also while it is being served.         *)
(***************************************************************************)
Failing == {"handshake", "data", "ok"}
           \cup IF "abandon" \in GlooFault THEN {"serving"} ELSE {}

GlooCallFails(r) ==
  /\ "client" \in GlooFault
  /\ phase[r] \in {"handshake", "data"}
  /\ rpc[r] \in Failing
  /\ rpc' = [rpc EXCEPT ![r] = "error"]
  /\ UNCHANGED <<phase, kind, group, connectionVars, transferVars>>

(* Another LocalClient, and so another TransportContext, in this process. *)
NewClient ==
  /\ "reset" \in GlooFault
  /\ clientGroups # {} /\ \A r \in Request : ~Active(r)
  /\ clientGroups' = {}
  /\ UNCHANGED <<bufferVars, kind, group, storeAddr, volumeGroups,
                 transferVars>>

-----------------------------------------------------------------------------
(* The volume *)

GlooRecvHandshake(r) ==
  /\ rpc[r] = "handshake"
  /\ \/ /\ rpc' = [rpc EXCEPT ![r] = "ok"]
        /\ volumeGroups' = volumeGroups \cup {group[r]}
     \/ /\ "volume" \in GlooFault
        /\ rpc' = [rpc EXCEPT ![r] = "error"]
        /\ UNCHANGED volumeGroups
  /\ UNCHANGED <<phase, kind, group, storeAddr, clientGroups, transferVars>>

(* handle_put_request and handle_get_request, up to the transfer. *)
GlooHandle(r) ==
  /\ rpc[r] = "data"
  /\ IF kind[r] = "object"
     THEN rpc' = [rpc EXCEPT ![r] = "ok"] /\ UNCHANGED serving
     ELSE IF group[r] \in volumeGroups
     THEN /\ rpc' = [rpc EXCEPT ![r] = "serving"]
          /\ serving' = [serving EXCEPT ![r] = "started"]
     ELSE rpc' = [rpc EXCEPT ![r] = "error"] /\ UNCHANGED serving
  /\ UNCHANGED <<phase, kind, group, connectionVars, broken, task, wire, took>>

(* The store refuses the request before the buffer sees it. *)
GlooRefuses(r) ==
  /\ "volume" \in GlooFault
  /\ rpc[r] = "data"
  /\ rpc' = [rpc EXCEPT ![r] = "error"]
  /\ UNCHANGED <<phase, kind, group, connectionVars, transferVars>>

GlooServed(r) ==
  /\ rpc[r] = "serving" /\ serving[r] \in {"met", "failed"}
  /\ rpc' = [rpc EXCEPT ![r] = IF serving[r] = "met" THEN "ok" ELSE "error"]
  /\ UNCHANGED <<phase, kind, group, connectionVars, transferVars>>

-----------------------------------------------------------------------------
(* The transfers *)

(* pg.send and pg.recv, each in a thread of its own. *)
PostOn(r, lane) == wire' = [wire EXCEPT ![group[r]][lane] = Append(@, r)]

ClientPosts(r) ==
  /\ task[r] = "started"
  /\ IF group[r] \in clientGroups \ broken
     THEN task' = [task EXCEPT ![r] = "posted"] /\ PostOn(r, ClientLane(r))
     ELSE task' = [task EXCEPT ![r] = "failed"] /\ UNCHANGED wire
  /\ UNCHANGED <<bufferVars, kind, group, connectionVars, broken, serving,
                 took>>

VolumePosts(r) ==
  /\ serving[r] = "started"
  /\ IF group[r] \notin broken
     THEN /\ serving' = [serving EXCEPT ![r] = "posted"]
          /\ PostOn(r, VolumeLane(r))
     ELSE serving' = [serving EXCEPT ![r] = "failed"] /\ UNCHANGED wire
  /\ UNCHANGED <<bufferVars, kind, group, connectionVars, broken, task, took>>

(* The first send meets the first receive: the receiver takes that tensor. *)
Meet(g, k) ==
  LET sends    == wire[g][<<k, "send">>]
      receives == wire[g][<<k, "receive">>]
  IN  /\ sends # <<>> /\ receives # <<>>
      /\ wire' = [wire EXCEPT ![g][<<k, "send">>] = Tail(@),
                              ![g][<<k, "receive">>] = Tail(@)]
      /\ took' = [took EXCEPT ![Head(receives)] = Head(sends)]
      /\ LET onClient == IF k = "put" THEN Head(sends) ELSE Head(receives)
             onVolume == IF k = "put" THEN Head(receives) ELSE Head(sends)
         IN  /\ task' = [task EXCEPT ![onClient] = "met"]
             /\ serving' = [serving EXCEPT ![onVolume] = "met"]
      /\ UNCHANGED <<bufferVars, kind, group, connectionVars, broken>>

FailedOn(gs, operation) ==
  [r \in Request |-> IF group[r] \in gs /\ operation[r] = "posted"
                     THEN "failed" ELSE operation[r]]

(* The end of the connections: what waits on them fails at either end. *)
Broken(gs) ==
  /\ broken' = broken \cup gs
  /\ wire' = [g \in Request |-> IF g \in gs THEN [l \in Lane |-> <<>>]
                               ELSE wire[g]]
  /\ task' = FailedOn(gs, task)
  /\ serving' = FailedOn(gs, serving)
  /\ UNCHANGED took

(* Gloo closes the pair of a group when an operation on it times out. *)
TimesOut(g) ==
  /\ "timeout" \in GlooFault
  /\ \E l \in Lane : wire[g][l] # <<>>
  /\ Broken({g})
  /\ UNCHANGED <<bufferVars, kind, group, connectionVars>>

(* Another volume of the same name, as after shutdown and initialize. *)
NewVolume ==
  /\ "reset" \in GlooFault
  /\ volumeGroups # {} /\ \A r \in Request : ~Active(r)
  /\ volumeGroups' = {}
  /\ Broken(volumeGroups)
  /\ UNCHANGED <<bufferVars, kind, group, storeAddr, clientGroups>>

GlooNext ==
  \/ \E r \in Request :
       \/ \E k \in Kind : GlooStart(r, k)
       \/ GlooPostHandshake(r) \/ GlooSend(r) \/ GlooHookFails(r) \/ GlooReturns(r)
       \/ GlooHandshakeRaises(r) \/ GlooCallFails(r)
       \/ GlooRecvHandshake(r) \/ GlooHandle(r) \/ GlooRefuses(r) \/ GlooServed(r)
       \/ ClientPosts(r) \/ VolumePosts(r) \/ TimesOut(r)
       \/ \E k \in {"put", "get"} : Meet(r, k)
  \/ NewClient \/ NewVolume

GlooSpec == BufferInit /\ GlooInit /\ [][GlooNext]_glooVars

-----------------------------------------------------------------------------
(* Every variable of the groups and tasks holds a value of its type. *)
GlooTypeOK ==
  /\ BufferTypeOK
  /\ kind \in [Request -> Kind]
  /\ group \in [Request -> Request \cup {NoRequest}]
  /\ storeAddr \in Request \cup {NoRequest}
  /\ clientGroups \subseteq Request /\ volumeGroups \subseteq Request
  /\ broken \subseteq Request
  /\ task \in [Request -> Operation] /\ serving \in [Request -> Operation]
  /\ wire \in [Request -> [Lane -> Seq(Request)]]
  /\ took \in [Request -> Request \cup {NoRequest}]

(***************************************************************************)
(* What a put stores and what a get returns is the tensor that was sent    *)
(* for it, also after calls that failed half-way, timeouts and new groups. *)
(***************************************************************************)
TakesItsOwn ==
  \A r \in Request :
    /\ kind[r] = "get" /\ phase[r] = "done" => took[r] = r
    /\ kind[r] = "put" /\ serving[r] = "met" => took[r] = r
=============================================================================
