----------------------------- MODULE Transports -----------------------------
(***************************************************************************)
(* The transports together.  create_transport_buffer picks the class of a  *)
(* buffer from what the process and its environment offer, which does not  *)
(* change while it runs; so all the requests that a client process sends   *)
(* to a volume go through one transport.                                   *)
(***************************************************************************)
EXTENDS UniflowTransport, GlooTransport, SharedMemoryTransport, NixlTransport

VARIABLE transport  \* the type of the buffers that the process creates

transportVars == <<bufferVars, endVars, kind, group, connectionVars,
                   transferVars, call, tensorVars, latest, memoryVars>>

TransportType == {"MonarchRPC", "MonarchRDMA", "TorchComms", "Gloo",
                  "SharedMemory", "NIXL"}

(* In the order in which get_available_transport asks for them. *)
Preferred == <<"SharedMemory", "NIXL", "TorchComms", "MonarchRDMA", "Gloo">>

AvailableTransport(offer) ==
  LET usable == { i \in DOMAIN Preferred : Preferred[i] \in offer }
  IN  IF usable = {} THEN "MonarchRPC"
      ELSE Preferred[CHOOSE i \in usable : \A j \in usable : i <= j]

(***************************************************************************)
(* create_transport_buffer resolves a type that is not set; it refuses     *)
(* TorchComms and NIXL where they are not available.                       *)
(***************************************************************************)
Created(default, offer) ==
  IF default = "Unset" THEN AvailableTransport(offer)
  ELSE IF default \in {"TorchComms", "NIXL"} \ offer THEN "refused"
  ELSE default

Init ==
  /\ \E offer \in SUBSET { Preferred[i] : i \in DOMAIN Preferred } :
       \E default \in TransportType \cup {"Unset"} :
         transport = Created(default, offer)
  /\ BufferInit /\ UniflowInit /\ GlooInit /\ SharedMemoryInit /\ NixlInit

Next ==
  /\ UNCHANGED transport
  /\ \/ /\ transport = "TorchComms" /\ UniflowNext
        /\ UNCHANGED <<kind, group, connectionVars, transferVars, call,
                       tensorVars, latest, memoryVars>>
     \/ /\ transport = "Gloo" /\ GlooNext
        /\ UNCHANGED <<endVars, call, tensorVars, latest, memoryVars>>
     \/ /\ transport = "SharedMemory" /\ SharedMemoryNext
        /\ UNCHANGED <<endVars, kind, group, connectionVars, transferVars,
                       memoryVars>>
     \/ /\ transport = "NIXL" /\ NixlNext
        /\ UNCHANGED <<endVars, kind, group, connectionVars, transferVars,
                       call, tensorVars, latest>>

Spec == Init /\ [][Next]_<<transportVars, transport>>

(* Every variable of the buffers and caches holds a value of its type. *)
TransportsTypeOK ==
  /\ transport \in TransportType \cup {"refused"}
  /\ UniflowTypeOK /\ GlooTypeOK /\ SharedMemoryTypeOK /\ NixlTypeOK
=============================================================================
