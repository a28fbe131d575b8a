------------------------ MODULE SharedMemoryTransport ------------------------
(***************************************************************************)
(* SharedMemoryTransportBuffer: the client processes of a host put into,   *)
(* get from and delete from the volume of that host.  A put copies its     *)
(* tensor into the segment before the volume hears of it: into the one     *)
(* that the volume already holds, or into a new one that is named by the   *)
(* request that allocates it.  A segment exists while someone maps it.     *)
(***************************************************************************)
EXTENDS TransportBuffers

CONSTANTS
  Process,     \* client processes, each with its SharedMemoryCache
  Name,        \* keys of the store
  Part,        \* parts of a tensor that are copied one after another
  Racing,      \* may a put or delete of a key overlap other calls on it?
  ShmFault     \* which of "volume", "client" may fail

ASSUME RacingAssumption == Racing \in BOOLEAN

VARIABLES
  call,        \* call[r]: the process, the operation and the key of r
  stored,      \* stored[k]: the segment of the tensor in the volume's kv
  content,     \* content[s][p]: the put whose data part p of segment s has
  descriptor,  \* descriptor[r]: the segment that r was told of or allocated
  mapped,      \* <<process, key, segment>>: the _storages of the caches
  copied,      \* copied[r]: the parts that r has copied
  got,         \* got[r][p]: what a get has found in part p
  latest       \* latest[k]: the puts of which a get may return the data: the
               \* last that returned, and those that began since

tensorVars == <<stored, content, descriptor, mapped, copied, got>>
shmVars == <<bufferVars, call, tensorVars, latest>>

Operations == {"put", "get", "delete"}
NoCall == [process |-> NoRequest, operation |-> NoRequest, key |-> NoRequest]
NoData == [p \in Part |-> NoRequest]

SharedMemoryInit ==
  /\ call = [r \in Request |-> NoCall]
  /\ stored = [k \in Name |-> NoRequest]
  /\ content = [s \in Request |-> NoData]
  /\ descriptor = [r \in Request |-> NoRequest]
  /\ mapped = {}
  /\ copied = [r \in Request |-> {}]
  /\ got = [r \in Request |-> NoData]
  /\ latest = [k \in Name |-> {}]

-----------------------------------------------------------------------------
KeyOf(r) == call[r].key
Is(r, operation) == call[r].operation = operation

Exists(s) ==
  \/ \E k \in Name : stored[k] = s
  \/ \E m \in mapped : m[3] = s

(* Variant: the cache goes by the key alone. *)
AttachedByKey(r, s) ==
  LET old == { m \in mapped : m[1] = call[r].process /\ m[2] = KeyOf(r) }
  IN  IF old = {} THEN s ELSE (CHOOSE m \in old : TRUE)[3]

(* SharedMemoryCache.attach: by key and handle. *)
Attached(r, s) == s

Mapping(r, s) == <<call[r].process, KeyOf(r), s>>

-----------------------------------------------------------------------------
(* The clients *)

(* A put needs a handshake; a get, or a delete, does not. *)
ShmStart(r, c, o, k) ==
  /\ phase[r] = "new"
  /\ Racing \/ \A q \in Request :
       Active(q) /\ KeyOf(q) = k => o = "get" /\ Is(q, "get")
  /\ call' = [call EXCEPT ![r] = [process |-> c, operation |-> o, key |-> k]]
  /\ IF o = "put" THEN Goto(r, "handshake", "handshake")
     ELSE Goto(r, "data", "data")
  /\ latest' = IF o = "put" THEN [latest EXCEPT ![k] = @ \cup {r}] ELSE latest
  /\ UNCHANGED tensorVars

(* _post_handshake: attach to the volume's segment, or allocate one. *)
ShmPostHandshake(r) ==
  /\ phase[r] = "handshake" /\ rpc[r] = "ok"
  /\ LET s == IF descriptor[r] = NoRequest THEN r ELSE descriptor[r]
     IN  IF s = r \/ Exists(s)
         THEN /\ Goto(r, "copy", "none")
              /\ descriptor' = [descriptor EXCEPT ![r] = Attached(r, s)]
              /\ mapped' = mapped \cup {Mapping(r, Attached(r, s))}
         ELSE /\ Goto(r, "raised", "none")
              /\ UNCHANGED <<descriptor, mapped>>
  /\ UNCHANGED <<call, stored, content, copied, got, latest>>

(* After the last copy, when the copy streams are synchronised, the put. *)
SendsWhenCopied(r, p) ==
  IF copied[r] \cup {p} = Part THEN Goto(r, "data", "data")
  ELSE UNCHANGED <<phase, rpc>>

CopyIn(r, p) ==
  /\ phase[r] = "copy" /\ Is(r, "put") /\ p \notin copied[r]
  /\ content' = [content EXCEPT ![descriptor[r]][p] = r]
  /\ copied' = [copied EXCEPT ![r] = @ \cup {p}]
  /\ SendsWhenCopied(r, p)
  /\ UNCHANGED <<call, stored, descriptor, mapped, got, latest>>

(* _handle_storage_volume_response of a get: attach, then clone. *)
AttachForGet(r) ==
  /\ phase[r] = "data" /\ rpc[r] = "ok" /\ Is(r, "get")
  /\ IF Exists(descriptor[r])
     THEN /\ Goto(r, "copy", "none")
          /\ descriptor' =
               [descriptor EXCEPT ![r] = Attached(r, descriptor[r])]
          /\ mapped' = mapped \cup {Mapping(r, Attached(r, descriptor[r]))}
     ELSE /\ Goto(r, "raised", "none")
          /\ UNCHANGED <<descriptor, mapped>>
  /\ UNCHANGED <<call, stored, content, copied, got, latest>>

CopyOut(r, p) ==
  /\ phase[r] = "copy" /\ Is(r, "get") /\ p \notin copied[r]
  /\ got' = [got EXCEPT ![r][p] = content[descriptor[r]][p]]
  /\ copied' = [copied EXCEPT ![r] = @ \cup {p}]
  /\ IF copied[r] \cup {p} = Part THEN Goto(r, "done", "none")
     ELSE UNCHANGED <<phase, rpc>>
  /\ UNCHANGED <<call, stored, content, descriptor, mapped, latest>>

ShmPutReturns(r) ==
  /\ phase[r] = "data" /\ rpc[r] = "ok" /\ Is(r, "put")
  /\ Goto(r, "done", "none")
  /\ latest' = [latest EXCEPT ![KeyOf(r)] = {r}]
  /\ UNCHANGED <<call, tensorVars>>

(* TransportContext.delete: only the process that deletes drops its maps. *)
ShmDeleteReturns(r) ==
  /\ phase[r] = "data" /\ rpc[r] = "ok" /\ Is(r, "delete")
  /\ Goto(r, "done", "none")
  /\ mapped' = { m \in mapped : <<m[1], m[2]>> # <<call[r].process, KeyOf(r)>> }
  /\ latest' = [latest EXCEPT ![KeyOf(r)] = {}]
  /\ UNCHANGED <<call, stored, content, descriptor, copied, got>>

ShmRaises(r) ==
  /\ rpc[r] = "error" /\ Active(r)
  /\ Goto(r, "raised", "none")
  /\ UNCHANGED <<call, tensorVars, latest>>

ShmCallFails(r) ==
  /\ "client" \in ShmFault
  /\ rpc[r] \in Unhandled \cup {"ok"} /\ Active(r)
  /\ Reply(r, "error")
  /\ UNCHANGED <<call, tensorVars, latest>>

-----------------------------------------------------------------------------
(* The volume *)

(* recv_handshake: the descriptor of the stored tensor, if there is one. *)
ShmRecvHandshake(r) ==
  /\ rpc[r] = "handshake"
  /\ Reply(r, "ok")
  /\ descriptor' = [descriptor EXCEPT ![r] = stored[KeyOf(r)]]
  /\ UNCHANGED <<call, stored, content, mapped, copied, got, latest>>

(* handle_put_request: the storage must be that of the handshake. *)
ShmHandlePut(r) ==
  /\ rpc[r] = "data" /\ Is(r, "put")
  /\ IF stored[KeyOf(r)] \in {NoRequest, descriptor[r]} /\ Exists(descriptor[r])
     THEN /\ Reply(r, "ok")
          /\ stored' = [stored EXCEPT ![KeyOf(r)] = descriptor[r]]
     ELSE Reply(r, "error") /\ UNCHANGED stored
  /\ UNCHANGED <<call, content, descriptor, mapped, copied, got, latest>>

ShmHandleGet(r) ==
  /\ rpc[r] = "data" /\ Is(r, "get")
  /\ Reply(r, IF stored[KeyOf(r)] = NoRequest THEN "error" ELSE "ok")
  /\ descriptor' = [descriptor EXCEPT ![r] = stored[KeyOf(r)]]
  /\ UNCHANGED <<call, stored, content, mapped, copied, got, latest>>

ShmHandleDelete(r) ==
  /\ rpc[r] = "data" /\ Is(r, "delete")
  /\ Reply(r, IF stored[KeyOf(r)] = NoRequest THEN "error" ELSE "ok")
  /\ stored' = [stored EXCEPT ![KeyOf(r)] = NoRequest]
  /\ UNCHANGED <<call, content, descriptor, mapped, copied, got, latest>>

ShmRefuses(r) ==
  /\ "volume" \in ShmFault /\ rpc[r] \in Unhandled
  /\ Reply(r, "error")
  /\ UNCHANGED <<call, tensorVars, latest>>

SharedMemoryNext ==
  \E r \in Request :
    \/ \E c \in Process, o \in Operations, k \in Name : ShmStart(r, c, o, k)
    \/ ShmPostHandshake(r) \/ AttachForGet(r)
    \/ \E p \in Part : CopyIn(r, p) \/ CopyOut(r, p)
    \/ ShmPutReturns(r) \/ ShmDeleteReturns(r)
    \/ ShmRaises(r) \/ ShmCallFails(r)
    \/ ShmRecvHandshake(r) \/ ShmHandlePut(r) \/ ShmHandleGet(r)
    \/ ShmHandleDelete(r) \/ ShmRefuses(r)

SharedMemorySpec ==
  BufferInit /\ SharedMemoryInit /\ [][SharedMemoryNext]_shmVars

-----------------------------------------------------------------------------
(* Every variable of segments and caches holds a value of its type. *)
SharedMemoryTypeOK ==
  /\ BufferTypeOK
  /\ call \in [Request -> [process : Process, operation : Operations, key : Name]
                          \cup {NoCall}]
  /\ stored \in [Name -> Request \cup {NoRequest}]
  /\ content \in [Request -> [Part -> Request \cup {NoRequest}]]
  /\ descriptor \in [Request -> Request \cup {NoRequest}]
  /\ mapped \subseteq Process \X Name \X Request
  /\ copied \in [Request -> SUBSET Part]
  /\ got \in [Request -> [Part -> Request \cup {NoRequest}]]
  /\ latest \in [Name -> SUBSET Request]

(***************************************************************************)
(* A get that returns returns the data of one put, whole: of the last put  *)
(* of the key that returned, or of one that failed since and had copied.   *)
(* It never sees a segment that a delete has left in its process's cache.  *)
(***************************************************************************)
GetSeesLatest ==
  [][\A r \in Request :
       Is(r, "get") /\ phase[r] = "copy" /\ phase'[r] = "done" =>
         \E q \in latest[KeyOf(r)] : \A p \in Part : got'[r][p] = q]_shmVars
=============================================================================
