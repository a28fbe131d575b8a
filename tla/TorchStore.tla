----------------------------- MODULE TorchStore -----------------------------
(***************************************************************************)
(* The store as its callers see it: clients that run put_batch, get_batch, *)
(* delete, delete_batch and exists as sequences of calls to the controller *)
(* and to the storage volumes.                                             *)
(*                                                                         *)
(* An endpoint call is one step; between two calls of a client any other   *)
(* client may run.  Where a client gathers one coroutine per volume, the   *)
(* coroutines are interleaved, and one that is still running when another  *)
(* has failed goes on in the background of the caller.                     *)
(***************************************************************************)
EXTENDS Controller, StorageVolume

CONSTANTS
  Home,           \* Home[c]: the volume select_storage_volume gives client c
  PutMenu,        \* PutMenu[c]: the batches of requests client c may put
  GetMenu,        \* the get_batch arguments: functions from keys to wants
  DeleteMenu,     \* the keys that may be passed to delete
  BatchMenu,      \* the sets of keys that may be passed to delete_batch
  BatchPuts,      \* supports_batch_puts of the transport
  BatchGets,      \* supports_batch_gets of the transport
  Faults,         \* the points of a call where it may fail
  Discipline      \* what callers promise about puts and deletes of a key

CallPoints == {"put", "notify", "fetch", "notify_batch"}
BranchPoints == {"notify_delete", "delete", "delete_batch"}

Disciplines == {"none", "calls", "drained"}

(* What get asks of a key: all of it, or (sliced) the region of a slice. *)
Want == [sliced : BOOLEAN, region : SUBSET Cell]
Wants == UNION { [keys -> Want] : keys \in SUBSET Key }

ASSUME MenuAssumption ==
  /\ Home \in [Client -> Volume]
  /\ \A c \in Client : \A rs \in PutMenu[c] : IsBatch(rs)
  /\ GetMenu \subseteq Wants
  /\ \A wants \in GetMenu : \A k \in DOMAIN wants :
       ~wants[k].sliced => wants[k].region = Cell
  /\ DeleteMenu \subseteq Key
  /\ BatchMenu \subseteq SUBSET Key
  /\ BatchPuts \in BOOLEAN /\ BatchGets \in BOOLEAN
  /\ Faults \subseteq CallPoints \cup BranchPoints
  /\ Discipline \in Disciplines

VARIABLES
  pc,       \* pc[c]: where the call of client c stands
  call,     \* call[c]: the operation and arguments of c's current or last call
  outcome,  \* outcome[c]: how that call ended
  reqs,     \* reqs[c]: the batch a put carries
  sent,     \* sent[c]: how many requests of the batch the volume has taken
  fetch,    \* fetch[c][v]: the sub-requests a get still has to make at v
  parts,    \* parts[c]: what a get has fetched
  branch    \* branch[c][v]: the delete coroutine of c for volume v

clientVars == <<pc, call, outcome, reqs, sent, fetch, parts, branch>>
vars == <<controllerVars, store, clientVars>>

Ops == {"none", "put", "get", "delete", "delete_batch", "exists"}
Outcomes == {"none", "ok", "absent", "KeyError", "AssertionError",
             "RuntimeError", "Failed"}

(***************************************************************************)
(* A delete coroutine: nothing, about to notify the controller, about to   *)
(* delete on the volume, or (delete_batch) located and about to notify for *)
(* all volumes at once, then about to delete the batch on its volume.      *)
(***************************************************************************)
NoBranch == [stage |-> "none", keys |-> {}]
Branch == [stage : {"none", "located"} \cup BranchPoints,
           keys  : SUBSET Key]

NoCall == [op |-> "none", keys |-> {}, wants |-> <<>>]
NoFetch == [v \in Volume |-> {}]
NoBranches == [v \in Volume |-> NoBranch]

ClientTypeOK ==
  /\ pc \in [Client -> {"idle", "put", "notify", "fetch", "delete",
                        "notify_batch", "delete_batch"}]
  /\ call \in [Client -> [op : Ops, keys : SUBSET Key, wants : Wants]]
  /\ outcome \in [Client -> Outcomes]
  /\ reqs \in [Client -> Seq(Request)]
  /\ sent \in [Client -> Nat]
  /\ fetch \in [Client -> [Volume -> SUBSET SubRequest]]
  /\ parts \in [Client -> SUBSET Part]
  /\ branch \in [Client -> [Volume -> Branch]]

(* Every variable of the store holds a value of its type. *)
TypeOK == ControllerTypeOK /\ VolumeTypeOK /\ ClientTypeOK

Init ==
  /\ ControllerInit
  /\ VolumeInit
  /\ pc = [c \in Client |-> "idle"]
  /\ call = [c \in Client |-> NoCall]
  /\ outcome = [c \in Client |-> "none"]
  /\ reqs = [c \in Client |-> <<>>]
  /\ sent = [c \in Client |-> 0]
  /\ fetch = [c \in Client |-> NoFetch]
  /\ parts = [c \in Client |-> {}]
  /\ branch = [c \in Client |-> NoBranches]

-----------------------------------------------------------------------------
(* What is in flight *)

Putting(c, k) == pc[c] \in {"put", "notify"} /\ k \in KeysOf(reqs[c])

DeleteCalled(c, k) ==
  pc[c] \in {"delete", "notify_batch", "delete_batch"} /\ k \in call[c].keys

DeleteRunning(c, k) == \E v \in Volume : k \in branch[c][v].keys

(***************************************************************************)
(* The callers' promise.  With "calls" no put of a key overlaps a call     *)
(* that deletes the key; with "drained" it does not even overlap what such *)
(* a call has left running in the background.  "none" promises nothing.    *)
(***************************************************************************)
MayPut(keys) ==
  \A c \in Client : \A k \in keys :
    /\ Discipline # "none" => ~DeleteCalled(c, k)
    /\ Discipline = "drained" => ~DeleteRunning(c, k)

MayDelete(keys) ==
  Discipline # "none" => \A c \in Client : \A k \in keys : ~Putting(c, k)

(* A call begins; the client runs one call at a time. *)
Begin(c, op, keys, wants) ==
  /\ pc[c] = "idle"
  /\ call' = [call EXCEPT ![c] = [op |-> op, keys |-> keys, wants |-> wants]]
  /\ parts' = [parts EXCEPT ![c] = {}]

Goto(c, to) ==
  /\ pc' = [pc EXCEPT ![c] = to]
  /\ outcome' = [outcome EXCEPT ![c] = "none"]

(* The call returns, or raises. *)
Return(c, result) ==
  /\ pc' = [pc EXCEPT ![c] = "idle"]
  /\ outcome' = [outcome EXCEPT ![c] = result]

DropBatch(c) ==
  /\ reqs' = [reqs EXCEPT ![c] = <<>>]
  /\ sent' = [sent EXCEPT ![c] = 0]

-----------------------------------------------------------------------------
(* put and put_batch *)

StartPut(c, rs) ==
  /\ Begin(c, "put", KeysOf(rs), <<>>)
  /\ rs \in PutMenu[c]
  /\ MayPut(KeysOf(rs))
  /\ Goto(c, "put")
  /\ reqs' = [reqs EXCEPT ![c] = rs]
  /\ sent' = [sent EXCEPT ![c] = 0]
  /\ UNCHANGED <<controllerVars, store, fetch, branch>>

(* The requests of one call of volume.put: the batch, or the next of it. *)
Chunk(c) ==
  IF BatchPuts THEN reqs[c] ELSE SubSeq(reqs[c], sent[c] + 1, sent[c] + 1)

VolumePut(c) ==
  /\ pc[c] = "put"
  /\ IF PutAccepts(Home[c], Chunk(c))
     THEN /\ PutVolume(Home[c], Chunk(c))
          /\ sent' = [sent EXCEPT ![c] = @ + Len(Chunk(c))]
          /\ Goto(c, IF sent'[c] = Len(reqs[c]) THEN "notify" ELSE "put")
          /\ UNCHANGED reqs
     ELSE /\ Return(c, "AssertionError")
          /\ DropBatch(c)
          /\ UNCHANGED store
  /\ UNCHANGED <<controllerVars, call, fetch, parts, branch>>

NotifyPut(c) ==
  /\ pc[c] = "notify"
  /\ NotifyPutBatch(reqs[c], Home[c])
  /\ Return(c, IF NotifyPutSucceeds(reqs[c], Home[c])
               THEN "ok" ELSE "AssertionError")
  /\ DropBatch(c)
  /\ UNCHANGED <<store, call, fetch, parts, branch>>

-----------------------------------------------------------------------------
(* get and get_batch *)

(* The volume whose OBJECT or TENSOR ends the loop over the volume map. *)
IsFirstWhole(k, v) ==
  Indexed(k, v) /\ ~IsSliced(k, v) /\ \A u \in Older(k, v) : IsSliced(k, u)

(* _build_volume_requests and _expand_tensor_slices for one key and volume *)
SubRequests(k, v, want) ==
  CASE IsFirstWhole(k, v) ->
         { IF index[k][v].object_type = "OBJECT"
           THEN [key |-> k, sliced |-> FALSE, region |-> Cell]
           ELSE [key |-> k, sliced |-> want.sliced, region |-> want.region] }
    [] v \in Visited(k) ->
         { [key |-> k, sliced |-> TRUE, region |-> s.region \cap want.region] :
             s \in { t \in index[k][v].tensor_slices :
                       t.region \cap want.region # {} } }
    [] OTHER -> {}

FetchPlan(wants) ==
  [v \in Volume |->
     UNION { SubRequests(k, v, wants[k]) : k \in DOMAIN wants }]

StartGet(c, wants) ==
  /\ Begin(c, "get", DOMAIN wants, wants)
  /\ IF \A k \in DOMAIN wants : Locate(k, TRUE) = "ok"
     THEN IF FetchPlan(wants) = NoFetch
          THEN Return(c, "RuntimeError") /\ UNCHANGED fetch
          ELSE /\ Goto(c, "fetch")
               /\ fetch' = [fetch EXCEPT ![c] = FetchPlan(wants)]
     ELSE Return(c, "KeyError") /\ UNCHANGED fetch
  /\ UNCHANGED <<controllerVars, store, reqs, sent, branch>>

(* The last answer completes the call; a key without any part fails it. *)
Assembled(c, got) ==
  IF \A k \in call[c].keys : \E p \in got : p.key = k
  THEN "ok" ELSE "RuntimeError"

(* One call of volume.get, for all of the sub-requests at v or one of them. *)
VolumeGet(c, v, subs) ==
  LET got  == parts[c] \cup { GetPart(v, sub) : sub \in subs }
      rest == [fetch[c] EXCEPT ![v] = @ \ subs]
  IN  /\ pc[c] = "fetch"
      /\ subs # {} /\ subs \subseteq fetch[c][v]
      /\ IF BatchGets THEN subs = fetch[c][v] ELSE Cardinality(subs) = 1
      /\ IF \A sub \in subs : GetOutcome(v, sub) = "ok"
         THEN /\ parts' = [parts EXCEPT ![c] = got]
              /\ fetch' = [fetch EXCEPT ![c] = rest]
              /\ IF rest = NoFetch THEN Return(c, Assembled(c, got))
                                   ELSE Goto(c, "fetch")
         ELSE /\ \E sub \in subs :
                   /\ GetOutcome(v, sub) # "ok"
                   /\ Return(c, GetOutcome(v, sub))
              /\ fetch' = [fetch EXCEPT ![c] = NoFetch]
              /\ parts' = [parts EXCEPT ![c] = {}]
      /\ UNCHANGED <<controllerVars, store, call, reqs, sent, branch>>

-----------------------------------------------------------------------------
(* delete *)

Quiet(c) == branch[c] = NoBranches

(* Variant: a client deletes the copy on its own volume only. *)
StartDeleteOwn(c, k) ==
  /\ Begin(c, "delete", {k}, <<>>)
  /\ Quiet(c)
  /\ MayDelete({k})
  /\ IF Locate(k, TRUE) = "ok" /\ Indexed(k, Home[c])
     THEN /\ Goto(c, "delete")
          /\ branch' = [branch EXCEPT ![c][Home[c]] =
                          [stage |-> "notify_delete", keys |-> {k}]]
     ELSE Return(c, "KeyError") /\ UNCHANGED branch
  /\ UNCHANGED <<controllerVars, store, reqs, sent, fetch>>

(* Locate the key, and start one coroutine per volume that holds it. *)
StartDelete(c, k) ==
  /\ Begin(c, "delete", {k}, <<>>)
  /\ Quiet(c)
  /\ MayDelete({k})
  /\ IF Locate(k, TRUE) = "ok"
     THEN /\ Goto(c, "delete")
          /\ branch' = [branch EXCEPT ![c] = [v \in Volume |->
               IF Indexed(k, v) THEN [stage |-> "notify_delete", keys |-> {k}]
                                ELSE NoBranch]]
     ELSE Return(c, Locate(k, TRUE)) /\ UNCHANGED branch
  /\ UNCHANGED <<controllerVars, store, reqs, sent, fetch>>

(* gather returns when the last coroutine ends. *)
BranchEnds(c, v) ==
  /\ branch' = [branch EXCEPT ![c][v] = NoBranch]
  /\ IF branch'[c] = NoBranches /\ pc[c] \in {"delete", "delete_batch"}
     THEN Return(c, "ok")
     ELSE UNCHANGED <<pc, outcome>>

(* Variant: the first failure cancels the other coroutines. *)
BranchCancels(c, v, error) ==
  /\ branch' = [branch EXCEPT ![c] = NoBranches]
  /\ IF pc[c] \in {"delete", "delete_batch"}
     THEN Return(c, error)
     ELSE UNCHANGED <<pc, outcome>>

(* Variant: the failure of a coroutine is swallowed. *)
BranchVanishes(c, v, error) ==
  /\ branch' = [branch EXCEPT ![c][v] = NoBranch]
  /\ UNCHANGED <<pc, outcome>>

(* gather raises at the first failure; the other coroutines go on. *)
BranchRaises(c, v, error) ==
  /\ branch' = [branch EXCEPT ![c][v] = NoBranch]
  /\ IF pc[c] \in {"delete", "delete_batch"}
     THEN Return(c, error)
     ELSE UNCHANGED <<pc, outcome>>

DeletedKey(c, v) == CHOOSE k \in Key : k \in branch[c][v].keys

NotifyDeleteFrom(c, v) ==
  LET k == DeletedKey(c, v)
  IN  /\ branch[c][v].stage = "notify_delete"
      /\ IF NotifyDeleteSucceeds(k, v)
         THEN /\ NotifyDelete(k, v)
              /\ branch' = [branch EXCEPT ![c][v].stage = "delete"]
              /\ UNCHANGED <<pc, outcome>>
         ELSE BranchRaises(c, v, "KeyError") /\ UNCHANGED controllerVars
      /\ UNCHANGED <<store, call, reqs, sent, fetch, parts>>

VolumeDelete(c, v) ==
  LET k == DeletedKey(c, v)
  IN  /\ branch[c][v].stage = "delete"
      /\ IF DeleteSucceeds(v, k)
         THEN DeleteKeys(v, {k}) /\ BranchEnds(c, v)
         ELSE BranchRaises(c, v, "KeyError") /\ UNCHANGED store
      /\ UNCHANGED <<controllerVars, call, reqs, sent, fetch, parts>>

-----------------------------------------------------------------------------
(* delete_batch *)

(* Variant: the volumes delete before the controller is notified. *)
StartDeleteBatchUnnotified(c, keys) ==
  LET found == [v \in Volume |->
        LET at == { k \in keys : Indexed(k, v) }
        IN  IF at = {} THEN NoBranch ELSE [stage |-> "delete_batch", keys |-> at]]
  IN  /\ Begin(c, "delete_batch", keys, <<>>)
      /\ Quiet(c)
      /\ MayDelete(keys)
      /\ branch' = [branch EXCEPT ![c] = found]
      /\ IF found = NoBranches THEN Return(c, "ok") ELSE Goto(c, "delete_batch")
      /\ UNCHANGED <<controllerVars, store, reqs, sent, fetch>>

(* Missing keys and partially committed tensors are no error here. *)
StartDeleteBatch(c, keys) ==
  LET found == [v \in Volume |->
        LET at == { k \in keys : Indexed(k, v) }
        IN  IF at = {} THEN NoBranch ELSE [stage |-> "located", keys |-> at]]
  IN  /\ Begin(c, "delete_batch", keys, <<>>)
      /\ Quiet(c)
      /\ MayDelete(keys)
      /\ branch' = [branch EXCEPT ![c] = found]
      /\ IF found = NoBranches THEN Return(c, "ok") ELSE Goto(c, "notify_batch")
      /\ UNCHANGED <<controllerVars, store, reqs, sent, fetch>>

NotifyDeleteKeys(c) ==
  /\ pc[c] = "notify_batch"
  /\ NotifyDeleteBatch([v \in Volume |-> branch[c][v].keys])
  /\ branch' = [branch EXCEPT ![c] = [v \in Volume |->
       IF branch[c][v] = NoBranch THEN NoBranch
       ELSE [branch[c][v] EXCEPT !.stage = "delete_batch"]]]
  /\ Goto(c, "delete_batch")
  /\ UNCHANGED <<store, call, reqs, sent, fetch, parts>>

VolumeDeleteBatch(c, v) ==
  /\ branch[c][v].stage = "delete_batch"
  /\ DeleteKeys(v, branch[c][v].keys)
  /\ BranchEnds(c, v)
  /\ UNCHANGED <<controllerVars, call, reqs, sent, fetch, parts>>

-----------------------------------------------------------------------------
(* exists: a KeyError of the controller means the key is absent. *)

Exists(c, k) ==
  /\ Begin(c, "exists", {k}, <<>>)
  /\ Return(c, IF Locate(k, TRUE) = "KeyError" THEN "absent"
               ELSE Locate(k, TRUE))
  /\ UNCHANGED <<controllerVars, store, reqs, sent, fetch, branch>>

-----------------------------------------------------------------------------
(* Failures: a transport error, a lost reply, a cancelled or dead caller. *)

(* The call ends where it stands; its earlier steps keep their effect. *)
CallFails(c) ==
  /\ pc[c] \in Faults \cap CallPoints
  /\ Return(c, "Failed")
  /\ fetch' = [fetch EXCEPT ![c] = NoFetch]
  /\ parts' = [parts EXCEPT ![c] = {}]
  /\ branch' = IF pc[c] = "notify_batch"
               THEN [branch EXCEPT ![c] = NoBranches] ELSE branch
  /\ DropBatch(c)
  /\ UNCHANGED <<controllerVars, store, call>>

(* A delete coroutine ends where it stands. *)
BranchFails(c, v) ==
  /\ branch[c][v].stage \in Faults \cap BranchPoints
  /\ BranchRaises(c, v, "Failed")
  /\ UNCHANGED <<controllerVars, store, call, reqs, sent, fetch, parts>>

-----------------------------------------------------------------------------

Work(c) ==
  \/ VolumePut(c)
  \/ NotifyPut(c)
  \/ \E v \in Volume : \E subs \in SUBSET fetch[c][v] : VolumeGet(c, v, subs)
  \/ \E v \in Volume : NotifyDeleteFrom(c, v)
  \/ \E v \in Volume : VolumeDelete(c, v)
  \/ NotifyDeleteKeys(c)
  \/ \E v \in Volume : VolumeDeleteBatch(c, v)

Next ==
  \E c \in Client :
    \/ \E rs \in PutMenu[c] : StartPut(c, rs)
    \/ \E wants \in GetMenu : StartGet(c, wants)
    \/ \E k \in DeleteMenu : StartDelete(c, k)
    \/ \E keys \in BatchMenu : StartDeleteBatch(c, keys)
    \/ \E k \in Key : Exists(c, k)
    \/ Work(c)
    \/ CallFails(c)
    \/ \E v \in Volume : BranchFails(c, v)

Spec == Init /\ [][Next]_vars

(***************************************************************************)
(* Every started coroutine keeps running and every actor answers: each     *)
(* step of a call, and of each background coroutine, is eventually taken.  *)
(***************************************************************************)
Fairness ==
  \A c \in Client :
    /\ WF_vars(VolumePut(c))
    /\ WF_vars(NotifyPut(c))
    /\ WF_vars(NotifyDeleteKeys(c))
    /\ \A v \in Volume :
         /\ WF_vars(\E subs \in SUBSET fetch[c][v] : VolumeGet(c, v, subs))
         /\ WF_vars(NotifyDeleteFrom(c, v))
         /\ WF_vars(VolumeDelete(c, v))
         /\ WF_vars(VolumeDeleteBatch(c, v))

FairSpec == Spec /\ Fairness

-----------------------------------------------------------------------------
(* Properties *)

(* The entry can serve what the index says about it. *)
Backs(entry, info) ==
  CASE info.object_type = "OBJECT" -> entry.type = "OBJECT"
    [] info.object_type = "TENSOR" -> entry.type \in {"OBJECT", "TENSOR"}
    [] info.object_type = "TENSOR_SLICE" ->
         /\ entry.type = "SHARDS"
         /\ \A s \in info.tensor_slices : s.coordinates \in CoordinatesAt(entry)

(***************************************************************************)
(* No dangling index entry: what the controller says is on a volume is on  *)
(* the volume, with every shard it lists (a tensor may have become an      *)
(* object).  This is why put stores before it notifies, and delete         *)
(* notifies before it deletes.                                             *)
(***************************************************************************)
IndexedIsStored ==
  \A k \in Key : \A v \in Volume :
    Indexed(k, v) => Backs(store[v][k], index[k][v])

(***************************************************************************)
(* The slices of a key agree on the mesh: the assertion "Inconsistent mesh *)
(* shapes in stored slices" of _is_dtensor_fully_committed does not fail.  *)
(***************************************************************************)
MeshesAgree == \A k \in Key : Locate(k, TRUE) # "AssertionError"

(***************************************************************************)
(* No orphan: when no put and no delete of a key is in progress, a volume  *)
(* holds the key exactly if the controller says so.                        *)
(***************************************************************************)
QuiescentAgreement ==
  \A k \in Key :
    (\A c \in Client : ~Putting(c, k) /\ ~DeleteRunning(c, k))
      => \A v \in Volume : Stored(v, k) <=> Indexed(k, v)

(***************************************************************************)
(* "Notify should come before the actual delete, so that the controller    *)
(* doesn't think the key is still in the store when delete is happening."  *)
(***************************************************************************)
DeleteAfterNotify ==
  [][\A v \in Volume : \A k \in Key :
       Stored(v, k) /\ ~Stored(v, k)' => ~Indexed(k, v)]_vars

(***************************************************************************)
(* A get that returns brings every cell that was asked for: locate refuses *)
(* a tensor that is only partially committed, so assembling the parts      *)
(* leaves no hole of uninitialised memory.                                 *)
(***************************************************************************)
GetIsComplete ==
  \A c \in Client :
    call[c].op = "get" /\ outcome[c] = "ok" =>
      \A k \in call[c].keys :
        call[c].wants[k].region
          \subseteq UNION { p.region : p \in { q \in parts[c] : q.key = k } }

(***************************************************************************)
(* What locate_volumes promised a get, the volume can still answer as long *)
(* as the controller still lists it there: puts of the same layout that    *)
(* run between the two calls never take away what the get is to read.      *)
(***************************************************************************)
StillListed(k, v, region) ==
  /\ Indexed(k, v)
  /\ IsSliced(k, v) =>
       \E s \in index[k][v].tensor_slices : region \subseteq s.region

LocatedIsServable ==
  \A c \in Client : \A v \in Volume : \A sub \in fetch[c][v] :
    StillListed(sub.key, v, sub.region) => GetOutcome(v, sub) = "ok"

(***************************************************************************)
(* A key that readers can locate stays locatable until it is deleted.      *)
(***************************************************************************)
LocatableUntilDeleted ==
  [][\A k \in Key :
       Locate(k, TRUE) = "ok" /\ Locate(k, TRUE)' # "ok"
         => \E c \in Client : DeleteRunning(c, k)]_vars

(***************************************************************************)
(* A delete or delete_batch that returns has removed its keys: no volume   *)
(* is indexed for them, and a copy that is left is about to be deleted by  *)
(* a coroutine of another delete.                                          *)
(***************************************************************************)
DeleteIsFinal ==
  [][\A c \in Client :
       (/\ pc'[c] = "idle" /\ outcome'[c] = "ok"
        /\ call'[c].op \in {"delete", "delete_batch"}
        /\ pc[c] # "idle" \/ call[c] # call'[c])
         => \A k \in call'[c].keys : \A v \in Volume :
              /\ ~Indexed(k, v)'
              /\ Stored(v, k)' => \E d \in Client : k \in branch'[d][v].keys]_vars

(***************************************************************************)
(* Every call returns: no client waits forever for another.                *)
(***************************************************************************)
CallsReturn == \A c \in Client : pc[c] # "idle" ~> pc[c] = "idle"

(***************************************************************************)
(* Data that the controller does not know about does not stay: it becomes  *)
(* indexed, or the delete that forgot it removes it.                       *)
(***************************************************************************)
OrphansDrain ==
  \A k \in Key : \A v \in Volume :
    (Stored(v, k) /\ ~Indexed(k, v)) ~> (Indexed(k, v) \/ ~Stored(v, k))
-----------------------------------------------------------------------------
(* The registers of AtomicStore *)

(* What an entry holds of a slice, or of the whole key. *)
DataIn(entry, s) ==
  IF s = NoSlice
  THEN { entry.data : type \in {entry.type} \cap {"OBJECT", "TENSOR"} }
  ELSE { entry.shards[i].data :
           i \in { j \in DOMAIN entry.shards : entry.shards[j].slice = s } }

Held(k, s) == UNION { DataIn(store[v][k], s) : v \in Volume }

Register(k, s) ==
  IF Held(k, s) = {} THEN NoValue ELSE CHOOSE d \in Held(k, s) : TRUE

Registers == [k \in Key |-> [s \in Slice \cup {NoSlice} |-> Register(k, s)]]

ListedSlices(k) == UNION { index[k][v].tensor_slices : v \in Volume }

Listings == [k \in Key |-> ListedSlices(k)]

Item(r) == [key |-> r.key, slice |-> r.slice, data |-> r.data]
Items(rs, I) == { Item(rs[i]) : i \in I }

(* The put or get of a client: under way, or the last one if it returned. *)
CallOf(c) ==
  CASE pc[c] \in {"put", "notify"} ->
         [op |-> "put", left |-> Items(reqs[c], sent[c] + 1 .. Len(reqs[c])),
          done |-> Items(reqs[c], 1 .. sent[c])]
    [] pc[c] = "fetch" ->
         [op |-> "get", wants |-> call[c].wants, parts |-> parts[c]]
    [] pc[c] = "idle" /\ outcome[c] = "ok" /\ call[c].op = "put" ->
         [op |-> "stored"]
    [] pc[c] = "idle" /\ outcome[c] = "ok" /\ call[c].op = "get" ->
         [op |-> "got", wants |-> call[c].wants, parts |-> parts[c]]
    [] OTHER -> [op |-> "none"]

Calls == [c \in Client |-> CallOf(c)]

Deleting(c) == UNION { branch[c][v].keys : v \in Volume }

Deletions == [c \in Client |-> Deleting(c)]

ItemMenu ==
  [c \in Client |-> { Items(rs, DOMAIN rs) : rs \in PutMenu[c] }]

Atomic == INSTANCE AtomicStore WITH
  Puts <- ItemMenu, Gets <- GetMenu, content <- Registers,
  listed <- Listings, calls <- Calls, deleting <- Deletions

(***************************************************************************)
(* The store is a map of registers: as long as each slice of a key is put  *)
(* through one volume, a get that returns has read every part as the last  *)
(* put of it left it, and a put that returns is what later gets read.      *)
(***************************************************************************)
AtomicSpec == Atomic!Spec
=============================================================================
