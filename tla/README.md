# TorchStore in TLA+

Specifications, model checking and proofs for TorchStore, a distributed
in-memory store for tensors, DTensors and objects built on Monarch actors.
File references are relative to `src/torchstore/`.

## 1. The system

TorchStore keeps a state dict (or single tensors and objects) in the memory of
*storage volumes*. In its standard mode a *controller* knows which volume holds
which part of which key, and clients ask it before they read. In *routing* mode
there is no such index: the publishers of a state dict register their slices
once, and every requester computes for itself where it will read from.

| Component | State | Operations |
|---|---|---|
| `LocalClient` (client.py) | none across calls, except coroutines a failed `gather` leaves running | `put`, `put_batch`, `get`, `get_batch`, `delete`, `delete_batch`, `exists`, `keys` |
| `Controller` (controller.py) | key -> volume -> `StorageInfo` (type, slices), in insertion order | `locate_volumes`, `notify_put_batch`, `notify_delete`, `notify_delete_batch`, `keys`, `init`, `teardown` |
| `StorageVolume` + `InMemoryStore` (storage_volume.py) | key -> object, tensor, or dict of shards by mesh coordinates | `put`, `get`, `get_meta`, `delete`, `delete_batch`, `handshake`, `reset` |
| `Request`, `TensorSlice` (transport/types.py) | - | what travels: object, tensor, or slice of a DTensor |
| Strategies (strategy.py) | volume meshes, volume ids | `select_storage_volume`: the volume a client puts to |
| Geometry (utils.py) | - | intersect slices, view into a destination, assemble parts |
| State dict sync (state_dict_utils.py) | RDMA caches per client | `put_state_dict` (tensors, then the mapping as commit marker), `get_state_dict` |
| Routing (routing/) | layouts of every publisher per state dict, and those who wait for them; a route table per rank | `register_layout`, `get_layouts`; plan, install, routed get |
| Direct weight sync (direct_weight_sync.py) | per trainer rank its staging buffers and handles; per client the cached handles and the plan of its first pull | `register`, `refresh`, `pull` |
| Transport buffers (transport/buffers.py) | one buffer per request | handshake, hooks, `volume.put` / `get` / `delete`, drop |
| Uniflow (torchcomms/) | a cache of connections on each side; on the volume also those not yet promoted | topology, connect, abort; data; publish |
| Gloo (gloo.py) | a process-wide address, a cache of process groups on each side, a send or receive task per request | handshake, post, receive, drop |
| Shared memory (shared_memory.py) | the volume's segments; per process those it has mapped | handshake, copy into or out of a segment, delete |
| NIXL (nixl.py) | registrations and metadata of the client, the metadata the volume has loaded, active transfers | register, dispatch, drain, release |
| Life cycle (api.py) | per store a controller and its volumes, per process a cache of clients | `initialize`, `shutdown`, `reset_client`, the cached calls |
| SPMD (spmd.py) | the rendezvous store with its two keys; per rank the session; rank 0's job and host mesh | `initialize`, `shutdown` of both kinds of rank |
| Key index (storage_utils/trie.py) | a trie of key components | map operations, keys under a prefix |

**Scheduling.** Controller, volumes and coordinator are Monarch actors; what an
actor does between two awaits is one step. The endpoints of the index await
nothing, nor do those of the volumes apart from a transport's transfer, so a call of
one is one atomic step. The coordinator's `register_layout` and `get_layouts` are
`concurrent_endpoint`s: coroutines of one event loop that suspend only in
`Condition.wait`. Where a plain `@endpoint` awaits something (`Controller.init` and
`teardown` await the volumes, a volume's `put` and `get` a transfer), the models let
other calls of that actor run meanwhile. Monarch, which is not part of the
repository, may well run plain endpoints one at a time; its behaviours are then
among the modelled ones, and what is shown of every state and step holds of them
too. Clients are separate processes, or asyncio tasks of one; between two awaited
RPCs of a client anything may run. `asyncio.gather` runs one coroutine per volume;
when one raises, `gather` raises at once *and the others continue*.

**What is hard.** An operation is a sequence of RPCs to two kinds of actors with
no transaction around them: a put stores, then notifies; a delete locates,
notifies, then deletes per volume; a push registers, puts tensors, then puts the
mapping. A transport adds more steps on both sides, and state that outlives the
request: connections, groups, segments, registrations. The stores themselves come
and go under running calls. Everything that may happen between those steps (other clients,
failures, leftovers, a new `initialize`) decides whether the index and the
volumes still agree, whether a reader is let through to half a tensor, and
whether data is lost or leaked. Besides, slices are computed in many places
(client, volume, planner), which must agree to the cell. `PROJECT.json` lists the
hazards at their lines.

## 2. Modules

| Module | Models | Extends |
|---|---|---|
| `StoreTypes` | transport/types.py: slices, requests, batches | |
| `Controller` | controller.py: the index, the endpoints, the commit check | `StoreTypes` |
| `StorageVolume` | storage_volume.py: entries, put / get / delete and their assertions | `StoreTypes` |
| `TorchStore` | client.py on top of both: every operation, RPC by RPC | `Controller`, `StorageVolume` |
| `AtomicStore` | what the store promises about data, with nothing else: a register per slice; `TorchStore` implements it | |
| `TensorGeometry` | utils.py: the arithmetic of slices in any number of dimensions | |
| `SliceFetch` | one get of a committed DTensor, from the sub-requests to the assembled tensor | `TensorGeometry` |
| `RoutingCoordinator` | routing/coordinator.py: registrations, the condition, those who wait | |
| `RoutedSync` | routing/client.py, `put_state_dict` and `get_state_dict` with the coordinator and the volumes | `RoutingCoordinator` |
| `LayoutExchange` | what the coordinator promises, with nothing else; `RoutedSync` implements it | |
| `RoutingPlan` | routing/plan.py and directory.py: replicas, covering count, table, routed get | `TensorGeometry` |
| `DirectWeightSync` | direct_weight_sync.py with the `direct_rdma` branches of state_dict_utils.py: trainer ranks, generators, reads under way | `TensorGeometry` |
| `StateDictSync` | state_dict_utils.py: the two ways to move a state dict, one of which a program uses | `RoutedSync`, `DirectWeightSync` |
| `TransportBuffers` | transport/buffers.py: the coroutine of a request and its RPC | |
| `UniflowTransport`, `GlooTransport`, `SharedMemoryTransport`, `NixlTransport` | one transport each, client and volume | `TransportBuffers` |
| `Transports` | `create_transport_buffer`: which of them a process uses | the four transports |
| `StoreLifecycle` | api.py with `init` and `teardown` of controller.py and `reset` of storage_volume.py | |
| `SpmdSession` | spmd.py around one of the stores | `StoreLifecycle` |
| `MCTorchStore`, `MCSliceFetch`, `MCRoutingPlan`, `MCStateDictSync`, `MCTransports`, `MCLifecycle` | small instances for TLC | |
| `TorchStoreProofs` | type correctness; the index never dangles, notify comes first; gets are complete; no orphans, deletes are final; what is located or committed stays so; the registers are implemented | `TorchStore` |
| `TensorGeometryProofs` | finite sums and products; intersection, containment and element counts are exact | `TensorGeometry` |
| `SliceFetchProofs` | a get returns exactly the region, and does not refuse one | `SliceFetch`, `TensorGeometryProofs` |
| `RoutingPlanProofs` | accepted plans are exact, replicas are chosen alike, one sharding is accepted, routed gets are complete | `RoutingPlan`, `TensorGeometryProofs` |
| `RoutedSyncProofs` | type correctness, wake-ups, the refinement; what the volumes store | `RoutedSync` |
| `DirectSyncProofs` | cached handles are of refreshed memory; a pull brings the latest weights, which stay | `StateDictSync`, `TensorGeometryProofs` |
| `TransportProofs` | type correctness, Uniflow's caches, Gloo's transfers, shared memory's gets, NIXL's memory | `Transports` |
| `LifecycleProofs` | type correctness, the session, the volumes of the stores | `SpmdSession` |

Operators marked "Variant" are plausible mistakes in the definition that
follows them. They are not part of any specification; replacing the definition by
its variant shows that a property notices.

### The store: state and actions

* `index[k][v]` and `older[k]` are `Controller.keys_to_storage_volumes`: the
  `StorageInfo` of key `k` on volume `v`, and the insertion order of the inner
  dict, on which the commit check and `_build_volume_requests` depend (both stop
  at the first whole entry). The order is kept as a relation so that it does not
  count states that differ only in positions.
* `store[v][k]` is `InMemoryStore.kv` of volume `v`; the shards keep dict order,
  because `_get_sharded_tensor` serves the first shard that contains the region.
* `pc`, `call`, `outcome`, `reqs`, `sent`, `fetch`, `parts` are the local
  variables of a client's current call; `branch[c][v]` is the coroutine that
  `delete` or `delete_batch` gathers for volume `v`. A branch may outlive its
  call; that is the point of keeping it apart from `pc`.

| Action | Code |
|---|---|
| `StartPut`, `VolumePut`, `NotifyPut` | `put_batch`: build requests; `volume.put` (one call per batch, or per request without batch support); `notify_put_batch` |
| `StartGet`, `VolumeGet` | `get_batch`: locate and plan sub-requests; one `volume.get` per volume (or per sub-request), then assembly |
| `StartDelete`, `NotifyDeleteFrom`, `VolumeDelete` | `delete`: locate; per volume `notify_delete`, then `volume.delete` |
| `StartDeleteBatch`, `NotifyDeleteKeys`, `VolumeDeleteBatch` | `delete_batch`: locate what exists; one `notify_delete_batch`; per volume `delete_batch` |
| `Exists` | `exists`: one locate |
| `CallFails`, `BranchFails` | a transport error, a lost reply, a cancelled or dead caller, at the points `Faults` names |

Abstractions:

* A tensor is a set of `Cell`s with one value naming the put that wrote it. A
  slice is its box of cells, its coordinates, and `mesh_shape` as the set of
  coordinates of the mesh. Offsets, and slices without cells, belong to
  `SliceFetch`; here `SliceAssumption` excludes the latter.
  A fully local DTensor (one rank, or replicated everywhere) is put as a plain
  tensor, so every mesh of the instances has two ranks that shard.
* The client-side preparation of a call and its first RPC are one step: nothing
  the preparation computes is shared.
* Without batch gets, a volume's sub-requests are read one at a time in any
  order, and equal sub-requests (replicas on one volume) are read once.
* A key stored as slices on one volume and whole on another is located as the
  code does, but the result has the parts of both, where the code keeps the part it
  fetched last.
* A client starts no new delete while coroutines of an earlier one of its own
  are still running; another client may, which covers the interleavings.

**What the store promises about data.** `AtomicStore` knows no volumes, index,
batches or coroutines. Each slice of a key, and each whole key, is a register
(`content`); `listed` has the slices that readers are told of. A put writes its
registers, some or all at a time, and when it returns they are listed and hold
something. A get begins only if what is listed of its keys is committed, reads pieces of
registers as they are when it reads them, and returns only with all it wants. A delete first
takes slices off the list and erases only what is not listed any more. Any call may
end without a result at any time; what it has written stays written, and what its
delete has left may still be erased.

`TorchStore` implements it with the mapping at its end (`Registers`, `Listings`, `Calls`,
`Deletions`): a register holds what the volumes hold of the slice. `VolumePut` is
`Write` of the batch or of one request, `NotifyPut` is `FinishPut`, `StartGet` and `VolumeGet` are
`StartGet` and `Read`, the steps of deletes are `Unlist` and `Erase`, failures are
`Ends`. A get that reads two volumes is two reads, so the registers do not
make it atomic over several slices; neither does the code.

**The callers' promise.** The code protects no key against concurrent writers and
deleters; its own callers keep them apart. `Discipline` makes that promise a
parameter: `"none"`; `"calls"`, no put of a key overlaps a *call* that deletes
it; `"drained"`, nor what such a call left running. Runs show where the weaker
promise fails; the theorems assume `"drained"`.

### Geometry

`SliceFetch` takes one request through `_expand_tensor_slices`, the volume's
extraction, `get_destination_view`, `assemble_tensor` and the copy into the
destination. Any shard that contains a sub-request may serve it (which one comes
first depends on the order of puts), and parts are read and placed in any order.
The value of an element is its global index, so a misplaced element is visible.
External, and taken from how the code uses them: `is_contiguous` of a strided
view, and the chunks in which DTensor divides a tensor (`Shards` in the MC module).
Not modelled: a destination of another shape than the requested slice.

### Routing: state and actions

* `gen` counts the calls of the coordinator's `init`; `layouts[g]` and
  `waiter[r]` are `_Layouts.publishers` and the `get_layouts` coroutines on its
  condition. A coroutine that was notified is `"woken"` until the loop resumes it.
* `table` and `marked` are a publisher's route table and `_registered_layouts`;
  `push`, `pull`, `left` are the local state of the calls; `plan` is what a
  requester's table was built from; `home` is the init whose strategy, hence
  whose volumes, its client was created with.
* `volume[g][p]` holds the version of the tensors, their layout, and the version
  of the mapping.

| Action | Code |
|---|---|
| `Initialize` | `_initialize_routing` with a new trainer mesh: new volumes, new publisher clients, `coordinator.init` |
| `StartPush`, `Register`, `RegisterUnheard` | `register_layout`: fill the table, call the coordinator, remember; the reply may be lost |
| `PushAgain` | a later push goes straight to `put_batch`, which compares with the table |
| `PutTensors`, `PutMapping` | the two puts of `put_state_dict` |
| `PullLearns`, `PullWaits`, `WakeUp`, `TimesOut` | `get_layouts` of coordinator and client |
| `PullPlanned`, `ReadMapping`, `ReadTensors` | `get_state_dict` with a plan: mapping volume by volume, then tensors from all volumes |
| `PushFails`, `PullFails` | any error or cancellation between two steps |

In `RoutingPlan`, `registered`, `routes` and `installed` are the coordinator's
layouts, a requester's `LocalRouteTable` and its `_registered_layouts`; `stored` says
whose volume has the mapping of a state dict. `Register` and `Store` are the two
halves of `put_state_dict`. A rank with nothing in a state dict registers like the
others, but never stores: `put_batch` refuses an empty dict. `Plan` is
`_Builder.build` followed by `install`. `Get` is the routed `get_state_dict`. It
changes nothing, so it is an operator: the keys of what it would return now, none
where it raises, which it does if a volume it asks has no mapping, if the strict
comparison fails, or if a tensor has no read.

Abstractions:

* In `RoutedSync` a layout stands for the whole state dict's sharding. Layouts
  of one sharding always make a plan; a mixture may or may not, as the covering
  count says. `RoutingPlan` is where slices are slices.
* One state dict in `RoutedSync` (namespaces are independent in the coordinator),
  several in `RoutingPlan`, where tables merge.
* The coordinator's lock is never held across a suspension, so it is not there.
* The coordinator-side coroutine of a pull that died is dropped with it: it
  could only finish without anybody listening.
* `RoutingPlan` leaves out dtypes and byte counts, and objects beside the tensors
  of a state dict. Its get looks at all volumes at once; the steps of a get
  are in `RoutedSync`. A state dict given to a get is the one its plan is of.
  `sorted` compares ranks by name, so `Publisher` numbers them in that order.

### Direct weight sync: state and actions

* `buffers[r]` is the memory that each call of `register` on rank `r` has
  allocated, `staging[r]` which of them `refresh` casts a parameter into
  (`_staging`, one dict for all keys), `weights[r]` the number of optimizer steps
  the rank's parameters are of. `published` and `counted` are the handles and the
  `num_ranks` object in the store.
* `known` and `transfers` are the handles and the plan that a client keeps,
  `reads` the RDMA reads under way; each takes the bytes (`ReadLeaves`) and writes
  them (`ReadLands`) at different times, and those of a failed pull go on.
* `target` is the destination, element by element: the global index and the
  version of what is there.

| Action | Code |
|---|---|
| `RegisterMemory`, `StoreHandles`, `StoreNumRanks`, `StoreFails` | `_put_state_dict_direct_rdma`, the first time for a key; rank 0 puts `num_ranks` last |
| `Refresh` | later: `DirectWeightSyncSource.refresh` |
| `StartPull`, `FetchNumRanks`, `FetchRank`, `FetchFails` | `_get_state_dict_direct_rdma`: handles of all ranks, once per key |
| `ReadLeaves`, `ReadLands`, `ReadFails`, `Copy` | `pull`: the gathered reads, then the copies out of the receive buffers |

`OptimizerStep` is the trainer's own. Element arithmetic (`Operations`, `From`,
`InSlices`) is `_build_plan` and `_compute_transfer_ops`. With `Orderly` trainer
and generators take turns: no step or refresh while something is read, and no
pull between the steps of two ranks. The code leaves that to its callers; with
`Orderly = FALSE` a pull returns weights of two versions. `OneUse` says that a
generator pulls one key into one destination, as the cached plan requires.

### Transports: state and actions

A buffer serves one request, so the request names it, and what it creates: a
connection, a group, a segment. `phase[r]` is how far the client's coroutine has
come, `rpc[r]` the RPC that is sent, being served, or answered. An RPC, its
handling and its reply are steps of their own, so requests interleave on both
sides and every call may be refused, lost or cancelled.

| Module | State | Actions and code |
|---|---|---|
| `UniflowTransport` | `transports`, `volumeTransports`: device -> connection in the `UniflowCache` of each side; `handshakes`: `_handshake_transports`, not promoted yet; `connections[r]`: what `r` connects | `UniflowStart`, `PostTopology`, `PostConnect`, `UniflowSend`, `Publish`: the client's part; `RecvTopology`, `RecvConnect`, `UniflowHandle` (with promotion), `RecvAbort`: the volume's; `UniflowRaises`, `UniflowClientFails`, `UniflowCancelled`, `AbortIsLost`, ...: the error paths |
| `GlooTransport` | `storeAddr`: the process-wide `_store_addrs`; `clientGroups`, `volumeGroups`: the caches of groups; `wire`: sends and receives posted on a group, in order; `task`, `serving`: the two ends of a request's transfer; `took`: whose tensor it got | `GlooStart`, `GlooPostHandshake`, `GlooSend`, `GlooReturns` and the failures; `GlooHandle`, `GlooRefuses`, `GlooServed`; `ClientPosts`, `VolumePosts`, `Meet`, `TimesOut`: Gloo itself (external); `NewClient`, `NewVolume`: `shutdown` of the cache, a respawned volume |
| `SharedMemoryTransport` | `stored`: the segment of each key; `mapped`: the caches of the processes; `content`: whose data each part of a segment has; `got`: what a get has copied | `ShmStart`, `ShmPostHandshake`, `CopyIn`, `AttachForGet`, `CopyOut`, `ShmPutReturns`, `ShmDeleteReturns`; `ShmRecvHandshake`, `ShmHandlePut`, `ShmHandleGet`, `ShmHandleDelete`, `ShmRefuses` |
| `NixlTransport` | `registered`: the tensors the client's agent has registered; `metadata`, `remoteAgent`: sent and loaded metadata; `active`, `failed`: the transfers of a request | `NixlSend`, `NixlDispatch`, `NixlMovesNothing` (no tensor in the batch), `NixlServed` (after draining), `NixlReturns`, `NixlAbandons`, `TensorFreed`; `TransferEnds`: NIXL itself (external) |
| `Transports` | `transport`: the type of buffer | `get_available_transport`, `create_transport_buffer`; the steps of the chosen transport |

`latest` of the shared memory module is a history variable: the puts whose data a
get may return. `Crossing`, `Overlap`, `Racing` and `Concurrent` say whether
requests of one client may meet in the way that each transport cannot bear; they
are `FALSE` in the run, and section 3 says what happens otherwise.

### Life cycle and SPMD session: state and actions

* `controllers[s]` is a `Controller`: `is_initialized`, the volume of its strategy,
  its `storage_volumes`, and whether it lists the store's one key.
  `contents[v]` is what a volume holds: a store and the `initialize` it followed.
  `clients[p][s]` is `_local_clent_map` of process `p`: the volume in the cached
  client's strategy. `calls[t]` is where task `t` is; `epoch[s]` counts the calls
  of `init` that were let in.
* `started`, `sessions` are the ranks whose Monarch context is used up and
  `_spmd_state_map`; `rendezvous` is the `TCPStore`: its server, who has joined,
  and the two keys that the ranks wait for; `job`, `mesh` belong to rank 0.

| Action | Code |
|---|---|
| `Initialize`, `InitBegins`, `InitRefused`, `InitFails`, `InitEnds` | `api.initialize`: volumes, then `Controller.init`, which awaits `get_id` |
| `Shutdown`, `TeardownBegins`, `ResetLands`, `ResetFails`, `TeardownEnds` | `api.shutdown`: `Controller.teardown`, which awaits `reset` of the volumes; then `reset_client`, whatever happened |
| `Call`, `AskStrategy`, `AskRefused`, `InstallClient` | `api.client`: the cached client, or a new one, installed after an await |
| `PutLands`, `PutFails`, `Notify`, `Locate`, `GetLands` | one put and one get, RPC by RPC, to whatever volume the client has |
| `SpmdInitialize`, `Join`, `StartJob`, `Attach`, `Broadcast`, `ReceiveController` and their failures | `spmd.initialize` of rank 0 and of the others |
| `SpmdShutdown`, `SetStatus`, `KillJob`, `StopMesh`, `ReadStatus`, `StatusTimesOut` | `SPMDState.shutdown` and the clean-up of a failed `initialize` |
| `Exit` | the process of a rank ends |

What the callers see to is in two guards: `Quiet`, `initialize` of a store begins
when nothing is being done with it and its clients in other processes were reset;
`Settled`, `shutdown` does not begin before `initialize` has ended. A shutdown may
begin amid puts, gets and other shutdowns.

## 3. Runs

| Run | Asks | Result |
|---|---|---|
| `whole` | one key with a tensor, one with an object; batches, one request per RPC; no failures; drained; fair | `DeleteIsFinal`, `CallsReturn`, `OrphansDrain` hold |
| `sharded` | the two shards of one DTensor on two volumes; every call and coroutine may fail; drained | `TypeOK`, `IndexedIsStored`, `GetIsComplete`, `AtomicSpec`, `DeleteAfterNotify`, `LocatableUntilDeleted` hold |
| `shared` | both shards on one volume, batching transport | `QuiescentAgreement`, `LocatedIsServable` hold |
| `slice_fetch` | every slice of tensors up to 3 x 3, on one- and two-dimensional meshes, with and without destination | `FetchIsExact`, `ViewsAreRuns`, `NonemptyFetchReturns` hold |
| `routing_plan` | three publishers, two requesters, two state dicts; replicas, gaps, overlaps, an empty shard, ranks with nothing in a state dict, mappings stored or not yet | `PlanIsExact`, `SourcesAgree`, `ShardingIsAccepted`, `GetIsComplete` hold |
| `state_dict_sync` | routing: two publishers, two requesters, two inits, all faults, steady retries, fair wake-ups. Direct: two trainer ranks with two keys, one generator, failing puts of `num_ranks`, fetches and reads | `TypeOK`, `NoLostWakeup`, `StoredAsRegistered`, `MappingCommits`, `ExchangeSpec`, `WaitersServed`; `HandlesAreRefreshed`, `PulledIsLatest`, `PulledStays` hold |
| `transports` | three requests over one of the four transports; refused, failing, lost, cancelled and abandoned calls, timeouts, new clients and new volumes | `PublishedPairsMeet`, `TransfersReach`, `HandshakesAreOwned`, `TakesItsOwn`, `ActiveIsHeld`, `GetSeesLatest` hold |
| `lifecycle` | rank 0 with a session and a store of its own that is initialized twice, its peer, and an actor that uses and manages the store too; failing starts, resets, broadcasts, clean-ups, exits | `TypeOK`, `IndexedIsHeld`, `SessionsAreServed`, `StatusIsTrue`, `NothingLeaks`, `NoCallHangs`, `GetIsOwn` hold |
| `background_delete` | promise about calls only | `DeleteAfterNotify` fails: a leftover coroutine deletes what a later put stored |
| `merged_tables` | a requester plans a second state dict, which it reads from a rank with nothing in the first | `MergeIsHarmless` fails: the first cannot be got any more |
| `stale_plan` | a generator pulls a second key, or into a second destination | `PulledIsLatest` fails: the plan of the first pull is used again |
| `two_stores` | two stores with the default strategy | `IndexedIsHeld` fails: they have one volume |

The last four are listed under `findings` in `PROJECT.json` with the lines of
code and the sentences they contradict. The largest runs are `lifecycle` with 1.3
million distinct states, `state_dict_sync` with 0.6 and `transports` with 0.4.

**Bounds.** Two clients and two volumes in the store: an operation touches its
own volume, the controller and the volumes of one key, so one more of either adds
no new kind of interleaving. Tensors of 2 x 2 cells let a region need one shard,
two shards, or part of each; the slices of `sharded` and `shared` are those of one
mesh, put by rows. `SliceFetch` goes to 3 cells per dimension so that
chunks are uneven and, with three ranks, empty. Routing: two publishers are
needed for layouts to be incomplete, two requesters for one to wait while another
is woken, two pushes of one publisher for an old mapping, two inits for stale
layouts; `MaxPush` and `MaxInit` bound nothing else. `RoutingPlan`: three
publishers allow a replicated half beside the other half, a gap (three replicas
of one half) and overlaps; two requesters that need different parts show whether
their choices agree. The second state dict is two vectors, of which two publishers
may have nothing; `merged_tables` has one sharding of the matrix and a rank with
nothing in the second. Direct sync: two ranks hold a sharded and a replicated
parameter of three elements, cut unevenly; `MaxRegister = 2` lets a failed
registration be repeated, or two keys be registered; `MaxStep = 1` gives
two versions to tell apart. Transports: one request that makes a connection, one
that uses it, and one that meets either of them after a failure; two devices, so
that a request may connect one and reuse the other; two parts per tensor, so that
a copy can be seen half done; up to two NIXL transfers per request, so that one
fails while another moves. Requests are symmetric. Life cycle: `MaxInit = 2`
gives the store a second life, `1` is what a session allows; three processes are
rank 0, a peer and an actor, each with one task.

**Fairness.** `FairSpec` of `TorchStore` has weak fairness on each step of a call
and of each coroutine: the event loop keeps running started coroutines and an
actor works through its mailbox. Starting calls is not fair; nobody has to call
anything. `Fairness` of `RoutedSync`, which `SyncSpec` includes, is weak fairness
on `WakeUp` only: the coordinator's loop resumes a coroutine that was notified. No
publisher need register and no timeout need fire. `NoCallHangs` states without
fairness that every unfinished call of the life cycle has a step of its own.

**Deadlock** is checked except where the modelled calls really end: `slice_fetch`
(one get), `routing_plan` (everything planned and put), `transports` (every request
has ended), and `merged_tables` and `stale_plan`, which are about one property each.

**Met while modelling, not kept as runs.**

*Store.* With no promise at all, a delete removes what a put between its two RPCs
stored. A `delete_batch` that is retried after a volume's call failed deletes
nothing, since the controller has forgotten the keys, and returns with the data
still there; `DeleteIsFinal` is checked without such failures. A tensor put over
an object of the same key is refused by the volume, as is an object put over the
slices of a DTensor; but an object put over a whole tensor is accepted by the
volume, which replaces it, and then refused by the controller. `delete` of a
tensor with a missing shard raises `KeyError` although data is stored. A tensor
put again with another placement leaves the overwritten slices listed. A get of an
empty shard intersects nothing and has no result for its key, which is why
`NonemptyFetchReturns` has its name. A get reads each volume in an RPC of its own,
and writes parts in place as they come: beside a second put it may assemble parts
of both, and one that fails leaves the caller's tensors partly written. Two
clients that put one key whole through volumes of their own leave a copy on each;
a get goes on reading the copy that was listed first, also after the other
client's put has returned. `whole` has such clients, and violates `AtomicSpec` in
this way. A key put again from a mesh of another shape keeps the slices of the
first mesh in the index, where "Inconsistent mesh shapes in stored slices" then fails
for every get and `delete`; `delete_batch`, which does not ask for the commit check,
still removes it (without `OneMesh`, TLC violates `MeshesAgree` in a few steps).

*Routing.* A publisher that retries a failed registration with another layout
(`SteadyRetry = FALSE`) stores slices that differ from those it registered. A
requester's timeout may fire after it was notified and then reports no missing
publisher. Requesters that wait when `init` runs again are never notified. A
second push overwrites tensors while the mapping of the first still vouches for
them. A requester that reads another state dict from a rank which has not put this
one yet is told that the mapping is missing; if the rank has nothing in this one,
that is for good (`merged_tables`). A registration whose overlaps and gaps have
one size passes the covering count, as its comment says.

*Direct sync.* If the reply to the put of handles, or of `num_ranks`, is lost, the
retry registers new memory, and a generator that fetched the first handles keeps
them although they are no longer refreshed (`DirectFault` with `"lost"` violates
`HandlesAreRefreshed`). A put of handles that fails without effect does no harm;
with `"handles"` added, the run still passes but takes almost twice as long. A rank
has one staging buffer for a parameter name, whatever the key: where two keys that
are cast share a name, registering the second leaves the first without refresh,
which violates `HandlesAreRefreshed`, too. In the run the names differ.

*Transports.* Uniflow: two requests that connect one device at once
(`Crossing = TRUE`) leave the client with the first connection and the volume with
the second. A cancelled handshake leaves its transport on the volume, since
`CancelledError` is no `Exception` and nobody aborts. Gloo: a call abandoned while
the volume serves it leaves a message on the group that the next request takes
(`GlooFault` with `"abandon"` violates `TakesItsOwn`), as two overlapping calls do;
a put that the volume refuses waits in `drop` for a receive that nobody posts,
until Gloo times out. Shared memory: a put copies into the segment that the volume
is serving before the volume hears of it, so with `Racing = TRUE` a get sees parts
of two puts. NIXL: if the volume takes up a second request while it polls for the
first, the new metadata replaces what the transfers of the first use (`Concurrent =
TRUE` violates `ActiveIsHeld`), and a client that stops
waiting frees memory that is still written.

*Life cycle.* Without `Quiet`, a client cached before a shutdown puts into a
volume of the earlier life of its store. Without `Settled`, a teardown that
runs while `init` awaits the volumes resets or forgets those of a store that then
comes up. Both violate `IndexedIsHeld`.

## 4. Proofs

All theorems hold for every value of the constants that the named assumptions
allow: any number of clients, volumes, ranks, keys, layouts, any menus, any faults.

**The store** (`TorchStoreProofs`).

* `TypeCorrect`: `Spec => []TypeOK`, by `TypeInv` = `TypeOK` and `BatchInFlight`
  (a client in the middle of a put has a batch and has not sent more than it has;
  without it `Chunk` could index outside the batch).
* `IndexNeverDangles`: with `Discipline = "drained"`,
  `Spec => []IndexedIsStored`, whatever fails. `IndexedIsStored` is not inductive:
  - a notification must find the volume's data, which is there because the put
    stored it (`PutIsStored`: what the batch has sent is backed at its home);
  - that data must still be there, which the promise gives (`PutsApart`: no
    coroutine is deleting a key that is being put);
  - a coroutine about to delete must have notified (`ForgottenFirst`), and must
    have exactly its own key (`OneKeyDeletes`).
* `NotifyComesFirst`: under the same promise `Spec => DeleteAfterNotify`, from
  the same invariant.
* `GetBringsAll`: `Spec => []GetIsComplete`, whatever fails and whatever callers
  do at the same time. `FetchCovers` says in the middle of a get that what has been
  fetched and what has not yet been answered cover what is wanted.
* `NoOrphans`: `Spec => []QuiescentAgreement`. `DeleteInv` says that data which is
  stored and not indexed has an owner (`OrphanHasOwner`: a put that is about to
  notify it, or a delete that is about to remove it) and that a delete reaches
  every volume that has the key. `DeletesAreFinal`: `Spec => DeleteIsFinal` from it.
* `LocatedServable`: `Spec => []LocatedIsServable`, since what readers look for is
  put as they look for it (`FetchFromMenu`).
* `CommittedStays`: `Spec => LocatableUntilDeleted`. `OneMeshAgrees`: the assertion
  "Inconsistent mesh shapes in stored slices" never fails.
* `AtomicImplemented`: `Spec => AtomicSpec`, step by step, whatever fails. Its
  invariant is `AtomicInv`: `IndexInv` and `ReadInv` of the theorems above, and
  `PlaceInv`, which has three parts.
  - What a volume holds, and what the index lists for it, was put through that
    volume, and a coordinate has one shard there (`StoredAtPlace`,
    `ListedAtPlace`). So a slice is in one place, a put replaces all there is of
    it, and what one volume answers is the register.
  - A get in flight asks of a slice only what is wanted of it (`FetchAsked`), so
    that an answer is a piece that `Read` may take.

  `IndexInv` gives that a put that returns finds its registers filled, and that a delete
  erases only what it has taken off the list; `ReadInv` that a get that returns
  has all it wants.

All but `TypeCorrect`, `IndexNeverDangles` and `NotifyComesFirst` need a promise of
the callers, each on what they put under a key (`PutMenu`), none on when or in which
order:

| Condition | Meaning | Needed by |
|---|---|---|
| `ShardingsCover` | slices that fill the mesh they name leave no cell out | `GetBringsAll`, `AtomicImplemented` |
| `OneMesh` | all slices of a key are of one mesh | `CommittedStays`, `OneMeshAgrees` |
| `KeysKeepType` | a key is always put as the same kind of entry | `NoOrphans`, `DeletesAreFinal`, `LocatedServable`, `AtomicImplemented` |
| `SlicesKeepPlace` | a rank always puts the same slice of a key | `LocatedServable`, `AtomicImplemented` |
| `OnePlace` | each slice of a key is put through one volume | `AtomicImplemented` |
| `NoneLeftBehind` | no call of a put fails, nor the call by which a delete reaches a volume | `NoOrphans`, `DeletesAreFinal` |

These hold of a model whose parallel layout does not change, which is what the
tests and examples do; the code asserts some of them and checks none in advance.
`NoOrphans`, `DeletesAreFinal`, `LocatedServable` and `AtomicImplemented` also need
`Discipline = "drained"`. `OnePlace` holds where each rank puts shards of its own, since
a client's strategy always gives it the same volume; it does not where several ranks
put the same whole tensor, such as a replicated DTensor, from hosts or ranks with
volumes of their own. The runs `whole`, `sharded` and `shared` satisfy the first four
conditions, the last two of them `OnePlace`, too, and `NoneLeftBehind` where they check
a property that needs it.

**Geometry and one get** (`TensorGeometryProofs`, `SliceFetchProofs`), in any
number of dimensions and any extent.

* `IntersectionIsExact`: the intersection has exactly the common cells, and `None`
  means that there are none. `ContainsIsSubset`: a shard taken to contain a
  request has all of its cells. `NumelCounts`: the product of a slice's lengths is
  the number of its cells.
* `FetchAsksForAll`, `FetchReturnsTheRegion`, `NonemptyFetchSucceeds`,
  `ViewsAreContiguous`: `Spec => []P` for the properties of `SliceFetch`; that of
  the first, `AsksForAll`, is not checked by itself, since what comes back shows it. One
  invariant, `FetchInv`, has them all: the sub-requests not yet answered and the
  parts are pieces of what is wanted and span it, a part has the content of its
  slice, and what is written through a view lies in its place. The assumption on
  a stored layout holds of DTensor's chunks (`LayoutAssumption`): finitely many
  shards cover the tensor, one starts where it starts, and in each dimension one
  ends where it ends.

Sums and products over finite sets are defined with the folds of the community
modules. Facts about them that would be proved by induction are proved from a
smallest set for which they fail (`SmallestSubset`).

**Routing plan** (`RoutingPlanProofs`), for any publishers, keys, slices and
wishes.

* `AcceptedPlansAreExact`: `Spec => []PlanIsExact`. A plan is accepted if its pieces
  have as many cells as the request; disjoint pieces then fill it.
* `ChoiceIsShared`, `OneShardingIsAccepted`, `PlannedGetIsComplete`: `Spec => []P`
  for `SourcesAgree`, `ShardingIsAccepted` and `GetIsComplete`.

All four rest on `PlanInv`: routes are the plans of what is registered, what is
installed is registered, and who was refused was refused rightly. Each planned
tensor with cells has a read, whose source registered the key; so the mappings of
the sources, where all are found, name all that was planned. The assumptions are
finitely many publishers, well-formed slices, and keys that tell their state dict.
That different published slices of a key do not overlap is a premise of the first
and the third property themselves (`Disjoint`): the count of the code stands in
for that check.

**Routing** (`RoutedSyncProofs`).

* `RoutedTypeCorrect`: `TypeOK` is inductive because it ties each call to its
  coroutine: a requester is on a condition exactly while its pull waits.
* `NoWakeupIsLost`: `NoLostWakeup` is inductive with `TypeOK`. The last
  registration and `notify_all` are one step; a newcomer goes to sleep only in a
  step that finds the layouts incomplete.
* `ExchangeImplemented`: `Spec => ExchangeSpec`, step by step. `Initialize` is
  `NewEpoch`, `Register` and `RegisterUnheard` are `Announce` or stutter,
  `PullLearns` and `WakeUp` are `Learn` or stutter, all else stutters. It needs
  `WaitersPlanNothing`: who waits has no plan yet.
* `TensorsAsRegistered`: if failed pushes are retried with the same layout
  (`SteadyRetry`), `Spec => []StoredAsRegistered`. `Agreed` relates the
  publisher's table, what its call carries and what the coordinator has;
  `StoredInv` adds that layouts of later inits are still blank.
* `MappingIsCommitMarker`: under the same condition `Spec => []MappingCommits`.
  `CommitInv` says on the volumes that a mapping implies tensors; `SeenInv` says
  on the requester's side that each volume it has left behind had its mapping.

**Direct sync** (`DirectSyncProofs`), for any ranks, keys, shards, clients and
numbers of steps and registrations.

* `CachedHandles`: if no reply to `store.put` is lost (`RepliesArrive`) and the
  parameters of keys that are cast have names of their own (`NamesApart`),
  `SyncSpec => []HandlesAreRefreshed`. Neither condition can be dropped: TLC
  violates the property without either. `DirectInv` says of a rank
  that what it has put for good is the memory it refreshes (`Publishes`), while
  the memory of a put under way is refreshed already but may be put again
  (`PutsFirst`). Rank 0 alone may have handles in the store that a retry replaces;
  nobody has fetched them, since `num_ranks` comes after. Of a client `Holds` says
  that the handles it has are counted and still those in the store.
* `PullsBringLatest`, `PullsStay`: if the program is used as it is meant to be
  (`UsedAsMeant`), `SyncSpec` implies `PulledIsLatest` and `PulledStays`. The
  conditions are those above and: trainer and generators take turns (`Orderly`), a
  generator pulls one key into one destination (`OneUse`; run `stale_plan` shows
  that it cannot be dropped), no two generators pull into the same destination
  (`OwnParameters`), and shards and destinations are slices of one tensor that the
  shards make up (`ShardsCover`). Run `state_dict_sync` satisfies them all.
  The invariant is `PullInv`. To `DirectInv` it adds that the memory behind
  published handles is of the latest weights once the rank has synced (`RankSyncs`),
  and of a generator (`Reading`) that its plan is of its key and destination; that
  a read under way has taken nothing yet or the weights of now; that ranks are in
  step while a pull, or a read that a failed pull left behind, is under way; and that
  each operation of the plan has landed or has a read. What remains is that
  the operations fill the destination: the first replica that overlaps brings each
  element (`SomeOperationBrings`), by the lemmas of `TensorGeometryProofs`.
* `SyncIsDirect`, `SyncIsRouted`: a program that uses either way behaves as that
  way's specification does, so what is proved of `Spec` of `RoutedSync` holds of
  `SyncSpec`.

**Transports** (`TransportProofs`), for any requests, devices, processes, keys,
parts and faults.

* `TransportsTypeCorrect`: `Spec => []TransportsTypeOK`, by `TransportsInv`: the
  transport in use keeps its own invariant, and the state of the others stays
  initial. `HandshakeInv`, `GlooInv`, `ShmInv` and `NixlInv` tie the place of a
  client's coroutine to the RPC that is under way and to what the request has by
  then: its group, its segment, its registration.
* `HandshakesOwned`: `Spec => []HandshakesAreOwned`, also with crossing
  requests. `HandshakeInv` says at which places of the coroutine the volume has an
  unpromoted end for each device the request connects, and at which it has none;
  every error path leads through an abort.
* `PairsMeet`, `TransfersAlwaysReach`: with `~Crossing`, `[]PublishedPairsMeet` and
  `[]TransfersReach`. `PairInv` adds that one request at most connects a device,
  that it does so only while the client has no connection there, and that the
  volume has promoted its end when the reply is on its way.
* `TakesOwn`: with `~Overlap` and no abandoned requests, `[]TakesItsOwn`. What is
  queued on a process group is of requests posted there, at most one of each kind
  (`OwnInv`), so the first send a receive finds is its own.
* `LatestSeen`: with `~Racing`, `[]GetSeesLatest`. `SeesInv` says that a put or
  delete runs alone on its key (`PutsRunAlone`), that a stored segment holds the
  value of one put, the latest (`KeptWhole`), and what each request has copied.
* `ActiveHeld`: with `~Concurrent`, `[]ActiveIsHeld`. `NixlInv` says that an RPC
  that is being served is of a client that waits or has gone, and that the
  metadata a waiting request sent names its tensors and is what was loaded.

**Life cycle** (`LifecycleProofs`), for any processes, tasks, stores, ranks,
numbers of initializations and faults.

* `LifeTypeCorrect`: `Spec => []TypeOK`, by `LifeInv`, which also says at which
  stages a call of each kind can be, and that what an `initialize` carries is the
  volume of its own epoch.
* `SessionsServed`, `StatusTrue`, `NoLeaks`: `[]SessionsAreServed`,
  `[]StatusIsTrue`, `[]NothingLeaks`. One invariant, `SessionInv`, carries all
  three. Its parts: the ranks of a session have started (`Registered`); other ranks than
  0 only wait (`PeersOnlyWait`); rank 0 starts once, and before anybody knows a
  controller (`StartsOnce`); a session's controller that has been cleared is never
  initialized again (`ClearedForGood`); a job or a mesh that is alive belongs to
  the session or to a call that has still to clean it up (`WillBeCleaned`).
* `CallsCanGoOn`: `Spec => []NoCallIsStuck`, every task in the middle of a call
  satisfies the guard of one of its steps. It is `NoCallHangs` with the guards
  written out (`CanGoOn`) instead of `ENABLED`; on the instance of `lifecycle` TLC
  finds both to be true in the same states for each task. Most guards come in
  pairs that leave nothing out, a step and its failure or timeout. Two need the
  history: `JoinsOnce` says that a peer that is connecting to the `TCPStore` has not
  joined it yet, and `StartsOnce` that rank 0 finds the store not initialized.
* `IndexHeld`, `GetsTheirOwn`: if no two stores share the default volume
  (`NoSharing`; the run `two_stores` shows why), `[]IndexedIsHeld` and `GetIsOwn`.
  `VolumeInv` says, store by store, that the controller, the cached clients and
  the calls under way all know the volume of the present epoch, that a store being
  initialized has nobody at work in it, and that a teardown forgets before it
  resets. A step of one store leaves every other one alone (`LeavesAlone`), so the
  proof looks at one store at a time.

The strengthenings were model-checked before they were proved.

**Only model-checked.** The liveness properties (`CallsReturn`, `OrphansDrain`,
`WaitersServed`) need fairness, and `NoCallHangs` is about `ENABLED`; both are beyond
the prover, which has `NoCallHangs` only in the form of `CallsCanGoOn`. A theorem
states each of the other properties of a passing run.

## 5. Not modelled

* *Monarch RPC* and *Monarch RDMA transports*: data travels inside the call that
  `TorchStore` models as a step, or through buffers that one request registers and
  frees; no state lives from one request to the next.
* *The legacy Torchcomms RDMA buffer*: one handshake over two caches, as Uniflow
  has them, without promotion.
* *Parts of modelled transports*: registration caches and the data path of
  Uniflow; a Gloo get whose key changes kind between `get_meta` and `get`;
  objects, pinning and mutable segments of shared memory; memory types of NIXL.
  They change no connection, segment or transfer.
* *Direct sync*: `cleanup`, which nothing calls, and dtypes other than that a key
  is cast or not.
* *Key index*: `storage_utils/trie.py` wraps a library and is used as a dict;
  `keys(prefix)` and `get_meta` change no state.
* *State dicts*: the flattening of nested dicts. Without routing, `put_state_dict`
  and `get_state_dict` are puts and gets of `TorchStore`.
* *Configuration*: `SPMDEnv`'s and the strategies' reading of the environment;
  logging and latency measurement.

What could be added: the trie against a set of keys.
