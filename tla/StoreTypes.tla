----------------------------- MODULE StoreTypes -----------------------------
(***************************************************************************)
(* The vocabulary shared by the controller, the storage volumes and the    *)
(* clients of a store: keys, volumes, the slices of a distributed tensor   *)
(* and the requests that travel between them.                              *)
(*                                                                         *)
(* Data is abstracted to what the store's correctness tells apart.  A      *)
(* tensor is a set of cells, a stored tensor has one value for all its     *)
(* cells (the value names the put that wrote it), and a tensor slice is    *)
(* the set of cells it covers together with its position in the mesh.      *)
(***************************************************************************)
EXTENDS Naturals, Sequences, FiniteSets

CONSTANTS
  Key,          \* names of stored entries
  Volume,       \* ids of storage volumes
  Client,       \* concurrent callers (one asyncio task or process each)
  Cell,         \* the elements of a (global) tensor
  Value,        \* tensor contents, told apart by the put that wrote them
  Coordinate,   \* positions in a device mesh
  Slice,        \* the tensor slices that callers put
  NoSlice       \* tensor_slice is None

(***************************************************************************)
(* TensorSlice.  mesh_shape stands for the set of the mesh's coordinates,  *)
(* product(range(s) for s in mesh_shape), and region for the box of cells  *)
(* that offsets and local_shape describe.                                  *)
(***************************************************************************)
TensorSlice == [coordinates : Coordinate,
                mesh_shape  : SUBSET Coordinate,
                region      : SUBSET Cell]

ASSUME SliceAssumption ==
  /\ Slice \subseteq TensorSlice
  /\ \A s \in Slice : s.coordinates \in s.mesh_shape /\ s.region # {}
  /\ NoSlice \notin Slice

ObjectType == {"OBJECT", "TENSOR", "TENSOR_SLICE"}

(***************************************************************************)
(* A put Request.  ObjectType.from_request is the object_type field: only  *)
(* a request of type TENSOR_SLICE carries a tensor slice.                  *)
(***************************************************************************)
Request ==
  { r \in [key         : Key,
           object_type : ObjectType,
           slice       : Slice \cup {NoSlice},
           data        : Value] :
      r.object_type = "TENSOR_SLICE" <=> r.slice # NoSlice }

(***************************************************************************)
(* The argument of put_batch is a non-empty dict: an ordered batch of      *)
(* requests with distinct keys.                                            *)
(***************************************************************************)
IsBatch(rs) ==
  /\ rs \in Seq(Request)
  /\ rs # <<>>
  /\ \A i, j \in DOMAIN rs : rs[i].key = rs[j].key => i = j

KeysOf(rs) == { rs[i].key : i \in DOMAIN rs }

(***************************************************************************)
(* A read of one stored entry: the whole entry, or (sliced) the given      *)
(* region of it.                                                           *)
(***************************************************************************)
SubRequest == [key : Key, sliced : BOOLEAN, region : SUBSET Cell]
=============================================================================
