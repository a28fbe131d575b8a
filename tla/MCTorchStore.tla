---------------------------- MODULE MCTorchStore ----------------------------
(***************************************************************************)
(* Small instances of TorchStore for TLC: two clients, two volumes.        *)
(***************************************************************************)
EXTENDS TorchStore, TLC

CONSTANTS c1, c2, v1, v2, k1, k2, a, b

(* A global tensor of two rows and two columns. *)
MCCell == {0, 1, 2, 3}
RowCells(i) == {2 * i, 2 * i + 1}
ColumnCells(i) == {i, i + 2}

(* The mesh (2,), on which the tensor is Shard(0). *)
MCCoordinate == {<<0>>, <<1>>}
Row(i) ==
  [coordinates |-> <<i>>, mesh_shape |-> MCCoordinate, region |-> RowCells(i)]
MCRows == { Row(i) : i \in {0, 1} }

OwnVolume == c1 :> v1 @@ c2 :> v2
SharedVolume == c1 :> v1 @@ c2 :> v1

Tensor(k, d) ==
  [key |-> k, object_type |-> "TENSOR", slice |-> NoSlice, data |-> d]
Object(k, d) ==
  [key |-> k, object_type |-> "OBJECT", slice |-> NoSlice, data |-> d]
Sliced(k, s, d) ==
  [key |-> k, object_type |-> "TENSOR_SLICE", slice |-> s, data |-> d]

All == [sliced |-> FALSE, region |-> MCCell]
Region(cells) == [sliced |-> TRUE, region |-> cells]

(* Whole entries: a tensor under k1, an object under k2. *)
PutsWhole == [c \in {c1, c2} |->
  { <<Tensor(k1, a), Object(k2, a)>>, <<Tensor(k1, b)>>, <<Object(k2, b)>> }]
GetsWhole == { k1 :> All @@ k2 :> All }

(* One DTensor: client c1 is rank 0 and c2 is rank 1. *)
PutsSharded ==
  c1 :> {<<Sliced(k1, Row(0), a)>>, <<Sliced(k1, Row(0), b)>>}
  @@ c2 :> {<<Sliced(k1, Row(1), a)>>, <<Sliced(k1, Row(1), b)>>}
GetsSharded ==
  { k1 :> All, k1 :> Region(RowCells(0)), k1 :> Region(ColumnCells(0)) }
NoGets == {}
=============================================================================
