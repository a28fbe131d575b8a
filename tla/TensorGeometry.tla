--------------------------- MODULE TensorGeometry ---------------------------
(***************************************************************************)
(* The arithmetic of tensor slices in any number of dimensions: what two   *)
(* slices share, where a slice lies in a destination, and how the parts of *)
(* a tensor are put together.  A slice may be empty in a dimension, as a   *)
(* shard is when a mesh has more ranks than the tensor has rows.           *)
(***************************************************************************)
EXTENDS Integers, FiniteSets, Functions

CONSTANT Extent   \* no dimension of a tensor is larger

ASSUME ExtentAssumption == Extent \in Nat

(***************************************************************************)
(* A slice of a global tensor has offsets, a local_shape and the tensor's  *)
(* global_shape, each a function of the dimension.  Its place in the mesh  *)
(* does not matter to the geometry.                                        *)
(***************************************************************************)
Dims(s) == DOMAIN s.global_shape
End(s, d) == s.offsets[d] + s.local_shape[d]

SlicesOf(shape) ==
  { s \in [offsets      : [DOMAIN shape -> 0..Extent],
           local_shape  : [DOMAIN shape -> 0..Extent],
           global_shape : {shape}] :
      \A d \in DOMAIN shape : s.offsets[d] + s.local_shape[d] <= shape[d] }

Whole(shape) == [offsets      |-> [d \in DOMAIN shape |-> 0],
                 local_shape  |-> shape,
                 global_shape |-> shape]

(* The indices of a tensor of this shape, and the cells of a slice. *)
Index(shape) ==
  { i \in [DOMAIN shape -> 0..(Extent - 1)] :
      \A d \in DOMAIN shape : i[d] < shape[d] }

Cells(s) ==
  { x \in [Dims(s) -> 0..(Extent - 1)] :
      \A d \in Dims(s) : s.offsets[d] <= x[d] /\ x[d] < End(s, d) }

(* get_slice_numel *)
Numel(shape) == FoldFunction(LAMBDA m, n : m * n, 1, shape)

MinOf(m, n) == IF m <= n THEN m ELSE n
MaxOf(m, n) == IF m >= n THEN m ELSE n

-----------------------------------------------------------------------------
(* get_slice_intersection returns None unless Intersects. *)

MatchingEmpty(a, b, d) ==
  a.local_shape[d] = 0 /\ b.local_shape[d] = 0 /\ a.offsets[d] = b.offsets[d]

SharedStart(a, b, d) == MaxOf(a.offsets[d], b.offsets[d])
SharedEnd(a, b, d) == MinOf(End(a, d), End(b, d))

Intersects(a, b) ==
  /\ a.global_shape = b.global_shape
  /\ \A d \in Dims(a) :
       SharedStart(a, b, d) < SharedEnd(a, b, d) \/ MatchingEmpty(a, b, d)

Intersection(a, b) ==
  [offsets      |-> [d \in Dims(a) |-> SharedStart(a, b, d)],
   local_shape  |-> [d \in Dims(a) |-> SharedEnd(a, b, d) - SharedStart(a, b, d)],
   global_shape |-> a.global_shape]

(* The stored shard has all of the requested slice. *)
Contains(stored, requested) ==
  Intersects(stored, requested) /\ Intersection(stored, requested) = requested

-----------------------------------------------------------------------------
(* get_destination_view *)

(* The fetched slice lies inside the destination. *)
InBounds(dest, s) ==
  \A d \in Dims(s) : dest.offsets[d] <= s.offsets[d] /\ End(s, d) <= End(dest, d)

(* is_contiguous of a view of that shape into a contiguous tensor *)
Contiguous(shape, base) ==
  \/ \E d \in DOMAIN shape : shape[d] = 0
  \/ \A d \in DOMAIN shape :
       shape[d] = 1 \/ \A e \in DOMAIN shape : e > d => shape[e] = base[e]

(* Variant: any part of the destination can be written in place. *)
HasViewAnywhere(dest, s) == InBounds(dest, s)

HasView(dest, s) == InBounds(dest, s) /\ Contiguous(s.local_shape, dest.local_shape)

-----------------------------------------------------------------------------
(* assemble_tensor: parts is a set of slices. *)

(* min of the offsets, which Python compares as tuples *)
LexBefore(i, j) ==
  \E d \in DOMAIN i : i[d] < j[d] /\ \A e \in DOMAIN i : e < d => i[e] = j[e]

TargetOffset(parts) ==
  CHOOSE o \in { p.offsets : p \in parts } :
    \A p \in parts : ~LexBefore(p.offsets, o)

TargetEnd(parts, d) ==
  CHOOSE e \in { End(p, d) : p \in parts } : \A p \in parts : End(p, d) <= e

TargetShape(parts) ==
  [d \in DOMAIN TargetOffset(parts) |->
     MaxOf(0, TargetEnd(parts, d) - TargetOffset(parts)[d])]
=============================================================================
