---------------------------- MODULE MCSliceFetch ----------------------------
(***************************************************************************)
(* Small tensors on small meshes for TLC.  Shards is how DTensor divides a *)
(* tensor: in chunks of equal size, of which the last ones may be smaller  *)
(* or empty, one mesh dimension after the other.                           *)
(***************************************************************************)
EXTENDS SliceFetch, TLC

(* Chunk i of k of the range [start, start + size) *)
ChunkStart(start, size, k, i) == start + MinOf(i * ((size + k - 1) \div k), size)

Chunk(s, d, k, i) ==
  LET from == ChunkStart(s.offsets[d], s.local_shape[d], k, i)
      to   == ChunkStart(s.offsets[d], s.local_shape[d], k, i + 1)
  IN  [s EXCEPT !.offsets[d] = from, !.local_shape[d] = to - from]

(* A placement is the dimension that is sharded, or 0 for Replicate. *)
Placed(s, placement, k, i) ==
  IF placement = 0 THEN s ELSE Chunk(s, placement, k, i)

Sharded1(shape, k, p) ==
  { [coordinates |-> <<i>>, slice |-> Placed(Whole(shape), p, k, i)] :
      i \in 0..(k - 1) }

Sharded2(shape, k, l, p, q) ==
  { [coordinates |-> <<i, j>>,
     slice       |-> Placed(Placed(Whole(shape), p, k, i), q, l, j)] :
      i \in 0..(k - 1), j \in 0..(l - 1) }

Layouts(tensors) ==
  { Sharded1(shape, k, p) : shape \in tensors, k \in {2, 3}, p \in {1, 2} }
  \cup { Sharded2(shape, 2, 2, p, q) :
           shape \in tensors, p \in {0, 1, 2}, q \in {1, 2} }

MCLayout == Layouts({<<3, 2>>, <<2, 3>>, <<1, 3>>, <<0, 2>>})
=============================================================================
