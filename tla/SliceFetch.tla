----------------------------- MODULE SliceFetch -----------------------------
(***************************************************************************)
(* One get of a fully committed DTensor: expand the request into the parts *)
(* that the located shards hold, read them from the volumes in any order,  *)
(* and assemble the result, with or without a destination in which parts   *)
(* are written in place.  TorchStore takes this for granted when it treats *)
(* slices as sets of cells; here the offsets are computed.                 *)
(*                                                                         *)
(* The element of the global tensor at x has the value x.                  *)
(***************************************************************************)
EXTENDS TensorGeometry, Sequences

CONSTANTS
  Layout,       \* the complete shardings: sets of [coordinates, slice]
  Hole          \* the content of memory that nobody has written

(***************************************************************************)
(* The shards of a layout are slices of one tensor and leave no cell out.  *)
(* They reach from one corner of it to the other, also when it is empty:   *)
(* DTensor's first chunk starts at 0 and its last one ends with the tensor.*)
(***************************************************************************)
ShardsOf(layout, shape) ==
  /\ IsFiniteSet(layout)
  /\ \A s \in layout : s.slice \in SlicesOf(shape)
  /\ UNION { Cells(s.slice) : s \in layout } = Cells(Whole(shape))
  /\ \E s \in layout : s.slice.offsets = Whole(shape).offsets
  /\ \A d \in DOMAIN shape : \E s \in layout : End(s.slice, d) = shape[d]

ASSUME LayoutAssumption ==
  \A layout \in Layout : \E s \in layout :
    LET shape == s.slice.global_shape
    IN  shape \in Seq(0..Extent) /\ ShardsOf(layout, shape)

VARIABLES
  stored,    \* the slices that locate_volumes lists
  want,      \* the slice that is asked for
  given,     \* whether the request carries a tensor_slice, or means all
  inplace,   \* whether a contiguous destination tensor is given
  pc,        \* "expand", "fetch", "assemble", "place" or "done"
  subs,      \* the sub-requests still to be read
  parts,     \* those read, with the tensors that came back
  dest,      \* the content of the destination tensor
  result,    \* the assembled tensor
  placing,   \* the parts still to be written into it
  outcome    \* "none" until the call ends, then "ok" or an error

vars == <<stored, want, given, inplace, pc, subs, parts, dest, result,
          placing, outcome>>

Fresh(s) == [i \in Index(s.local_shape) |-> Hole]

(* Every slice of the global tensor may be asked for, empty ones too. *)
Init ==
  /\ stored \in Layout
  /\ \E shape \in { s.slice.global_shape : s \in stored } :
       \/ want \in SlicesOf(shape) /\ given = TRUE
       \/ want = Whole(shape) /\ given = FALSE
  /\ inplace \in BOOLEAN
  /\ pc = "expand"
  /\ subs = {} /\ parts = {}
  /\ dest = IF inplace THEN Fresh(want) ELSE <<>>
  /\ result = <<>> /\ placing = {}
  /\ outcome = "none"

Plus(i, o) == [d \in DOMAIN i |-> i[d] + o[d]]
Minus(i, o) == [d \in DOMAIN i |-> i[d] - o[d]]

(* A contiguous copy of one region of a tensor that starts at cell "from". *)
Extract(tensor, from, s) ==
  [i \in Index(s.local_shape) |-> tensor[Minus(Plus(i, s.offsets), from)]]

(* tensor[slices] = part, for a part that starts at index "start" *)
Write(tensor, part, start) ==
  [i \in DOMAIN tensor |->
     IF Minus(i, start) \in DOMAIN part THEN part[Minus(i, start)] ELSE tensor[i]]

-----------------------------------------------------------------------------

Fail(error) ==
  /\ pc' = "done"
  /\ outcome' = error

(* _expand_tensor_slices: one sub-request for each stored slice that matters *)
SubRequest(s) ==
  LET piece == IF given THEN Intersection(s.slice, want) ELSE s.slice
  IN  [coordinates |-> s.coordinates,
       slice       |-> piece,
       view        |-> inplace /\ HasView(want, piece)]

Expand ==
  LET needed == { s \in stored : given => Intersects(s.slice, want) }
  IN  /\ pc = "expand"
      /\ subs' = { SubRequest(s) : s \in needed }
      /\ IF needed = {}
         THEN Fail("RuntimeError")
         ELSE pc' = "fetch" /\ UNCHANGED outcome
      /\ UNCHANGED <<stored, want, given, inplace, parts, dest, result, placing>>

(***************************************************************************)
(* The volume extracts the region from a shard that has all of it; which   *)
(* one depends on the order of puts.  A view is the destination's memory.  *)
(***************************************************************************)
ShardTensor(s) ==
  [i \in Index(s.slice.local_shape) |-> Plus(i, s.slice.offsets)]

Fetch(sub) ==
  \E shard \in stored :
    LET data == Extract(ShardTensor(shard), shard.slice.offsets, sub.slice)
    IN  /\ pc = "fetch" /\ sub \in subs
        /\ Contains(shard.slice, sub.slice)
        /\ subs' = subs \ {sub}
        /\ parts' = parts \cup {[sub |-> sub, data |-> data]}
        /\ dest' = IF sub.view
                   THEN Write(dest, data, Minus(sub.slice.offsets, want.offsets))
                   ELSE dest
        /\ pc' = IF subs' = {} THEN "assemble" ELSE "fetch"
        /\ UNCHANGED <<stored, want, given, inplace, result, placing, outcome>>

(* tensors_overlap_in_memory: an empty tensor has no memory. *)
AllInPlace ==
  /\ \A p \in parts : p.sub.view /\ DOMAIN p.data # {}
  /\ DOMAIN dest # {}

PartSlices == { p.sub.slice : p \in parts }

PartsNumel == SumFunction([p \in parts |-> Numel(p.sub.slice.local_shape)])

(* Variant: the parts must be more than the tensor. *)
EnoughToSpare == PartsNumel > Numel(TargetShape(PartSlices))

(* The assertion on the sizes: necessary, and not sufficient. *)
Enough == PartsNumel >= Numel(TargetShape(PartSlices))

(* assemble_tensor allocates the tensor; or everything is in place. *)
Assemble ==
  /\ pc = "assemble"
  /\ IF inplace /\ AllInPlace
     THEN /\ pc' = "done" /\ outcome' = "ok"
          /\ UNCHANGED <<result, placing>>
     ELSE IF Enough
     THEN /\ pc' = "place"
          /\ result' = [shape |-> TargetShape(PartSlices),
                        data  |-> [i \in Index(TargetShape(PartSlices)) |-> Hole]]
          /\ placing' = parts
          /\ UNCHANGED outcome
     ELSE Fail("AssertionError") /\ UNCHANGED <<result, placing>>
  /\ UNCHANGED <<stored, want, given, inplace, subs, parts, dest>>


(* Variant: a part is placed where it lies in the global tensor. *)
PlaceGlobally(p) ==
  /\ pc = "place" /\ p \in placing
  /\ result' = [result EXCEPT !.data = Write(@, p.data, p.sub.slice.offsets)]
  /\ placing' = placing \ {p}
  /\ pc' = IF placing' = {} THEN "return" ELSE "place"
  /\ UNCHANGED <<stored, want, given, inplace, subs, parts, dest, outcome>>

Place(p) ==
  /\ pc = "place" /\ p \in placing
  /\ result' = [result EXCEPT !.data =
       Write(@, p.data, Minus(p.sub.slice.offsets, TargetOffset(PartSlices)))]
  /\ placing' = placing \ {p}
  /\ pc' = IF placing' = {} THEN "return" ELSE "place"
  /\ UNCHANGED <<stored, want, given, inplace, subs, parts, dest, outcome>>

(* The assertion on the shape, and the copy into the destination. *)
Return ==
  /\ pc = "return"
  /\ IF given /\ result.shape # want.local_shape
     THEN Fail("AssertionError") /\ UNCHANGED dest
     ELSE /\ pc' = "done" /\ outcome' = "ok"
          /\ dest' = IF inplace THEN result.data ELSE dest
  /\ UNCHANGED <<stored, want, given, inplace, subs, parts, result, placing>>

Next ==
  \/ Expand
  \/ \E sub \in subs : Fetch(sub)
  \/ Assemble
  \/ \E p \in placing : Place(p)
  \/ Return

Spec == Init /\ [][Next]_vars

-----------------------------------------------------------------------------
(* Properties *)

(* The requested region of the global tensor. *)
Expected == [i \in Index(want.local_shape) |-> Plus(i, want.offsets)]

(***************************************************************************)
(* A get that returns gives exactly the requested region, and no memory    *)
(* that nobody wrote: _expand_tensor_slices, get_destination_view and      *)
(* assemble_tensor agree on where every part goes.                         *)
(***************************************************************************)
FetchIsExact ==
  outcome = "ok" =>
    /\ inplace => dest = Expected
    /\ ~(inplace /\ AllInPlace) =>
         result.data = Expected /\ result.shape = want.local_shape

(***************************************************************************)
(* The sub-requests ask for every requested cell and for no other.         *)
(***************************************************************************)
Asked == { sub.slice : sub \in subs } \cup PartSlices

AsksForAll ==
  pc \in {"fetch", "assemble", "place", "return"} =>
    UNION { Cells(s) : s \in Asked } = Cells(want)

(***************************************************************************)
(* A view into the destination is one run of memory, as RDMA needs: its    *)
(* elements have consecutive positions in row-major order.                 *)
(***************************************************************************)
Position(i) ==
  Cardinality({ j \in Index(want.local_shape) : LexBefore(j, i) })

ViewsAreRuns ==
  \A sub \in subs : sub.view =>
    LET at == { Position(Minus(x, want.offsets)) : x \in Cells(sub.slice) }
    IN  \A m, n \in at : m..n \subseteq at

(***************************************************************************)
(* "TorchStore makes it easy to fetch arbitrary slices of a distributed    *)
(* tensor and to reshard between different meshes": no get of a slice of a *)
(* committed tensor fails, when the slice has at least one cell.           *)
(***************************************************************************)
FetchReturns == outcome \in {"none", "ok"}

NonemptyFetchReturns == Cells(want) # {} => FetchReturns

=============================================================================
