--------------------------- MODULE MCRoutingPlan ---------------------------
(***************************************************************************)
(* Three publishers of parts of a 2 x 2 tensor and of one of two vectors,  *)
(* and two requesters.  Publishers may replicate, leave gaps and overlap.  *)
(***************************************************************************)
EXTENDS RoutingPlan, TLC

Slice(offsets, local, global) ==
  [offsets |-> offsets, local_shape |-> local, global_shape |-> global]

Square == <<2, 2>>
Top    == Slice(<<0, 0>>, <<1, 2>>, Square)
Bottom == Slice(<<1, 0>>, <<1, 2>>, Square)
Right  == Slice(<<0, 1>>, <<2, 1>>, Square)
Single == Whole(<<1>>)
Empty  == Slice(<<1>>, <<0>>, <<1>>)

Of(key, slices) == { key :> s : s \in slices }

(* Publishers 1 and 2 need not have anything in "b". *)
MCMenu ==
  "a" :> (0 :> Of("w", {Top}) @@ 1 :> Of("w", {Top, Bottom})
          @@ 2 :> Of("w", {Top, Bottom, Right}))
  @@ "b" :> (0 :> Of("v", {Single}) @@ 1 :> Of("u", {Single}) \cup {NoRoutes}
             @@ 2 :> Of("v", {Single}) \cup Of("u", {Single}) \cup {NoRoutes})

(* One sharding of the matrix, and nothing of publisher 2 in "b". *)
PlainMenu ==
  "a" :> (0 :> Of("w", {Top}) @@ 1 :> Of("w", {Top}) @@ 2 :> Of("w", {Bottom}))
  @@ "b" :> (0 :> Of("v", {Single}) @@ 1 :> Of("u", {Single}) @@ 2 :> {NoRoutes})

MCWants ==
  "r" :> { "a" :> ("w" :> Whole(Square)) @@ "b" :> ("v" :> Single @@ "u" :> Single) }
  @@ "s" :> { "a" :> ("w" :> Bottom) @@ "b" :> ("v" :> Empty @@ "u" :> Single) }

MCHash == "w" :> 1 @@ "v" :> 0 @@ "u" :> 0
=============================================================================
