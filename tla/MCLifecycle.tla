---------------------------- MODULE MCLifecycle ----------------------------
(***************************************************************************)
(* Small instances of SpmdSession for TLC: rank 0, its peer and an actor   *)
(* of rank 0 with a task each; beside the collective store there is one    *)
(* store, or there are two, with the default strategy.                     *)
(***************************************************************************)
EXTENDS SpmdSession, TLC

CONSTANTS p0, p1, a, t0, t1, u, spmd, first, second

MCOf == t0 :> p0 @@ t1 :> a @@ u :> p1
MCManages == t0 :> {first, spmd} @@ t1 :> {first} @@ u :> {spmd}
MCUses ==
  t0 :> {<<first, "get">>} @@ t1 :> {<<first, "put">>, <<first, "get">>}
  @@ u :> {<<spmd, "put">>, <<spmd, "get">>}
MCManagesTwo == t0 :> {first} @@ t1 :> {second} @@ u :> {}
MCUsesTwo ==
  t0 :> {<<first, "put">>, <<first, "get">>} @@ t1 :> {<<second, "put">>}
  @@ u :> {}
MCMaxInit == first :> 2 @@ spmd :> 1
MCMaxInitTwo == first :> 1 @@ second :> 1 @@ spmd :> 1
=============================================================================
