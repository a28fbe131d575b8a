-------------------------- MODULE MCStateDictSync --------------------------
(***************************************************************************)
(* Through the volumes: two publishers and two requesters: one reads from  *)
(* both publishers, one from a single replica.                             *)
(*                                                                         *)
(* Directly: a trainer of two ranks, with a policy of a sharded and a      *)
(* replicated parameter and a critic of a replicated one, and a generator  *)
(* that pulls all of a parameter, or the shard of one rank and half of the *)
(* replicated parameter, or a part of the critic.                          *)
(***************************************************************************)
EXTENDS StateDictSync, TLC

CONSTANTS p1, p2, r1, r2, rows, columns, g1

MCReads == r1 :> {p1, p2} @@ r2 :> {p2}
MCMaxPush == [p \in Rank |-> IF p = p1 THEN 2 ELSE 1]

Vector(offset, length) ==
  [offsets |-> <<offset>>, local_shape |-> <<length>>, global_shape |-> <<3>>]

MCShard ==
  [policy |-> 0 :> [w |-> Vector(0, 2), b |-> Vector(0, 3)]
           @@ 1 :> [w |-> Vector(2, 1), b |-> Vector(0, 3)],
   critic |-> [r \in 0..1 |-> [h |-> Vector(0, 3)]]]

MCInto == [all  |-> [w |-> Vector(0, 3)],
           own  |-> [w |-> Vector(2, 1), b |-> Vector(0, 2)],
           head |-> [h |-> Vector(1, 2)]]

MCUses ==
  g1 :> {<<"policy", "all">>, <<"policy", "own">>, <<"critic", "head">>}
=============================================================================
