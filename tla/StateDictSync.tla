---------------------------- MODULE StateDictSync ----------------------------
(***************************************************************************)
(* The two ways in which put_state_dict and get_state_dict move a state    *)
(* dict: through the volumes, with a registered layout, or directly out of *)
(* the trainer's memory.  The direct_rdma argument decides, and the        *)
(* callers of one state dict all pass the same.                            *)
(***************************************************************************)
EXTENDS RoutedSync, DirectWeightSync

VARIABLE direct_rdma

syncVars == <<vars, directVars, direct_rdma>>

SyncInit == Init /\ DirectInit /\ direct_rdma \in BOOLEAN

SyncNext ==
  /\ UNCHANGED direct_rdma
  /\ \/ direct_rdma /\ DirectNext /\ UNCHANGED vars
     \/ ~direct_rdma /\ Next /\ UNCHANGED directVars

SyncSpec == SyncInit /\ [][SyncNext]_syncVars /\ Fairness
=============================================================================
