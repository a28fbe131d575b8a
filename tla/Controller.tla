----------------------------- MODULE Controller -----------------------------
(***************************************************************************)
(* The Controller actor: the index of which volume holds which part of     *)
(* which key.  Its endpoints run one at a time, so each is one action, or  *)
(* one state function when it only reads.                                  *)
(***************************************************************************)
EXTENDS StoreTypes

VARIABLES
  index,   \* index[k][v]: the StorageInfo of key k on volume v, or NoInfo
  older    \* older[k]: the pairs <<u, v>> of volumes of k, u inserted first

controllerVars == <<index, older>>

(***************************************************************************)
(* StorageInfo: the type of the entry and the set of slices notified.  A   *)
(* whole tensor or object contributes the slice None.                      *)
(***************************************************************************)
NoInfo == [object_type |-> "NONE", tensor_slices |-> {}]
StorageInfo == [object_type   : ObjectType,
                tensor_slices : SUBSET (Slice \cup {NoSlice})]

ControllerTypeOK ==
  /\ index \in [Key -> [Volume -> StorageInfo \cup {NoInfo}]]
  /\ older \in [Key -> SUBSET (Volume \X Volume)]

ControllerInit ==
  /\ index = [k \in Key |-> [v \in Volume |-> NoInfo]]
  /\ older = [k \in Key |-> {}]

Indexed(k, v) == index[k][v] # NoInfo
Holders(k) == { v \in Volume : Indexed(k, v) }

-----------------------------------------------------------------------------
(* notify_put_batch *)

InfoOf(r) == [object_type |-> r.object_type, tensor_slices |-> {r.slice}]

(* StorageInfo.update asserts that a key never changes its type. *)
NotifyAccepts(r, v) ==
  Indexed(r.key, v) => index[r.key][v].object_type = r.object_type

NotifyPutSucceeds(rs, v) == \A i \in DOMAIN rs : NotifyAccepts(rs[i], v)

(* The loop stops at the first assertion that fails; what it did stays. *)
Notified(rs, v) ==
  { rs[i] : i \in { n \in DOMAIN rs : \A j \in 1..n : NotifyAccepts(rs[j], v) } }

(* Variant: the type of a new StorageInfo is never set. *)
MergeUntyped(info, r) ==
  [object_type   |-> info.object_type,
   tensor_slices |-> info.tensor_slices \cup {r.slice}]

Merge(info, r) ==
  [object_type   |-> r.object_type,
   tensor_slices |-> info.tensor_slices \cup {r.slice}]

(* Variant: an overwrite starts the volume map of its keys anew. *)
NotifyPutAnew(rs, v) ==
  LET Hit(k) == \E r \in Notified(rs, v) : r.key = k
      Req(k) == CHOOSE r \in Notified(rs, v) : r.key = k
      Anew(k) == Hit(k) /\ Indexed(k, v)
  IN  /\ index' = [k \in Key |->
           [u \in Volume |->
              IF Hit(k) /\ u = v THEN Merge(index[k][v], Req(k))
              ELSE IF Anew(k) THEN NoInfo ELSE index[k][u]]]
      /\ older' = [k \in Key |->
           IF Anew(k) THEN {}
           ELSE IF Hit(k) THEN older[k] \cup { <<u, v>> : u \in Holders(k) }
           ELSE older[k]]

NotifyPutBatch(rs, v) ==
  LET Hit(k) == \E r \in Notified(rs, v) : r.key = k
      Req(k) == CHOOSE r \in Notified(rs, v) : r.key = k
  IN  /\ index' = [k \in Key |->
           IF Hit(k) THEN [index[k] EXCEPT ![v] = Merge(@, Req(k))]
                     ELSE index[k]]
      /\ older' = [k \in Key |->
           IF Hit(k) /\ ~Indexed(k, v)
           THEN older[k] \cup { <<u, v>> : u \in Holders(k) }
           ELSE older[k]]

-----------------------------------------------------------------------------
(* notify_delete and notify_delete_batch *)

(* keysAt[v]: the keys to forget on volume v; unknown ones are ignored. *)
NotifyDeleteBatch(keysAt) ==
  /\ index' = [k \in Key |->
       [v \in Volume |-> IF k \in keysAt[v] THEN NoInfo ELSE index[k][v]]]
  /\ older' = [k \in Key |->
       { p \in older[k] : k \notin keysAt[p[1]] /\ k \notin keysAt[p[2]] }]

(* notify_delete raises KeyError unless volume v is known to hold k. *)
NotifyDeleteSucceeds(k, v) == Indexed(k, v)

(* Variant: the StorageInfo is emptied instead of removed. *)
NotifyDeleteEmpties(k, v) ==
  /\ index' = [index EXCEPT ![k][v].tensor_slices = {}]
  /\ UNCHANGED older

NotifyDelete(k, v) ==
  /\ index' = [index EXCEPT ![k][v] = NoInfo]
  /\ older' = [older EXCEPT ![k] = { p \in @ : p[1] # v /\ p[2] # v }]

-----------------------------------------------------------------------------
(* locate_volumes *)

(***************************************************************************)
(* _is_dtensor_fully_committed visits the volumes in order and returns     *)
(* True at the first that holds a whole object or tensor.  Before that it  *)
(* collects the slices, and asserts that they agree on the mesh.           *)
(***************************************************************************)
Older(k, v) == { u \in Holders(k) : <<u, v>> \in older[k] }

IsSliced(k, v) == index[k][v].object_type = "TENSOR_SLICE"

Visited(k) ==
  { v \in Holders(k) : \A u \in Older(k, v) \cup {v} : IsSliced(k, u) }

VisitedSlices(k) == UNION { index[k][v].tensor_slices : v \in Visited(k) }

HasWhole(k) == \E v \in Holders(k) : ~IsSliced(k, v)

(* Variant: one slice is enough. *)
CommitStateAny(k) == IF Holders(k) = {} THEN "partial" ELSE "committed"

CommitState(k) ==
  LET slices   == VisitedSlices(k)
      coords   == { s.coordinates : s \in slices }
      expected == { s.mesh_shape : s \in slices }
  IN  CASE Cardinality(expected) > 1 -> "inconsistent"
        [] HasWhole(k) -> "committed"
        [] expected = {coords} -> "committed"
        [] OTHER -> "partial"

(* The outcome of locating one key; (fully) asks for a committed one. *)
Locate(k, fully) ==
  CASE Holders(k) = {} -> "KeyError"
    [] Holders(k) # {} /\ ~fully -> "ok"
    [] Holders(k) # {} /\ fully ->
         CASE CommitState(k) = "committed" -> "ok"
           [] CommitState(k) = "partial" -> "KeyError"
           [] CommitState(k) = "inconsistent" -> "AssertionError"
=============================================================================
