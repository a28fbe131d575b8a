--------------------------- MODULE StorageVolume ---------------------------
(***************************************************************************)
(* The StorageVolume actors with their InMemoryStore: what each volume     *)
(* holds under each key.  An endpoint runs to completion before the next   *)
(* one starts, so each is one action, or a state function when it reads.   *)
(***************************************************************************)
EXTENDS StoreTypes

CONSTANT NoValue   \* no data

ASSUME NoValueAssumption == NoValue \notin Value

VARIABLE store     \* store[v][k]: the entry kv[k] of volume v, or NoEntry

(***************************************************************************)
(* An entry is an object, a whole tensor, or the dict of shards of a       *)
(* distributed tensor, kept in the order the coordinates were first put.   *)
(***************************************************************************)
Shard == [slice : Slice, data : Value]
Entry == [type   : {"NONE", "OBJECT", "TENSOR", "SHARDS"},
          data   : Value \cup {NoValue},
          shards : Seq(Shard)]
NoEntry == [type |-> "NONE", data |-> NoValue, shards |-> <<>>]

VolumeTypeOK == store \in [Volume -> [Key -> Entry]]

VolumeInit == store = [v \in Volume |-> [k \in Key |-> NoEntry]]

Stored(v, k) == store[v][k].type # "NONE"

CoordinatesAt(entry) ==
  { entry.shards[i].slice.coordinates : i \in DOMAIN entry.shards }

-----------------------------------------------------------------------------
(* put *)

(***************************************************************************)
(* _extract_existing asserts that the request fits the entry it replaces.  *)
(* An existing tensor only rejects a request that carries a slice.         *)
(***************************************************************************)
ExtractExistingAccepts(entry, r) ==
  CASE entry.type = "NONE"   -> TRUE
    [] entry.type = "TENSOR" -> r.slice = NoSlice
    [] entry.type = "OBJECT" -> r.object_type = "OBJECT"
    [] entry.type = "SHARDS" -> r.slice # NoSlice

PutAccepts(v, rs) ==
  \A i \in DOMAIN rs : ExtractExistingAccepts(store[v][rs[i].key], rs[i])

(* Variant: every put starts the dict of shards anew. *)
StoreOnlyShard(entry, r) ==
  [type |-> "SHARDS", data |-> NoValue,
   shards |-> <<[slice |-> r.slice, data |-> r.data]>>]

(* Variant: a shard that is there already keeps its data. *)
KeepShard(entry, r) ==
  [type |-> "SHARDS", data |-> NoValue,
   shards |-> IF r.slice.coordinates \in CoordinatesAt(entry) THEN entry.shards
              ELSE Append(entry.shards, [slice |-> r.slice, data |-> r.data])]

(* _handle_dtensor: one shard per coordinates, replaced where it stands. *)
StoreShard(entry, r) ==
  LET shard == [slice |-> r.slice, data |-> r.data]
      at    == { i \in DOMAIN entry.shards :
                   entry.shards[i].slice.coordinates = r.slice.coordinates }
  IN  [type   |-> "SHARDS",
       data   |-> NoValue,
       shards |-> IF at = {} THEN Append(entry.shards, shard)
                  ELSE [i \in DOMAIN entry.shards |->
                          IF i \in at THEN shard ELSE entry.shards[i]]]

(* _store *)
StoreEntry(entry, r) ==
  CASE r.object_type = "OBJECT" ->
         [type |-> "OBJECT", data |-> r.data, shards |-> <<>>]
    [] r.object_type = "TENSOR" ->
         [type |-> "TENSOR", data |-> r.data, shards |-> <<>>]
    [] r.object_type = "TENSOR_SLICE" -> StoreShard(entry, r)

PutVolume(v, rs) ==
  store' = [store EXCEPT ![v] = [k \in Key |->
    IF k \in KeysOf(rs)
    THEN StoreEntry(store[v][k], rs[CHOOSE i \in DOMAIN rs : rs[i].key = k])
    ELSE store[v][k]]]

-----------------------------------------------------------------------------
(* get *)

(* _get_sharded_tensor: the first shard that contains the whole region. *)
Containing(entry, region) ==
  { i \in DOMAIN entry.shards : region \subseteq entry.shards[i].slice.region }

FirstContaining(entry, region) ==
  CHOOSE i \in Containing(entry, region) :
    \A j \in Containing(entry, region) : i <= j

(* What get answers to one sub-request: "ok", or the error it raises. *)
GetOutcome(v, sub) ==
  LET entry == store[v][sub.key]
  IN  CASE entry.type = "NONE" -> "KeyError"
        [] entry.type \in {"OBJECT", "TENSOR"} -> "ok"
        [] entry.type = "SHARDS" ->
             IF sub.sliced /\ Containing(entry, sub.region) # {}
             THEN "ok" ELSE "RuntimeError"

(* What a read of one entry brings back. *)
Part == [key : Key, region : SUBSET Cell, data : Value \cup {NoValue}]

(* _get_data *)
GetPart(v, sub) ==
  LET entry == store[v][sub.key]
  IN  [key    |-> sub.key,
       region |-> sub.region,
       data   |-> IF entry.type = "SHARDS"
                  THEN entry.shards[FirstContaining(entry, sub.region)].data
                  ELSE entry.data]

-----------------------------------------------------------------------------
(* delete and delete_batch *)

(* delete raises KeyError unless the volume holds the key. *)
DeleteSucceeds(v, k) == Stored(v, k)

(* Variant: of a sharded entry only the oldest shard goes. *)
DeleteOneShard(v, keys) ==
  store' = [store EXCEPT ![v] = [k \in Key |->
    IF k \notin keys THEN store[v][k]
    ELSE IF Len(store[v][k].shards) > 1
         THEN [store[v][k] EXCEPT !.shards = Tail(@)] ELSE NoEntry]]

DeleteKeys(v, keys) ==
  store' = [store EXCEPT ![v] =
              [k \in Key |-> IF k \in keys THEN NoEntry ELSE store[v][k]]]
=============================================================================
