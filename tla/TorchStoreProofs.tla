-------------------------- MODULE TorchStoreProofs --------------------------
(***************************************************************************)
(* Theorems about TorchStore, for every set of keys, volumes and clients   *)
(* and every menu of operations.  The first part is about the index of the *)
(* controller: types, and that it never dangles as long as callers keep    *)
(* puts of a key apart from its deletes.  The second part is about what    *)
(* the calls promise: a get brings all it was asked for, what a get has    *)
(* located can be read, a committed key stays locatable, no entry is left  *)
(* behind, a delete is final.  What the callers have to put for that is    *)
(* named under "What callers put".  The third part shows that the store    *)
(* implements the registers of AtomicStore.                                *)
(***************************************************************************)
EXTENDS TorchStore, FiniteSetTheorems, SequenceTheorems, WellFoundedInduction,
        TLAPS

-----------------------------------------------------------------------------
(* What the store's operators do to one entry *)

LEMMA NoEntryType == NoEntry \in Entry
BY EmptySeq DEF NoEntry, Entry

LEMMA StoreShardType ==
  ASSUME NEW entry \in Entry, NEW r \in Request, r.slice \in Slice
  PROVE  StoreShard(entry, r) \in Entry
<1> DEFINE shard == [slice |-> r.slice, data |-> r.data]
           at == { i \in DOMAIN entry.shards :
                     entry.shards[i].slice.coordinates = r.slice.coordinates }
           replaced == [i \in DOMAIN entry.shards |->
                          IF i \in at THEN shard ELSE entry.shards[i]]
<1>1. shard \in Shard
  BY DEF Shard, Request
<1>2. entry.shards \in Seq(Shard)
  BY DEF Entry
<1>3. Append(entry.shards, shard) \in Seq(Shard)
  BY <1>1, <1>2
<1>4. replaced \in Seq(Shard)
  <2>1. DOMAIN entry.shards = 1..Len(entry.shards) /\ Len(entry.shards) \in Nat
    BY <1>2
  <2>2. \A i \in 1..Len(entry.shards) : entry.shards[i] \in Shard
    BY <1>2
  <2>3. replaced \in [1..Len(entry.shards) -> Shard]
    BY <1>1, <2>1, <2>2
  <2> QED BY <2>1, <2>3
<1>5. StoreShard(entry, r) =
        [type |-> "SHARDS", data |-> NoValue,
         shards |-> IF at = {} THEN Append(entry.shards, shard) ELSE replaced]
  BY DEF StoreShard
<1> QED
  <2> HIDE DEF shard, at, replaced
  <2> QED BY <1>3, <1>4, <1>5 DEF Entry

LEMMA StoreEntryType ==
  ASSUME NEW entry \in Entry, NEW r \in Request
  PROVE  StoreEntry(entry, r) \in Entry
<1>1. CASE r.object_type = "TENSOR_SLICE"
  BY <1>1, StoreShardType, SliceAssumption DEF StoreEntry, Request
<1>2. CASE r.object_type \in {"OBJECT", "TENSOR"}
  BY <1>2, EmptySeq DEF StoreEntry, Request, Entry
<1> QED BY <1>1, <1>2 DEF Request, ObjectType

(* A stored shard is found under its coordinates, and none gets lost. *)
LEMMA StoreShardCoordinates ==
  ASSUME NEW entry \in Entry, NEW r \in Request, r.slice \in Slice
  PROVE  CoordinatesAt(StoreShard(entry, r))
           = CoordinatesAt(entry) \cup {r.slice.coordinates}
<1> DEFINE shard == [slice |-> r.slice, data |-> r.data]
           old == entry.shards
           new == StoreShard(entry, r).shards
           at == { i \in DOMAIN old :
                     old[i].slice.coordinates = r.slice.coordinates }
<1>1. old \in Seq(Shard) /\ shard \in Shard
  BY DEF Entry, Shard, Request
<1>2. shard.slice.coordinates = r.slice.coordinates
  OBVIOUS
<1>3. CASE at = {}
  <2>1. new = Append(old, shard)
    BY <1>3 DEF StoreShard
  <2>2. DOMAIN old = 1..Len(old) /\ DOMAIN new = 1..(Len(old) + 1)
        /\ Len(old) \in Nat
    BY <2>1, <1>1
  <2>3. \A i \in DOMAIN old : new[i] = old[i]
    BY <2>1, <2>2, <1>1
  <2>4. new[Len(old) + 1] = shard
    BY <2>1, <1>1
  <2>5. \A i \in DOMAIN new : i \in DOMAIN old \/ i = Len(old) + 1
    BY <2>2
  <2>6. DOMAIN old \subseteq DOMAIN new /\ Len(old) + 1 \in DOMAIN new
    BY <2>2
  <2> HIDE DEF shard, old, new
  <2>7. { new[i].slice.coordinates : i \in DOMAIN new }
          = { old[i].slice.coordinates : i \in DOMAIN old }
              \cup {r.slice.coordinates}
    BY <2>3, <2>4, <2>5, <2>6, <1>2
  <2> QED BY <2>7 DEF CoordinatesAt, old, new
<1>4. CASE at # {}
  <2>1. new = [i \in DOMAIN old |-> IF i \in at THEN shard ELSE old[i]]
    BY <1>4 DEF StoreShard
  <2>2. DOMAIN new = DOMAIN old
    BY <2>1
  <2>3. \A i \in DOMAIN old : new[i].slice.coordinates = old[i].slice.coordinates
    BY <2>1, <1>2
  <2>4. \E i \in DOMAIN old : old[i].slice.coordinates = r.slice.coordinates
    BY <1>4
  <2> HIDE DEF shard, old, new
  <2>5. { new[i].slice.coordinates : i \in DOMAIN new }
          = { old[i].slice.coordinates : i \in DOMAIN old }
              \cup {r.slice.coordinates}
    BY <2>2, <2>3, <2>4
  <2> QED BY <2>5 DEF CoordinatesAt, old, new
<1> QED BY <1>3, <1>4

(* A put that the volume accepts keeps what the index may say of the entry. *)
LEMMA PutKeepsBacking ==
  ASSUME NEW entry \in Entry, NEW r \in Request,
         ExtractExistingAccepts(entry, r),
         NEW info \in StorageInfo, Backs(entry, info)
  PROVE  Backs(StoreEntry(entry, r), info)
<1>1. CASE info.object_type = "OBJECT"
  BY <1>1 DEF Backs, ExtractExistingAccepts, StoreEntry, Request
<1>2. CASE info.object_type = "TENSOR"
  BY <1>2, SliceAssumption
  DEF Backs, ExtractExistingAccepts, StoreEntry, Request, ObjectType
<1>3. CASE info.object_type = "TENSOR_SLICE"
  <2>1. entry.type = "SHARDS" /\ r.slice # NoSlice
    BY <1>3 DEF Backs, ExtractExistingAccepts
  <2>2. r.object_type = "TENSOR_SLICE" /\ r.slice \in Slice
    BY <2>1 DEF Request
  <2>3. StoreEntry(entry, r) = StoreShard(entry, r)
    BY <2>2 DEF StoreEntry
  <2>4. StoreShard(entry, r).type = "SHARDS"
    BY DEF StoreShard
  <2> QED BY <1>3, <2>2, <2>3, <2>4, StoreShardCoordinates DEF Backs
<1> QED BY <1>1, <1>2, <1>3 DEF StorageInfo, ObjectType

(* What a put has stored backs what it is about to notify. *)
LEMMA PutBacksItsInfo ==
  ASSUME NEW entry \in Entry, NEW r \in Request
  PROVE  Backs(StoreEntry(entry, r), InfoOf(r))
<1>1. CASE r.object_type \in {"OBJECT", "TENSOR"}
  BY <1>1 DEF Backs, InfoOf, StoreEntry
<1>2. CASE r.object_type = "TENSOR_SLICE"
  <2>1. r.slice \in Slice
    BY <1>2 DEF Request
  <2>2. StoreEntry(entry, r) = StoreShard(entry, r)
    BY <1>2 DEF StoreEntry
  <2>3. StoreShard(entry, r).type = "SHARDS"
    BY DEF StoreShard
  <2> QED BY <1>2, <2>1, <2>2, <2>3, StoreShardCoordinates DEF Backs, InfoOf
<1> QED BY <1>1, <1>2 DEF Request, ObjectType

(* Merging a request into the StorageInfo of its type keeps it backed. *)
LEMMA MergeIsBacked ==
  ASSUME NEW entry, NEW r \in Request, Backs(entry, InfoOf(r)),
         NEW info \in StorageInfo \cup {NoInfo},
         \/ info = NoInfo
         \/ info.object_type = r.object_type /\ Backs(entry, info)
  PROVE  Backs(entry, Merge(info, r)) /\ Merge(info, r) # NoInfo
<1>1. Merge(info, r).object_type = r.object_type
      /\ Merge(info, r).tensor_slices = info.tensor_slices \cup {r.slice}
  BY DEF Merge
<1>2. InfoOf(r).object_type = r.object_type /\ InfoOf(r).tensor_slices = {r.slice}
  BY DEF InfoOf
<1>3. r.object_type \in {"OBJECT", "TENSOR", "TENSOR_SLICE"}
  BY DEF Request, ObjectType
<1>4. Merge(info, r) # NoInfo
  BY <1>1, <1>3 DEF NoInfo
<1>5. CASE r.object_type \in {"OBJECT", "TENSOR"}
  BY <1>1, <1>2, <1>4, <1>5 DEF Backs
<1>6. CASE r.object_type = "TENSOR_SLICE"
  <2>1. entry.type = "SHARDS" /\ r.slice.coordinates \in CoordinatesAt(entry)
    BY <1>2, <1>6 DEF Backs
  <2>2. \A s \in info.tensor_slices : s.coordinates \in CoordinatesAt(entry)
    <3>1. CASE info = NoInfo
      BY <3>1 DEF NoInfo
    <3>2. CASE info.object_type = "TENSOR_SLICE" /\ Backs(entry, info)
      BY <3>2 DEF Backs
    <3> QED BY <3>1, <3>2, <1>6
  <2> QED BY <1>1, <1>4, <1>6, <2>1, <2>2 DEF Backs
<1> QED BY <1>3, <1>5, <1>6

-----------------------------------------------------------------------------
(* What the endpoints do to the index and to a volume *)

LEMMA ToRequest ==
  ASSUME NEW rs, IsBatch(rs), NEW i \in DOMAIN rs
  PROVE  rs[i] \in Request /\ rs[i].key \in Key /\ rs[i].key \in KeysOf(rs)
<1>1. rs \in Seq(Request)
  BY DEF IsBatch
<1>2. rs[i] \in Request
  BY <1>1
<1>3. rs[i].key \in Key
  BY <1>2 DEF Request
<1>4. rs[i].key \in KeysOf(rs)
  BY DEF KeysOf
<1> QED BY <1>2, <1>3, <1>4

(* The requests of a batch are stored, each under its key. *)
LEMMA PutVolumeEffect ==
  ASSUME VolumeTypeOK, NEW v \in Volume, NEW rs, IsBatch(rs), PutVolume(v, rs)
  PROVE  /\ VolumeTypeOK'
         /\ \A w \in Volume : \A k \in Key :
              w # v \/ k \notin KeysOf(rs) => store'[w][k] = store[w][k]
         /\ \A i \in DOMAIN rs :
              store'[v][rs[i].key] = StoreEntry(store[v][rs[i].key], rs[i])
<1> DEFINE at(k) == CHOOSE i \in DOMAIN rs : rs[i].key = k
           new(k) == IF k \in KeysOf(rs)
                     THEN StoreEntry(store[v][k], rs[at(k)]) ELSE store[v][k]
<1>1. store' = [store EXCEPT ![v] = [k \in Key |-> new(k)]]
  BY DEF PutVolume
<1>2. ASSUME NEW k \in KeysOf(rs)
      PROVE  at(k) \in DOMAIN rs /\ rs[at(k)].key = k
  BY DEF KeysOf
<1>3. \A w \in Volume : \A k \in Key : store[w][k] \in Entry
  BY DEF VolumeTypeOK
<1>4. ASSUME NEW k \in Key PROVE new(k) \in Entry
  BY <1>2, <1>3, ToRequest, StoreEntryType
<1>5. store' \in [Volume -> [Key -> Entry]]
  BY <1>1, <1>4 DEF VolumeTypeOK
<1>6. ASSUME NEW i \in DOMAIN rs PROVE new(rs[i].key) = StoreEntry(store[v][rs[i].key], rs[i])
  <2>1. rs[i].key \in KeysOf(rs) BY DEF KeysOf
  <2>2. at(rs[i].key) = i BY <1>2, <2>1 DEF IsBatch
  <2> QED BY <2>1, <2>2
<1>7. \A w \in Volume : \A k \in Key :
        store'[w][k] = IF w = v THEN new(k) ELSE store[w][k]
  BY <1>1 DEF VolumeTypeOK
<1> HIDE DEF new
<1>8. \A k \in Key : k \notin KeysOf(rs) => new(k) = store[v][k]
  BY DEF new
<1> QED BY <1>5, <1>6, <1>7, <1>8, ToRequest DEF VolumeTypeOK

(* An index entry changes only by merging a request that it accepts. *)
LEMMA NotifyPutEffect ==
  ASSUME ControllerTypeOK, NEW v \in Volume, NEW rs, IsBatch(rs),
         NotifyPutBatch(rs, v)
  PROVE  /\ ControllerTypeOK'
         /\ \A w \in Volume : \A k \in Key :
              \/ index'[k][w] = index[k][w]
              \/ /\ w = v
                 /\ \E i \in DOMAIN rs :
                      /\ rs[i].key = k
                      /\ NotifyAccepts(rs[i], v)
                      /\ index'[k][v] = Merge(index[k][v], rs[i])
<1> DEFINE Hit(k) == \E r \in Notified(rs, v) : r.key = k
           Req(k) == CHOOSE r \in Notified(rs, v) : r.key = k
<1>1. \A k \in Key : index'[k] =
        IF Hit(k) THEN [index[k] EXCEPT ![v] = Merge(@, Req(k))] ELSE index[k]
  BY DEF NotifyPutBatch
<1>2. DOMAIN index' = Key /\ index' = [k \in Key |-> index'[k]]
  BY DEF NotifyPutBatch
<1>3. ASSUME NEW k \in Key, Hit(k)
      PROVE  \E i \in DOMAIN rs : rs[i] = Req(k) /\ rs[i].key = k /\ NotifyAccepts(rs[i], v)
  <2>1. Req(k) \in Notified(rs, v) /\ Req(k).key = k
    BY <1>3
  <2>2. PICK n \in DOMAIN rs :
          rs[n] = Req(k) /\ \A j \in 1..n : NotifyAccepts(rs[j], v)
    BY <2>1 DEF Notified
  <2>3. rs \in Seq(Request)
    BY DEF IsBatch
  <2>4. n \in 1..n
    <3>1. n \in 1..Len(rs) /\ Len(rs) \in Nat
      BY <2>3
    <3> QED BY <3>1
  <2> QED BY <2>1, <2>2, <2>4
<1>4. \A k \in Key : index[k] \in [Volume -> StorageInfo \cup {NoInfo}]
  BY DEF ControllerTypeOK
<1>5. ASSUME NEW k \in Key, Hit(k) PROVE Merge(index[k][v], Req(k)) \in StorageInfo
  <2>1. PICK i \in DOMAIN rs : rs[i] = Req(k)
    BY <1>3, <1>5
  <2>2. Req(k) \in Request
    BY <2>1, ToRequest
  <2> HIDE DEF Req
  <2> QED BY <1>4, <2>2 DEF Merge, NoInfo, StorageInfo, Request
<1> HIDE DEF Hit, Req
<1>6. \A k \in Key : index'[k] \in [Volume -> StorageInfo \cup {NoInfo}]
  BY <1>1, <1>4, <1>5
<1>7. index' \in [Key -> [Volume -> StorageInfo \cup {NoInfo}]]
  BY <1>2, <1>6
<1>8. older' \in [Key -> SUBSET (Volume \X Volume)]
  BY DEF NotifyPutBatch, ControllerTypeOK, Holders
<1>9. ASSUME NEW w \in Volume, NEW k \in Key, index'[k][w] # index[k][w]
      PROVE  w = v /\ Hit(k) /\ index'[k][v] = Merge(index[k][v], Req(k))
  BY <1>1, <1>4, <1>9
<1> QED BY <1>3, <1>7, <1>8, <1>9 DEF ControllerTypeOK

-----------------------------------------------------------------------------
(* Type correctness *)

(***************************************************************************)
(* A put in progress carries a batch, of which the volume has taken less   *)
(* than all while it still puts and all when it notifies.                  *)
(***************************************************************************)
BatchInFlight ==
  \A c \in Client :
    /\ pc[c] \in {"put", "notify"} => IsBatch(reqs[c])
    /\ pc[c] = "put" => sent[c] < Len(reqs[c]) /\ (BatchPuts => sent[c] = 0)
    /\ pc[c] = "notify" => sent[c] = Len(reqs[c])

(* TypeOK needs it: the next chunk of a put exists. *)
TypeInv == TypeOK /\ BatchInFlight

LEMMA NoWantsType == <<>> \in Wants
<1>1. <<>> \in [{} -> Want]
  OBVIOUS
<1> QED BY <1>1 DEF Wants

LEMMA BatchType ==
  ASSUME NEW rs, IsBatch(rs)
  PROVE  rs \in Seq(Request) /\ KeysOf(rs) \in SUBSET Key /\ Len(rs) \in Nat /\ Len(rs) > 0
<1>1. rs \in Seq(Request) /\ rs # <<>>
  BY DEF IsBatch
<1>2. KeysOf(rs) \in SUBSET Key
  BY ToRequest DEF KeysOf
<1>3. Len(rs) \in Nat /\ Len(rs) > 0
  BY <1>1, EmptySeq
<1> QED BY <1>1, <1>2, <1>3

(* The chunk of a put is a batch of the requests that come next. *)
LEMMA ChunkIsBatch ==
  ASSUME TypeInv, NEW c \in Client, pc[c] = "put"
  PROVE  /\ IsBatch(Chunk(c))
         /\ Len(Chunk(c)) \in Nat \ {0}
         /\ DOMAIN Chunk(c) = 1..Len(Chunk(c))
         /\ sent[c] + Len(Chunk(c)) <= Len(reqs[c])
         /\ BatchPuts => sent[c] + Len(Chunk(c)) = Len(reqs[c])
         /\ \A i \in 1..Len(Chunk(c)) : Chunk(c)[i] = reqs[c][sent[c] + i]
<1>1. IsBatch(reqs[c]) /\ sent[c] < Len(reqs[c]) /\ sent[c] \in Nat
      /\ (BatchPuts => sent[c] = 0)
  BY DEF TypeInv, BatchInFlight, TypeOK, ClientTypeOK
<1>2. reqs[c] \in Seq(Request) /\ Len(reqs[c]) \in Nat /\ Len(reqs[c]) > 0
  BY <1>1, BatchType
<1>3. CASE BatchPuts
  <2>1. Chunk(c) = reqs[c] /\ sent[c] = 0
    BY <1>1, <1>3 DEF Chunk
  <2> QED BY <2>1, <1>1, <1>2
<1>4. CASE ~BatchPuts
  <2> DEFINE n == sent[c] + 1
  <2>1. Chunk(c) = SubSeq(reqs[c], n, n)
    BY <1>4 DEF Chunk
  <2>2. n \in 1..Len(reqs[c])
    BY <1>1, <1>2
  <2>3. SubSeq(reqs[c], n, n) = [i \in 1..1 |-> reqs[c][n]]
    BY <1>2, <2>2
  <2>4. reqs[c][n] \in Request
    BY <1>2, <2>2
  <2> HIDE DEF n
  <2>5. Chunk(c) \in Seq(Request) /\ Len(Chunk(c)) = 1 /\ Chunk(c)[1] = reqs[c][n]
        /\ DOMAIN Chunk(c) = 1..1
    BY <2>1, <2>3, <2>4
  <2>6. IsBatch(Chunk(c))
    BY <2>5, EmptySeq DEF IsBatch
  <2> QED BY <1>1, <1>2, <1>4, <2>5, <2>6 DEF n
<1> QED BY <1>3, <1>4

(* The first shard that contains a region is one of the entry's shards. *)
LEMMA FirstContainingType ==
  ASSUME NEW entry \in Entry, NEW region, Containing(entry, region) # {}
  PROVE  /\ FirstContaining(entry, region) \in Containing(entry, region)
         /\ FirstContaining(entry, region) \in DOMAIN entry.shards
<1>1. entry.shards \in Seq(Shard)
  BY DEF Entry
<1>2. Containing(entry, region) \subseteq Nat
  BY <1>1 DEF Containing
<1>3. PICK i \in Containing(entry, region) :
        \A j \in Containing(entry, region) : <<j, i>> \notin OpToRel(<, Nat)
  BY <1>2, WFMin, NatLessThanWellFounded
<1>4. ASSUME NEW j \in Containing(entry, region) PROVE i <= j
  <2>1. i \in Nat /\ j \in Nat
    BY <1>2
  <2>2. ~(j < i)
    <3>1. <<j, i>> \notin OpToRel(<, Nat)
      BY <1>3
    <3> QED BY <2>1, <3>1, Zenon DEF OpToRel
  <2> QED BY <2>1, <2>2
<1> QED BY <1>3, <1>4 DEF FirstContaining, Containing

LEMMA GetPartType ==
  ASSUME VolumeTypeOK, NEW v \in Volume, NEW sub \in SubRequest,
         GetOutcome(v, sub) = "ok"
  PROVE  GetPart(v, sub) \in Part
<1> DEFINE entry == store[v][sub.key]
<1>1. entry \in Entry /\ sub.key \in Key /\ sub.region \in SUBSET Cell
  BY DEF VolumeTypeOK, SubRequest
<1>2. CASE entry.type = "SHARDS"
  <2>1. Containing(entry, sub.region) # {}
    BY <1>2 DEF GetOutcome
  <2>2. entry.shards[FirstContaining(entry, sub.region)] \in Shard
    BY <1>1, <2>1, FirstContainingType DEF Entry
  <2>3. entry.shards[FirstContaining(entry, sub.region)].data \in Value
    BY <2>2 DEF Shard
  <2> QED BY <1>1, <1>2, <2>3 DEF GetPart, Part
<1>3. CASE entry.type # "SHARDS"
  <2>1. entry.data \in Value \cup {NoValue}
    BY <1>1 DEF Entry
  <2>2. GetPart(v, sub) = [key |-> sub.key, region |-> sub.region, data |-> entry.data]
    BY <1>3 DEF GetPart
  <2> QED BY <1>1, <2>1, <2>2 DEF Part
<1> QED BY <1>2, <1>3

LEMMA InitType == Init => TypeInv
<1> SUFFICES ASSUME Init PROVE TypeInv
  OBVIOUS
<1>1. ControllerTypeOK
  BY DEF Init, ControllerInit, ControllerTypeOK, NoInfo, StorageInfo
<1>2. VolumeTypeOK
  BY NoEntryType DEF Init, VolumeInit, VolumeTypeOK
<1>3. ClientTypeOK
  BY NoWantsType, EmptySeq
  DEF Init, ClientTypeOK, NoCall, NoFetch, NoBranches, NoBranch, Branch, Ops, Outcomes
<1>4. BatchInFlight
  BY DEF Init, BatchInFlight
<1> QED BY <1>1, <1>2, <1>3, <1>4 DEF TypeInv, TypeOK

LEMMA FetchPlanType ==
  ASSUME NEW wants \in Wants
  PROVE  FetchPlan(wants) \in [Volume -> SUBSET SubRequest]
<1>1. PICK keys \in SUBSET Key : wants \in [keys -> Want]
  BY DEF Wants
<1>2. ASSUME NEW k \in keys, NEW v \in Volume
      PROVE  SubRequests(k, v, wants[k]) \subseteq SubRequest
  <2>1. wants[k].sliced \in BOOLEAN /\ wants[k].region \in SUBSET Cell /\ k \in Key
    BY <1>1 DEF Want
  <2> DEFINE want == wants[k]
  <2> HIDE DEF want
  <2>2. ASSUME NEW x \in SubRequests(k, v, want), want.sliced \in BOOLEAN,
               want.region \in SUBSET Cell, k \in Key
        PROVE  x \in SubRequest
    <3>1. CASE IsFirstWhole(k, v)
      <4> DEFINE object == [key |-> k, sliced |-> FALSE, region |-> Cell]
                 tensor == [key |-> k, sliced |-> want.sliced, region |-> want.region]
      <4>1. SubRequests(k, v, want) =
              { IF index[k][v].object_type = "OBJECT" THEN object ELSE tensor }
        <5>1. v \notin Visited(k)
          BY <3>1 DEF IsFirstWhole, Visited
        <5> QED BY <3>1, <5>1 DEF SubRequests
      <4>2. object \in SubRequest /\ tensor \in SubRequest
        BY <2>2 DEF SubRequest
      <4> HIDE DEF object, tensor
      <4> QED BY <4>1, <4>2, <2>2
    <3>2. CASE ~IsFirstWhole(k, v) /\ v \in Visited(k)
      <4>1. PICK s : x = [key |-> k, sliced |-> TRUE, region |-> s.region \cap want.region]
        BY <3>2, <2>2 DEF SubRequests
      <4> QED BY <4>1, <2>2 DEF SubRequest
    <3>3. CASE ~IsFirstWhole(k, v) /\ v \notin Visited(k)
      BY <3>3, <2>2 DEF SubRequests
    <3> QED BY <3>1, <3>2, <3>3
  <2> QED BY <2>1, <2>2 DEF want
<1> QED BY <1>1, <1>2 DEF FetchPlan

LEMMA GetOutcomeType ==
  ASSUME VolumeTypeOK, NEW v \in Volume, NEW sub \in SubRequest
  PROVE  GetOutcome(v, sub) \in Outcomes
<1> DEFINE entry == store[v][sub.key]
<1>1. entry.type \in {"NONE", "OBJECT", "TENSOR", "SHARDS"}
  BY DEF VolumeTypeOK, SubRequest, Entry
<1>2. CASE entry.type = "SHARDS"
  BY <1>2 DEF GetOutcome, Outcomes
<1>3. CASE entry.type # "SHARDS"
  BY <1>1, <1>3 DEF GetOutcome, Outcomes
<1> QED BY <1>2, <1>3

(* What a delete coroutine leaves of the variables it may touch. *)
LEMMA BranchEndsType ==
  ASSUME TypeInv, NEW c \in Client, NEW v \in Volume,
         BranchEnds(c, v) \/ \E error \in Outcomes : BranchRaises(c, v, error),
         UNCHANGED <<call, reqs, sent, fetch, parts>>
  PROVE  ClientTypeOK' /\ BatchInFlight'
<1>1. /\ branch' = [branch EXCEPT ![c][v] = NoBranch]
      /\ \/ UNCHANGED <<pc, outcome>>
         \/ /\ pc[c] \in {"delete", "delete_batch"}
            /\ \E result \in Outcomes :
                 /\ pc' = [pc EXCEPT ![c] = "idle"]
                 /\ outcome' = [outcome EXCEPT ![c] = result]
  <2>1. "ok" \in Outcomes
    BY DEF Outcomes
  <2> QED BY <2>1 DEF BranchEnds, BranchRaises, Return
<1>2. NoBranch \in Branch
  BY DEF NoBranch, Branch
<1>3. ClientTypeOK'
  BY <1>1, <1>2 DEF TypeInv, TypeOK, ClientTypeOK
<1>4. BatchInFlight'
  BY <1>1 DEF TypeInv, TypeOK, ClientTypeOK, BatchInFlight
<1> QED BY <1>3, <1>4

LEMMA LocateOutcome ==
  ASSUME NEW k, NEW fully \in BOOLEAN
  PROVE  Locate(k, fully) \in Outcomes
<1>1. CommitState(k) \in {"committed", "partial", "inconsistent"}
  BY DEF CommitState
<1> QED BY <1>1 DEF Locate, Outcomes

(* Every step of every operation keeps the types. *)
LEMMA NextType == TypeInv /\ [Next]_vars => TypeInv'
<1> SUFFICES ASSUME TypeInv, [Next]_vars PROVE TypeInv'
  OBVIOUS
<1>1. TypeOK /\ BatchInFlight
  BY DEF TypeInv
<1>2. ASSUME NEW c \in Client, NEW rs \in PutMenu[c], StartPut(c, rs) PROVE TypeInv'
  <2>1. IsBatch(rs)
    BY MenuAssumption
  <2>2. rs \in Seq(Request) /\ KeysOf(rs) \in SUBSET Key /\ Len(rs) \in Nat /\ Len(rs) > 0
    BY <2>1, BatchType
  <2>3. ControllerTypeOK' /\ VolumeTypeOK'
    BY <1>1, <1>2 DEF StartPut, TypeOK, ControllerTypeOK, VolumeTypeOK, controllerVars
  <2>4. ClientTypeOK'
    BY <1>1, <1>2, <2>2, NoWantsType
    DEF StartPut, Begin, Goto, TypeOK, ClientTypeOK, Ops, Outcomes
  <2>5. BatchInFlight'
    BY <1>1, <1>2, <2>1, <2>2
    DEF StartPut, Begin, Goto, TypeOK, ClientTypeOK, BatchInFlight
  <2> QED BY <2>3, <2>4, <2>5 DEF TypeInv, TypeOK
<1>3. ASSUME NEW c \in Client, VolumePut(c) PROVE TypeInv'
  <2>1. pc[c] = "put" /\ Home[c] \in Volume
    BY <1>3, MenuAssumption DEF VolumePut
  <2>2. /\ IsBatch(Chunk(c)) /\ Len(Chunk(c)) \in Nat \ {0}
        /\ sent[c] + Len(Chunk(c)) <= Len(reqs[c])
        /\ BatchPuts => sent[c] + Len(Chunk(c)) = Len(reqs[c])
    BY <2>1, ChunkIsBatch
  <2>3. ControllerTypeOK'
    BY <1>1, <1>3 DEF VolumePut, TypeOK, ControllerTypeOK, controllerVars
  <2>4. CASE PutAccepts(Home[c], Chunk(c))
    <3>1. PutVolume(Home[c], Chunk(c))
      BY <1>3, <2>4 DEF VolumePut
    <3>2. VolumeTypeOK'
      BY <1>1, <2>1, <2>2, <3>1, PutVolumeEffect DEF TypeOK
    <3>3. /\ sent' = [sent EXCEPT ![c] = sent[c] + Len(Chunk(c))]
          /\ pc' = [pc EXCEPT ![c] = IF sent'[c] = Len(reqs[c]) THEN "notify" ELSE "put"]
          /\ outcome' = [outcome EXCEPT ![c] = "none"]
          /\ UNCHANGED <<reqs, call, fetch, parts, branch>>
      BY <1>3, <2>4 DEF VolumePut, Goto
    <3>4. ClientTypeOK'
      BY <1>1, <2>2, <3>3 DEF TypeOK, ClientTypeOK, Outcomes
    <3>5. reqs[c] \in Seq(Request) /\ sent \in [Client -> Nat]
      BY <1>1 DEF TypeOK, ClientTypeOK
    <3>6. sent'[c] <= Len(reqs[c]) /\ Len(reqs[c]) \in Nat /\ sent'[c] \in Nat
          /\ sent'[c] > 0 /\ (BatchPuts => sent'[c] = Len(reqs[c]))
      BY <2>2, <3>3, <3>5
    <3>7. BatchInFlight'
      BY <1>1, <2>1, <3>3, <3>6 DEF TypeOK, ClientTypeOK, BatchInFlight
    <3> QED BY <2>3, <3>2, <3>4, <3>7 DEF TypeInv, TypeOK
  <2>5. CASE ~PutAccepts(Home[c], Chunk(c))
    <3>1. VolumeTypeOK'
      BY <1>1, <1>3, <2>5 DEF VolumePut, TypeOK, VolumeTypeOK
    <3>2. ClientTypeOK'
      <4>1. <<>> \in Seq(Request)
        BY EmptySeq
      <4>2. /\ pc' = [pc EXCEPT ![c] = "idle"]
            /\ outcome' = [outcome EXCEPT ![c] = "AssertionError"]
            /\ reqs' = [reqs EXCEPT ![c] = <<>>]
            /\ sent' = [sent EXCEPT ![c] = 0]
            /\ UNCHANGED <<call, fetch, parts, branch>>
        BY <1>3, <2>5 DEF VolumePut, Return, DropBatch
      <4>3. reqs' \in [Client -> Seq(Request)] /\ sent' \in [Client -> Nat]
        BY <1>1, <4>1, <4>2 DEF TypeOK, ClientTypeOK
      <4> QED BY <1>1, <4>2, <4>3 DEF TypeOK, ClientTypeOK, Outcomes
    <3>3. BatchInFlight'
      BY <1>1, <1>3, <2>5
      DEF VolumePut, Return, DropBatch, TypeOK, ClientTypeOK, BatchInFlight
    <3> QED BY <2>3, <3>1, <3>2, <3>3 DEF TypeInv, TypeOK
  <2> QED BY <2>4, <2>5
<1>4. ASSUME NEW c \in Client, NotifyPut(c) PROVE TypeInv'
  <2>1. IsBatch(reqs[c]) /\ Home[c] \in Volume
    BY <1>1, <1>4, MenuAssumption DEF NotifyPut, BatchInFlight
  <2>2. ControllerTypeOK'
    BY <1>1, <1>4, <2>1, NotifyPutEffect DEF NotifyPut, TypeOK
  <2>3. VolumeTypeOK'
    BY <1>1, <1>4 DEF NotifyPut, TypeOK, VolumeTypeOK
  <2>4. ClientTypeOK'
    BY <1>1, <1>4, EmptySeq
    DEF NotifyPut, Return, DropBatch, TypeOK, ClientTypeOK, Outcomes
  <2>5. BatchInFlight'
    BY <1>1, <1>4
    DEF NotifyPut, Return, DropBatch, TypeOK, ClientTypeOK, BatchInFlight
  <2> QED BY <2>2, <2>3, <2>4, <2>5 DEF TypeInv, TypeOK
<1>5. ASSUME NEW c \in Client, NEW wants \in GetMenu, StartGet(c, wants)
      PROVE  TypeInv'
  <2>1. wants \in Wants
    BY MenuAssumption
  <2>2. FetchPlan(wants) \in [Volume -> SUBSET SubRequest]
    BY <2>1, FetchPlanType
  <2>3. DOMAIN wants \in SUBSET Key
    BY <2>1 DEF Wants
  <2>4. ControllerTypeOK' /\ VolumeTypeOK'
    BY <1>1, <1>5 DEF StartGet, TypeOK, ControllerTypeOK, VolumeTypeOK, controllerVars
  <2>5. \E to \in {"idle", "fetch"}, result \in Outcomes :
          /\ pc' = [pc EXCEPT ![c] = to]
          /\ outcome' = [outcome EXCEPT ![c] = result]
    BY <1>5 DEF StartGet, Return, Goto, Outcomes
  <2>6. /\ call' = [call EXCEPT ![c] = [op |-> "get", keys |-> DOMAIN wants, wants |-> wants]]
        /\ parts' = [parts EXCEPT ![c] = {}]
        /\ UNCHANGED <<reqs, sent, branch>>
        /\ pc[c] = "idle"
    BY <1>5 DEF StartGet, Begin
  <2>7. fetch' = fetch \/ fetch' = [fetch EXCEPT ![c] = FetchPlan(wants)]
    BY <1>5 DEF StartGet
  <2>8. ClientTypeOK'
    <3>1. [op |-> "get", keys |-> DOMAIN wants, wants |-> wants]
            \in [op : Ops, keys : SUBSET Key, wants : Wants]
      BY <2>1, <2>3 DEF Ops
    <3>2. fetch' \in [Client -> [Volume -> SUBSET SubRequest]]
      BY <1>1, <2>2, <2>7 DEF TypeOK, ClientTypeOK
    <3>3. call' \in [Client -> [op : Ops, keys : SUBSET Key, wants : Wants]]
      BY <1>1, <2>6, <3>1 DEF TypeOK, ClientTypeOK
    <3>4. parts' \in [Client -> SUBSET Part]
      BY <1>1, <2>6 DEF TypeOK, ClientTypeOK
    <3> QED BY <1>1, <2>5, <2>6, <3>2, <3>3, <3>4 DEF TypeOK, ClientTypeOK
  <2>9. BatchInFlight'
    BY <1>1, <2>5, <2>6 DEF TypeOK, ClientTypeOK, BatchInFlight
  <2> QED BY <2>4, <2>8, <2>9 DEF TypeInv, TypeOK
<1>6. ASSUME NEW c \in Client, NEW v \in Volume, NEW subs \in SUBSET fetch[c][v],
             VolumeGet(c, v, subs)
      PROVE  TypeInv'
  <2>1. subs \subseteq SubRequest /\ fetch[c] \in [Volume -> SUBSET SubRequest]
    BY <1>1 DEF TypeOK, ClientTypeOK
  <2>2. ControllerTypeOK' /\ VolumeTypeOK'
    BY <1>1, <1>6 DEF VolumeGet, TypeOK, ControllerTypeOK, VolumeTypeOK, controllerVars
  <2>3. \E to \in {"idle", "fetch"}, result \in Outcomes :
          /\ pc' = [pc EXCEPT ![c] = to]
          /\ outcome' = [outcome EXCEPT ![c] = result]
    <3>1. \A sub \in subs : GetOutcome(v, sub) \in Outcomes
      BY <1>1, <2>1, GetOutcomeType DEF TypeOK
    <3>2. CASE \A sub \in subs : GetOutcome(v, sub) = "ok"
      BY <1>6, <3>2 DEF VolumeGet, Return, Goto, Assembled, Outcomes
    <3>3. CASE ~\A sub \in subs : GetOutcome(v, sub) = "ok"
      BY <1>6, <3>1, <3>3 DEF VolumeGet, Return
    <3> QED BY <3>2, <3>3
  <2>4. pc[c] = "fetch" /\ UNCHANGED <<call, reqs, sent, branch>>
    BY <1>6 DEF VolumeGet
  <2>5. \E rest \in [Volume -> SUBSET SubRequest] : fetch' = [fetch EXCEPT ![c] = rest]
    <3>1. [fetch[c] EXCEPT ![v] = @ \ subs] \in [Volume -> SUBSET SubRequest]
      BY <2>1
    <3>2. NoFetch \in [Volume -> SUBSET SubRequest]
      BY DEF NoFetch
    <3> QED BY <1>6, <3>1, <3>2 DEF VolumeGet
  <2>6. \E got \in SUBSET Part : parts' = [parts EXCEPT ![c] = got]
    <3>1. CASE \A sub \in subs : GetOutcome(v, sub) = "ok"
      <4>1. { GetPart(v, sub) : sub \in subs } \subseteq Part
        BY <1>1, <2>1, <3>1, GetPartType DEF TypeOK
      <4>2. parts[c] \in SUBSET Part
        BY <1>1 DEF TypeOK, ClientTypeOK
      <4>3. parts' = [parts EXCEPT ![c] =
                        parts[c] \cup { GetPart(v, sub) : sub \in subs }]
        BY <1>6, <3>1 DEF VolumeGet
      <4> QED BY <4>1, <4>2, <4>3
    <3>2. CASE ~\A sub \in subs : GetOutcome(v, sub) = "ok"
      BY <1>6, <3>2 DEF VolumeGet
    <3> QED BY <3>1, <3>2
  <2>7. ClientTypeOK'
    BY <1>1, <2>3, <2>4, <2>5, <2>6 DEF TypeOK, ClientTypeOK
  <2>8. BatchInFlight'
    BY <1>1, <2>3, <2>4 DEF TypeOK, ClientTypeOK, BatchInFlight
  <2> QED BY <2>2, <2>7, <2>8 DEF TypeInv, TypeOK
<1>7. ASSUME NEW c \in Client, NEW k \in DeleteMenu, StartDelete(c, k)
      PROVE  TypeInv'
  <2>1. k \in Key
    BY MenuAssumption
  <2>2. ControllerTypeOK' /\ VolumeTypeOK'
    BY <1>1, <1>7 DEF StartDelete, TypeOK, ControllerTypeOK, VolumeTypeOK, controllerVars
  <2>3. \E to \in {"idle", "delete"}, result \in Outcomes :
          /\ pc' = [pc EXCEPT ![c] = to]
          /\ outcome' = [outcome EXCEPT ![c] = result]
    <3>1. Locate(k, TRUE) \in Outcomes /\ "none" \in Outcomes
      BY LocateOutcome DEF Outcomes
    <3> QED BY <1>7, <3>1 DEF StartDelete, Return, Goto
  <2>4. /\ call' = [call EXCEPT ![c] = [op |-> "delete", keys |-> {k}, wants |-> <<>>]]
        /\ parts' = [parts EXCEPT ![c] = {}]
        /\ UNCHANGED <<reqs, sent, fetch>>
        /\ pc[c] = "idle"
    BY <1>7 DEF StartDelete, Begin
  <2>5. \E new \in [Volume -> Branch] : branch' = [branch EXCEPT ![c] = new]
    <3> DEFINE new == [v \in Volume |->
          IF Indexed(k, v) THEN [stage |-> "notify_delete", keys |-> {k}] ELSE NoBranch]
    <3>1. new \in [Volume -> Branch]
      BY <2>1 DEF NoBranch, Branch, BranchPoints
    <3>2. branch[c] \in [Volume -> Branch] /\ branch = [branch EXCEPT ![c] = branch[c]]
      BY <1>1 DEF TypeOK, ClientTypeOK
    <3> QED BY <1>7, <3>1, <3>2 DEF StartDelete
  <2>6. ClientTypeOK'
    BY <1>1, <2>1, <2>3, <2>4, <2>5, NoWantsType DEF TypeOK, ClientTypeOK, Ops
  <2>7. BatchInFlight'
    BY <1>1, <2>3, <2>4 DEF TypeOK, ClientTypeOK, BatchInFlight
  <2> QED BY <2>2, <2>6, <2>7 DEF TypeInv, TypeOK
<1>8. ASSUME NEW c \in Client, NEW keys \in BatchMenu, StartDeleteBatch(c, keys)
      PROVE  TypeInv'
  <2>1. keys \in SUBSET Key
    BY MenuAssumption
  <2>2. ControllerTypeOK' /\ VolumeTypeOK'
    BY <1>1, <1>8 DEF StartDeleteBatch, TypeOK, ControllerTypeOK, VolumeTypeOK, controllerVars
  <2>3. \E to \in {"idle", "notify_batch"}, result \in Outcomes :
          /\ pc' = [pc EXCEPT ![c] = to]
          /\ outcome' = [outcome EXCEPT ![c] = result]
    BY <1>8 DEF StartDeleteBatch, Return, Goto, Outcomes
  <2>4. /\ call' = [call EXCEPT ![c] = [op |-> "delete_batch", keys |-> keys, wants |-> <<>>]]
        /\ parts' = [parts EXCEPT ![c] = {}]
        /\ UNCHANGED <<reqs, sent, fetch>>
        /\ pc[c] = "idle"
    BY <1>8 DEF StartDeleteBatch, Begin
  <2>5. \E new \in [Volume -> Branch] : branch' = [branch EXCEPT ![c] = new]
    <3> DEFINE at(v) == { k \in keys : Indexed(k, v) }
               new == [v \in Volume |->
                 IF at(v) = {} THEN NoBranch ELSE [stage |-> "located", keys |-> at(v)]]
    <3>1. \A v \in Volume : at(v) \in SUBSET Key
      BY <2>1
    <3>2. branch' = [branch EXCEPT ![c] = new]
      BY <1>8 DEF StartDeleteBatch
    <3> HIDE DEF at
    <3>3. new \in [Volume -> Branch]
      BY <3>1 DEF NoBranch, Branch
    <3> QED BY <3>2, <3>3
  <2>6. ClientTypeOK'
    BY <1>1, <2>1, <2>3, <2>4, <2>5, NoWantsType DEF TypeOK, ClientTypeOK, Ops
  <2>7. BatchInFlight'
    BY <1>1, <2>3, <2>4 DEF TypeOK, ClientTypeOK, BatchInFlight
  <2> QED BY <2>2, <2>6, <2>7 DEF TypeInv, TypeOK
<1>9. ASSUME NEW c \in Client, NEW k \in Key, Exists(c, k) PROVE TypeInv'
  <2>1. ControllerTypeOK' /\ VolumeTypeOK'
    BY <1>1, <1>9 DEF Exists, TypeOK, ControllerTypeOK, VolumeTypeOK, controllerVars
  <2>2. \E result \in Outcomes :
          /\ pc' = [pc EXCEPT ![c] = "idle"]
          /\ outcome' = [outcome EXCEPT ![c] = result]
    <3>1. Locate(k, TRUE) \in Outcomes /\ "absent" \in Outcomes
      BY LocateOutcome DEF Outcomes
    <3> QED BY <1>9, <3>1 DEF Exists, Return
  <2>3. /\ call' = [call EXCEPT ![c] = [op |-> "exists", keys |-> {k}, wants |-> <<>>]]
        /\ parts' = [parts EXCEPT ![c] = {}]
        /\ UNCHANGED <<reqs, sent, fetch, branch>>
        /\ pc[c] = "idle"
    BY <1>9 DEF Exists, Begin
  <2>4. ClientTypeOK'
    BY <1>1, <2>2, <2>3, NoWantsType DEF TypeOK, ClientTypeOK, Ops
  <2>5. BatchInFlight'
    BY <1>1, <2>2, <2>3 DEF TypeOK, ClientTypeOK, BatchInFlight
  <2> QED BY <2>1, <2>4, <2>5 DEF TypeInv, TypeOK
<1>10. ASSUME NEW c \in Client, NEW v \in Volume, NotifyDeleteFrom(c, v)
       PROVE  TypeInv'
  <2> DEFINE k == DeletedKey(c, v)
  <2>1. VolumeTypeOK' /\ UNCHANGED <<call, reqs, sent, fetch, parts>>
    BY <1>1, <1>10 DEF NotifyDeleteFrom, TypeOK, VolumeTypeOK
  <2>2. CASE NotifyDeleteSucceeds(k, v)
    <3>1. NotifyDelete(k, v) /\ UNCHANGED <<pc, outcome>>
          /\ branch' = [branch EXCEPT ![c][v].stage = "delete"]
      BY <1>10, <2>2 DEF NotifyDeleteFrom
    <3> HIDE DEF k
    <3>2. ControllerTypeOK'
      BY <1>1, <3>1 DEF NotifyDelete, NoInfo, StorageInfo, TypeOK, ControllerTypeOK
    <3>3. ClientTypeOK'
      <4>1. branch \in [Client -> [Volume -> Branch]]
        BY <1>1 DEF TypeOK, ClientTypeOK
      <4>2. [branch[c][v] EXCEPT !.stage = "delete"] \in Branch
        BY <4>1 DEF Branch, BranchPoints
      <4>3. branch' = [branch EXCEPT ![c] = [branch[c] EXCEPT ![v] =
                         [branch[c][v] EXCEPT !.stage = "delete"]]]
        BY <3>1
      <4>4. branch' \in [Client -> [Volume -> Branch]]
        BY <4>1, <4>2, <4>3
      <4> QED BY <1>1, <2>1, <3>1, <4>4 DEF TypeOK, ClientTypeOK
    <3>4. BatchInFlight'
      BY <1>1, <2>1, <3>1 DEF BatchInFlight
    <3> QED BY <2>1, <3>2, <3>3, <3>4 DEF TypeInv, TypeOK
  <2>3. CASE ~NotifyDeleteSucceeds(k, v)
    <3>1. BranchRaises(c, v, "KeyError") /\ UNCHANGED controllerVars
      BY <1>10, <2>3 DEF NotifyDeleteFrom
    <3>2. ControllerTypeOK'
      BY <1>1, <3>1 DEF TypeOK, ControllerTypeOK, controllerVars
    <3>3. ClientTypeOK' /\ BatchInFlight'
      BY <2>1, <3>1, BranchEndsType DEF Outcomes
    <3> QED BY <2>1, <3>2, <3>3 DEF TypeInv, TypeOK
  <2> QED BY <2>2, <2>3
<1>11. ASSUME NEW c \in Client, NEW v \in Volume, VolumeDelete(c, v)
       PROVE  TypeInv'
  <2>1. ControllerTypeOK' /\ UNCHANGED <<call, reqs, sent, fetch, parts>>
    BY <1>1, <1>11 DEF VolumeDelete, TypeOK, ControllerTypeOK, controllerVars
  <2>2. VolumeTypeOK'
    BY <1>1, <1>11, NoEntryType DEF VolumeDelete, DeleteKeys, TypeOK, VolumeTypeOK
  <2>3. ClientTypeOK' /\ BatchInFlight'
    <3>1. BranchEnds(c, v) \/ \E error \in Outcomes : BranchRaises(c, v, error)
      BY <1>11 DEF VolumeDelete, Outcomes
    <3> QED BY <2>1, <3>1, BranchEndsType
  <2> QED BY <2>1, <2>2, <2>3 DEF TypeInv, TypeOK
<1>12. ASSUME NEW c \in Client, NotifyDeleteKeys(c) PROVE TypeInv'
  <2>1. ControllerTypeOK'
    BY <1>1, <1>12
    DEF NotifyDeleteKeys, NotifyDeleteBatch, NoInfo, StorageInfo, TypeOK, ControllerTypeOK
  <2>2. VolumeTypeOK'
    BY <1>1, <1>12 DEF NotifyDeleteKeys, TypeOK, VolumeTypeOK
  <2>3. ClientTypeOK'
    <3> DEFINE new == [v \in Volume |->
          IF branch[c][v] = NoBranch THEN NoBranch
          ELSE [branch[c][v] EXCEPT !.stage = "delete_batch"]]
    <3>1. branch[c] \in [Volume -> Branch]
      BY <1>1 DEF TypeOK, ClientTypeOK
    <3>2. new \in [Volume -> Branch]
      BY <3>1 DEF NoBranch, Branch, BranchPoints
    <3>3. branch' = [branch EXCEPT ![c] = new]
      BY <1>12 DEF NotifyDeleteKeys
    <3> HIDE DEF new
    <3> QED BY <1>1, <1>12, <3>2, <3>3
            DEF NotifyDeleteKeys, Goto, TypeOK, ClientTypeOK, Outcomes
  <2>4. BatchInFlight'
    BY <1>1, <1>12
    DEF NotifyDeleteKeys, Goto, TypeOK, ClientTypeOK, BatchInFlight
  <2> QED BY <2>1, <2>2, <2>3, <2>4 DEF TypeInv, TypeOK
<1>13. ASSUME NEW c \in Client, NEW v \in Volume, VolumeDeleteBatch(c, v)
       PROVE  TypeInv'
  <2>1. ControllerTypeOK' /\ UNCHANGED <<call, reqs, sent, fetch, parts>>
    BY <1>1, <1>13 DEF VolumeDeleteBatch, TypeOK, ControllerTypeOK, controllerVars
  <2>2. VolumeTypeOK'
    BY <1>1, <1>13, NoEntryType DEF VolumeDeleteBatch, DeleteKeys, TypeOK, VolumeTypeOK
  <2>3. ClientTypeOK' /\ BatchInFlight'
    BY <1>13, <2>1, BranchEndsType DEF VolumeDeleteBatch
  <2> QED BY <2>1, <2>2, <2>3 DEF TypeInv, TypeOK
<1>14. ASSUME NEW c \in Client, CallFails(c) PROVE TypeInv'
  <2>1. ControllerTypeOK' /\ VolumeTypeOK'
    BY <1>1, <1>14 DEF CallFails, TypeOK, ControllerTypeOK, VolumeTypeOK, controllerVars
  <2>2. ClientTypeOK'
    BY <1>1, <1>14, EmptySeq
    DEF CallFails, Return, DropBatch, NoFetch, NoBranches, NoBranch, Branch,
        TypeOK, ClientTypeOK, Outcomes
  <2>3. BatchInFlight'
    BY <1>1, <1>14
    DEF CallFails, Return, DropBatch, TypeOK, ClientTypeOK, BatchInFlight
  <2> QED BY <2>1, <2>2, <2>3 DEF TypeInv, TypeOK
<1>15. ASSUME NEW c \in Client, NEW v \in Volume, BranchFails(c, v) PROVE TypeInv'
  <2>1. ControllerTypeOK' /\ VolumeTypeOK'
    BY <1>1, <1>15 DEF BranchFails, TypeOK, ControllerTypeOK, VolumeTypeOK, controllerVars
  <2>2. ClientTypeOK' /\ BatchInFlight'
    BY <1>15, BranchEndsType DEF BranchFails, Outcomes
  <2> QED BY <2>1, <2>2 DEF TypeInv, TypeOK
<1>16. ASSUME UNCHANGED vars PROVE TypeInv'
  BY <1>1, <1>16
  DEF vars, clientVars, controllerVars, TypeInv, TypeOK, ControllerTypeOK,
      VolumeTypeOK, ClientTypeOK, BatchInFlight
<1> QED
  BY <1>2, <1>3, <1>4, <1>5, <1>6, <1>7, <1>8, <1>9, <1>10, <1>11, <1>12,
     <1>13, <1>14, <1>15, <1>16 DEF Next, Work

(***************************************************************************)
(* Type correctness, whatever the callers do and whatever fails.           *)
(***************************************************************************)
THEOREM TypeCorrect == Spec => []TypeOK
<1>1. TypeInv => TypeOK
  BY DEF TypeInv
<1> QED BY <1>1, InitType, NextType, PTL DEF Spec

-----------------------------------------------------------------------------
(* The index never dangles, as long as callers keep puts and deletes apart *)

(* What a put in progress has handed to its volume is still there. *)
PutIsStored ==
  \A c \in Client :
    pc[c] \in {"put", "notify"} =>
      \A i \in 1..sent[c] :
        Backs(store[Home[c]][reqs[c][i].key], InfoOf(reqs[c][i]))

(* The callers' promise, as the store sees it. *)
PutsApart ==
  \A c, d \in Client : \A k \in Key : Putting(c, k) => ~DeleteRunning(d, k)

(* A coroutine that is about to delete has made the controller forget. *)
Forgotten(c, v) == branch[c][v].stage \in {"delete", "delete_batch"}
ForgottenFirst ==
  \A c \in Client : \A v \in Volume :
    Forgotten(c, v) => \A k \in branch[c][v].keys : ~Indexed(k, v)

(* A coroutine of delete has one key. *)
OneKeyDeletes ==
  \A c \in Client : \A v \in Volume :
    branch[c][v].stage \in {"notify_delete", "delete"} =>
      \E k \in Key : branch[c][v].keys = {k}

IndexInv ==
  /\ TypeInv
  /\ IndexedIsStored
  /\ PutIsStored
  /\ PutsApart
  /\ ForgottenFirst
  /\ OneKeyDeletes

-----------------------------------------------------------------------------
(* Steps that add nothing: reads, deletes, failures *)

(* The index loses entries at most. *)
IndexShrinks ==
  \A k \in Key : \A v \in Volume :
    index'[k][v] = index[k][v] \/ index'[k][v] = NoInfo

(* A volume loses at most what the controller was made to forget. *)
OnlyForgottenDeleted ==
  \A v \in Volume : \A k \in Key :
    store'[v][k] = store[v][k]
    \/ \E c \in Client : Forgotten(c, v) /\ k \in branch[c][v].keys

(* No put begins or advances. *)
PutsKept ==
  \A c \in Client :
    pc'[c] \in {"put", "notify"} =>
      pc'[c] = pc[c] /\ reqs'[c] = reqs[c] /\ sent'[c] = sent[c]

(* No delete begins. *)
DeletesShrink ==
  \A c \in Client : \A v \in Volume : branch'[c][v].keys \subseteq branch[c][v].keys

(* A delete coroutine stays as it is, or ends. *)
BranchesEnd ==
  \A c \in Client : \A v \in Volume :
    branch'[c][v] = branch[c][v] \/ branch'[c][v] = NoBranch

LEMMA BackedInfo ==
  ASSUME TypeInv, NEW c \in Client, pc[c] \in {"put", "notify"},
         NEW i \in 1..sent[c]
  PROVE  /\ reqs[c][i] \in Request /\ reqs[c][i].key \in Key
         /\ Putting(c, reqs[c][i].key)
<1>1. IsBatch(reqs[c]) /\ sent[c] \in Nat /\ sent[c] <= Len(reqs[c])
  BY BatchType DEF TypeInv, BatchInFlight, TypeOK, ClientTypeOK
<1>2. reqs[c] \in Seq(Request) /\ Len(reqs[c]) \in Nat
  BY <1>1, BatchType
<1>3. i \in DOMAIN reqs[c]
  BY <1>1, <1>2
<1> QED BY <1>1, <1>3, ToRequest DEF Putting

LEMMA ShrinkingStep ==
  ASSUME IndexInv, IndexShrinks, OnlyForgottenDeleted, PutsKept, DeletesShrink
  PROVE  IndexedIsStored' /\ PutIsStored' /\ PutsApart'
<1>1. IndexedIsStored'
  <2> SUFFICES ASSUME NEW k \in Key, NEW v \in Volume, Indexed(k, v)'
               PROVE  Backs(store'[v][k], index'[k][v])
    BY DEF IndexedIsStored
  <2>1. index'[k][v] = index[k][v] /\ Indexed(k, v)
    BY DEF IndexShrinks, Indexed
  <2>2. Backs(store[v][k], index[k][v])
    BY <2>1 DEF IndexInv, IndexedIsStored
  <2>3. store'[v][k] = store[v][k]
    BY <2>1 DEF OnlyForgottenDeleted, IndexInv, ForgottenFirst
  <2> QED BY <2>1, <2>2, <2>3
<1>2. PutIsStored'
  <2> SUFFICES ASSUME NEW c \in Client, pc'[c] \in {"put", "notify"},
                      NEW i \in 1..sent'[c]
               PROVE  Backs(store'[Home[c]][reqs'[c][i].key], InfoOf(reqs'[c][i]))
    BY DEF PutIsStored
  <2>1. pc'[c] = pc[c] /\ reqs'[c] = reqs[c] /\ sent'[c] = sent[c]
    BY DEF PutsKept
  <2> DEFINE k == reqs[c][i].key
  <2>2. Backs(store[Home[c]][k], InfoOf(reqs[c][i]))
    BY <2>1 DEF IndexInv, PutIsStored
  <2>3. k \in Key /\ Putting(c, k)
    BY <2>1, BackedInfo DEF IndexInv
  <2>4. Home[c] \in Volume
    BY MenuAssumption
  <2>5. \A d \in Client : k \notin branch[d][Home[c]].keys
    BY <2>3, <2>4 DEF IndexInv, PutsApart, DeleteRunning
  <2>6. store'[Home[c]][k] = store[Home[c]][k]
    BY <2>3, <2>4, <2>5 DEF OnlyForgottenDeleted
  <2> QED BY <2>1, <2>2, <2>6
<1>3. PutsApart'
  <2> SUFFICES ASSUME NEW c \in Client, NEW d \in Client, NEW k \in Key,
                      Putting(c, k)', DeleteRunning(d, k)'
               PROVE  FALSE
    BY DEF PutsApart
  <2>1. Putting(c, k)
    BY DEF Putting, PutsKept, KeysOf
  <2>2. DeleteRunning(d, k)
    BY DEF DeleteRunning, DeletesShrink
  <2> QED BY <2>1, <2>2 DEF IndexInv, PutsApart
<1> QED BY <1>1, <1>2, <1>3

LEMMA EndingStep ==
  ASSUME IndexInv, IndexShrinks, OnlyForgottenDeleted, PutsKept, BranchesEnd,
         TypeInv'
  PROVE  IndexInv'
<1>1. DeletesShrink
  BY DEF BranchesEnd, DeletesShrink, NoBranch
<1>2. ForgottenFirst'
  <2> SUFFICES ASSUME NEW c \in Client, NEW v \in Volume, Forgotten(c, v)',
                      NEW k \in branch'[c][v].keys
               PROVE  ~Indexed(k, v)'
    BY DEF ForgottenFirst
  <2>1. branch'[c][v] = branch[c][v]
    BY DEF BranchesEnd, NoBranch, Forgotten
  <2>2. ~Indexed(k, v)
    BY <2>1 DEF IndexInv, ForgottenFirst, Forgotten
  <2>3. k \in Key
    BY <2>1 DEF IndexInv, TypeInv, TypeOK, ClientTypeOK, Branch
  <2> QED BY <2>2, <2>3 DEF IndexShrinks, Indexed
<1>3. OneKeyDeletes'
  BY DEF BranchesEnd, NoBranch, IndexInv, OneKeyDeletes
<1> QED BY <1>1, <1>2, <1>3, ShrinkingStep DEF IndexInv

-----------------------------------------------------------------------------
(* The invariant *)

LEMMA InitIndex == Init => IndexInv
<1> SUFFICES ASSUME Init PROVE IndexInv
  OBVIOUS
<1>1. TypeInv
  BY InitType
<1>2. IndexedIsStored
  BY DEF Init, ControllerInit, IndexedIsStored, Indexed
<1>3. PutIsStored /\ PutsApart
  BY DEF Init, PutIsStored, PutsApart, Putting
<1>4. \A c \in Client : \A v \in Volume : branch[c][v] = NoBranch
  BY DEF Init, NoBranches
<1>5. ForgottenFirst /\ OneKeyDeletes
  BY <1>4 DEF NoBranch, ForgottenFirst, Forgotten, OneKeyDeletes
<1> QED BY <1>1, <1>2, <1>3, <1>5 DEF IndexInv

(* A put of a key begins: no delete of the key is running. *)
LEMMA StartPutIndex ==
  ASSUME Discipline = "drained", IndexInv, TypeInv',
         NEW c \in Client, NEW rs \in PutMenu[c], StartPut(c, rs)
  PROVE  IndexInv'
<1>1. /\ pc' = [pc EXCEPT ![c] = "put"]
      /\ reqs' = [reqs EXCEPT ![c] = rs]
      /\ sent' = [sent EXCEPT ![c] = 0]
      /\ UNCHANGED <<index, store, branch>>
  BY DEF StartPut, Goto, controllerVars
<1>2. DOMAIN pc = Client /\ DOMAIN reqs = Client /\ DOMAIN sent = Client
  BY DEF IndexInv, TypeInv, TypeOK, ClientTypeOK
<1>3. IndexedIsStored' /\ ForgottenFirst' /\ OneKeyDeletes'
  BY <1>1 DEF IndexInv, IndexedIsStored, Indexed, ForgottenFirst, Forgotten, OneKeyDeletes
<1>4. PutIsStored'
  <2> SUFFICES ASSUME NEW d \in Client, pc'[d] \in {"put", "notify"},
                      NEW i \in 1..sent'[d]
               PROVE  Backs(store'[Home[d]][reqs'[d][i].key], InfoOf(reqs'[d][i]))
    BY DEF PutIsStored
  <2>1. d # c
    BY <1>1, <1>2
  <2>2. pc'[d] = pc[d] /\ reqs'[d] = reqs[d] /\ sent'[d] = sent[d]
    BY <1>1, <1>2, <2>1
  <2> QED BY <1>1, <2>2 DEF IndexInv, PutIsStored
<1>5. PutsApart'
  <2> SUFFICES ASSUME NEW d \in Client, NEW e \in Client, NEW k \in Key, Putting(d, k)'
               PROVE  ~DeleteRunning(e, k)'
    BY DEF PutsApart
  <2>1. CASE d = c
    <3>1. k \in KeysOf(rs)
      BY <1>1, <1>2, <2>1 DEF Putting
    <3>2. ~DeleteRunning(e, k)
      BY <3>1 DEF StartPut, MayPut
    <3> QED BY <1>1, <3>2 DEF DeleteRunning
  <2>2. CASE d # c
    <3>1. Putting(d, k)
      BY <1>1, <1>2, <2>2 DEF Putting
    <3> QED BY <1>1, <3>1 DEF IndexInv, PutsApart, DeleteRunning
  <2> QED BY <2>1, <2>2
<1> QED BY <1>3, <1>4, <1>5 DEF IndexInv

(* A volume that accepts a chunk goes on backing what it backed before. *)
LEMMA VolumePutKeepsBacking ==
  ASSUME IndexInv, NEW c \in Client, pc[c] = "put",
         PutAccepts(Home[c], Chunk(c)), PutVolume(Home[c], Chunk(c)),
         NEW v \in Volume, NEW k \in Key, NEW info \in StorageInfo,
         Backs(store[v][k], info)
  PROVE  Backs(store'[v][k], info)
<1>1. VolumeTypeOK /\ Home[c] \in Volume
  BY MenuAssumption DEF IndexInv, TypeInv, TypeOK
<1>2. IsBatch(Chunk(c))
  BY ChunkIsBatch DEF IndexInv
<1>3. CASE v = Home[c] /\ k \in KeysOf(Chunk(c))
  <2>1. PICK i \in DOMAIN Chunk(c) : Chunk(c)[i].key = k
    BY <1>3 DEF KeysOf
  <2>2. Chunk(c)[i] \in Request
    BY <1>2, <2>1, ToRequest
  <2>3. store'[v][k] = StoreEntry(store[v][k], Chunk(c)[i])
    BY <1>1, <1>2, <1>3, <2>1, PutVolumeEffect
  <2>4. ExtractExistingAccepts(store[v][k], Chunk(c)[i])
    BY <1>3, <2>1 DEF PutAccepts
  <2>5. store[v][k] \in Entry
    BY <1>1 DEF VolumeTypeOK
  <2> QED BY <2>2, <2>3, <2>4, <2>5, PutKeepsBacking
<1>4. CASE ~(v = Home[c] /\ k \in KeysOf(Chunk(c)))
  <2>1. store'[v][k] = store[v][k]
    BY <1>1, <1>2, <1>4, PutVolumeEffect
  <2> QED BY <2>1
<1> QED BY <1>3, <1>4

LEMMA InfoOfType ==
  ASSUME NEW r \in Request
  PROVE  InfoOf(r) \in StorageInfo
BY DEF InfoOf, StorageInfo, Request

(* The requests that the volume has just taken are stored. *)
LEMMA VolumePutIndex ==
  ASSUME IndexInv, TypeInv', NEW c \in Client, VolumePut(c),
         PutAccepts(Home[c], Chunk(c))
  PROVE  IndexInv'
<1>1. /\ pc[c] = "put"
      /\ PutVolume(Home[c], Chunk(c))
      /\ sent' = [sent EXCEPT ![c] = sent[c] + Len(Chunk(c))]
      /\ UNCHANGED <<index, reqs, branch>>
      /\ \E to \in {"put", "notify"} : pc' = [pc EXCEPT ![c] = to]
  BY DEF VolumePut, Goto, controllerVars
<1>2. /\ VolumeTypeOK /\ Home[c] \in Volume
      /\ DOMAIN pc = Client /\ sent \in [Client -> Nat]
      /\ index \in [Key -> [Volume -> StorageInfo \cup {NoInfo}]]
  BY MenuAssumption DEF IndexInv, TypeInv, TypeOK, ClientTypeOK, ControllerTypeOK
<1>3. /\ IsBatch(Chunk(c)) /\ Len(Chunk(c)) \in Nat
      /\ DOMAIN Chunk(c) = 1..Len(Chunk(c))
      /\ \A i \in 1..Len(Chunk(c)) : Chunk(c)[i] = reqs[c][sent[c] + i]
  BY <1>1, ChunkIsBatch DEF IndexInv
<1>4. IndexedIsStored'
  <2> SUFFICES ASSUME NEW k \in Key, NEW v \in Volume, Indexed(k, v)
               PROVE  Backs(store'[v][k], index[k][v])
    BY <1>1 DEF IndexedIsStored, Indexed
  <2>1. Backs(store[v][k], index[k][v])
    BY DEF IndexInv, IndexedIsStored
  <2>2. index[k][v] \in StorageInfo
    BY <1>2 DEF Indexed
  <2> QED BY <1>1, <2>1, <2>2, VolumePutKeepsBacking
<1>5. PutIsStored'
  <2> SUFFICES ASSUME NEW d \in Client, pc'[d] \in {"put", "notify"},
                      NEW i \in 1..sent'[d]
               PROVE  Backs(store'[Home[d]][reqs[d][i].key], InfoOf(reqs[d][i]))
    BY <1>1 DEF PutIsStored
  <2>1. pc[d] \in {"put", "notify"}
    BY <1>1, <1>2
  <2>2. CASE i \in 1..sent[d]
    <3>1. reqs[d][i] \in Request /\ reqs[d][i].key \in Key
      BY <2>1, <2>2, BackedInfo DEF IndexInv
    <3>2. Backs(store[Home[d]][reqs[d][i].key], InfoOf(reqs[d][i]))
      BY <2>1, <2>2 DEF IndexInv, PutIsStored
    <3>3. Home[d] \in Volume
      BY MenuAssumption
    <3> QED BY <1>1, <3>1, <3>2, <3>3, InfoOfType, VolumePutKeepsBacking
  <2>3. CASE i \notin 1..sent[d]
    <3>1. d = c
      BY <1>1, <1>2, <2>3
    <3>2. sent'[c] = sent[c] + Len(Chunk(c)) /\ sent[c] \in Nat
      BY <1>1, <1>2
    <3> DEFINE j == i - sent[c]
    <3>3. j \in 1..Len(Chunk(c)) /\ sent[c] + j = i
      BY <1>3, <2>3, <3>1, <3>2
    <3>4. Chunk(c)[j] = reqs[c][i] /\ j \in DOMAIN Chunk(c)
      BY <1>3, <3>3
    <3> DEFINE r == Chunk(c)[j]
    <3>5. r \in Request /\ r.key \in Key
      BY <1>3, <3>4, ToRequest
    <3>6. store'[Home[c]][r.key] = StoreEntry(store[Home[c]][r.key], r)
      BY <1>1, <1>2, <1>3, <3>4, PutVolumeEffect
    <3>7. store[Home[c]][r.key] \in Entry
      BY <1>2, <3>5 DEF VolumeTypeOK
    <3> HIDE DEF r
    <3>8. Backs(store'[Home[c]][r.key], InfoOf(r))
      BY <3>5, <3>6, <3>7, PutBacksItsInfo
    <3> QED BY <3>1, <3>4, <3>8 DEF r
  <2> QED BY <2>2, <2>3
<1>6. PutsApart'
  <2> SUFFICES ASSUME NEW d \in Client, NEW e \in Client, NEW k \in Key, Putting(d, k)'
               PROVE  ~DeleteRunning(e, k)'
    BY DEF PutsApart
  <2>1. Putting(d, k)
    BY <1>1, <1>2 DEF Putting
  <2> QED BY <1>1, <2>1 DEF IndexInv, PutsApart, DeleteRunning
<1>7. ForgottenFirst' /\ OneKeyDeletes'
  BY <1>1 DEF IndexInv, Indexed, ForgottenFirst, Forgotten, OneKeyDeletes
<1> QED BY <1>4, <1>5, <1>6, <1>7 DEF IndexInv

(* The controller learns of what is stored. *)
LEMMA NotifyPutIndex ==
  ASSUME IndexInv, TypeInv', NEW c \in Client, NotifyPut(c)
  PROVE  IndexInv'
<1>1. /\ pc[c] = "notify"
      /\ NotifyPutBatch(reqs[c], Home[c])
      /\ pc' = [pc EXCEPT ![c] = "idle"]
      /\ reqs' = [reqs EXCEPT ![c] = <<>>]
      /\ sent' = [sent EXCEPT ![c] = 0]
      /\ UNCHANGED <<store, branch>>
  BY DEF NotifyPut, Return, DropBatch
<1>2. /\ ControllerTypeOK /\ Home[c] \in Volume
      /\ DOMAIN pc = Client /\ DOMAIN reqs = Client /\ DOMAIN sent = Client
      /\ index \in [Key -> [Volume -> StorageInfo \cup {NoInfo}]]
  BY MenuAssumption DEF IndexInv, TypeInv, TypeOK, ClientTypeOK, ControllerTypeOK
<1>3. IsBatch(reqs[c]) /\ sent[c] = Len(reqs[c])
  BY <1>1 DEF IndexInv, TypeInv, BatchInFlight
<1>4. DOMAIN reqs[c] = 1..sent[c]
  <2>1. reqs[c] \in Seq(Request)
    BY <1>3, BatchType
  <2> QED BY <1>3, <2>1
<1>5. \A k \in Key : \A v \in Volume :
        \/ index'[k][v] = index[k][v]
        \/ /\ v = Home[c]
           /\ \E i \in DOMAIN reqs[c] :
                /\ reqs[c][i].key = k
                /\ NotifyAccepts(reqs[c][i], v)
                /\ index'[k][v] = Merge(index[k][v], reqs[c][i])
  BY <1>1, <1>2, <1>3, NotifyPutEffect
<1>6. IndexedIsStored'
  <2> SUFFICES ASSUME NEW k \in Key, NEW v \in Volume, Indexed(k, v)'
               PROVE  Backs(store[v][k], index'[k][v])
    BY <1>1 DEF IndexedIsStored
  <2>1. CASE index'[k][v] = index[k][v]
    BY <2>1 DEF IndexInv, IndexedIsStored, Indexed
  <2>2. CASE index'[k][v] # index[k][v]
    <3>1. PICK i \in DOMAIN reqs[c] :
            /\ v = Home[c] /\ reqs[c][i].key = k
            /\ NotifyAccepts(reqs[c][i], v)
            /\ index'[k][v] = Merge(index[k][v], reqs[c][i])
      BY <1>5, <2>2
    <3> DEFINE r == reqs[c][i]
    <3>2. r \in Request
      BY <1>3, ToRequest
    <3>3. Backs(store[v][k], InfoOf(r))
      BY <1>1, <1>4, <3>1 DEF IndexInv, PutIsStored
    <3>4. index[k][v] \in StorageInfo \cup {NoInfo}
      BY <1>2
    <3>5. \/ index[k][v] = NoInfo
          \/ index[k][v].object_type = r.object_type /\ Backs(store[v][k], index[k][v])
      BY <3>1 DEF NotifyAccepts, Indexed, IndexInv, IndexedIsStored
    <3> HIDE DEF r
    <3>6. Backs(store[v][k], Merge(index[k][v], r))
      BY <3>2, <3>3, <3>4, <3>5, MergeIsBacked
    <3> QED BY <3>1, <3>6 DEF r
  <2> QED BY <2>1, <2>2
<1>7. PutIsStored' /\ PutsApart'
  <2>1. ASSUME NEW d \in Client, pc'[d] \in {"put", "notify"}
        PROVE  pc'[d] = pc[d] /\ reqs'[d] = reqs[d] /\ sent'[d] = sent[d]
    BY <1>1, <1>2, <2>1
  <2>2. PutIsStored'
    BY <1>1, <2>1 DEF IndexInv, PutIsStored
  <2>3. PutsApart'
    <3> SUFFICES ASSUME NEW d \in Client, NEW e \in Client, NEW k \in Key, Putting(d, k)'
                 PROVE  ~DeleteRunning(e, k)'
      BY DEF PutsApart
    <3>1. Putting(d, k)
      BY <2>1 DEF Putting
    <3> QED BY <1>1, <3>1 DEF IndexInv, PutsApart, DeleteRunning
  <2> QED BY <2>2, <2>3
<1>8. ForgottenFirst'
  <2> SUFFICES ASSUME NEW d \in Client, NEW v \in Volume, Forgotten(d, v),
                      NEW k \in branch[d][v].keys
               PROVE  index'[k][v] = NoInfo
    BY <1>1 DEF ForgottenFirst, Forgotten, Indexed
  <2>1. k \in Key
    BY DEF IndexInv, TypeInv, TypeOK, ClientTypeOK, Branch
  <2>2. index[k][v] = NoInfo
    BY DEF IndexInv, ForgottenFirst, Indexed
  <2>3. k \notin KeysOf(reqs[c])
    BY <1>1, <2>1 DEF IndexInv, PutsApart, Putting, DeleteRunning
  <2> QED BY <1>5, <2>1, <2>2, <2>3 DEF KeysOf
<1>9. OneKeyDeletes'
  BY <1>1 DEF IndexInv, OneKeyDeletes
<1> QED BY <1>6, <1>7, <1>8, <1>9 DEF IndexInv

(* A delete begins on keys that no one is putting. *)
LEMMA StartDeletingIndex ==
  ASSUME Discipline = "drained", IndexInv, TypeInv',
         NEW c \in Client, NEW keys \in SUBSET Key, MayDelete(keys),
         UNCHANGED <<index, store, reqs, sent>>,
         pc[c] = "idle",
         NEW to \in {"idle", "delete", "notify_batch"}, pc' = [pc EXCEPT ![c] = to],
         NEW new \in [Volume -> Branch], branch' = [branch EXCEPT ![c] = new],
         \A v \in Volume :
           /\ new[v].keys \subseteq keys
           /\ new[v].stage \in {"none", "notify_delete", "located"}
           /\ new[v].stage = "notify_delete" => \E k \in Key : new[v].keys = {k}
  PROVE  IndexInv'
<1>1. DOMAIN pc = Client /\ DOMAIN branch = Client
  BY DEF IndexInv, TypeInv, TypeOK, ClientTypeOK
<1>2. IndexedIsStored'
  BY DEF IndexInv, IndexedIsStored, Indexed
<1>3. \A d \in Client : pc'[d] \in {"put", "notify"} => pc'[d] = pc[d]
  BY <1>1
<1>4. PutIsStored'
  BY <1>3 DEF IndexInv, PutIsStored
<1>5. PutsApart'
  <2> SUFFICES ASSUME NEW d \in Client, NEW e \in Client, NEW k \in Key, Putting(d, k)',
                      NEW v \in Volume, k \in branch'[e][v].keys
               PROVE  FALSE
    BY DEF PutsApart, DeleteRunning
  <2>1. Putting(d, k)
    BY <1>3 DEF Putting
  <2>2. CASE e = c
    <3>1. k \in keys
      BY <1>1, <2>2
    <3> QED BY <2>1, <3>1 DEF MayDelete
  <2>3. CASE e # c
    BY <1>1, <2>1, <2>3 DEF IndexInv, PutsApart, DeleteRunning
  <2> QED BY <2>2, <2>3
<1>6. ForgottenFirst' /\ OneKeyDeletes'
  <2> SUFFICES ASSUME NEW d \in Client, NEW v \in Volume
               PROVE  /\ Forgotten(d, v)' => \A k \in branch'[d][v].keys : ~Indexed(k, v)'
                      /\ branch'[d][v].stage \in {"notify_delete", "delete"} =>
                           \E k \in Key : branch'[d][v].keys = {k}
    BY DEF ForgottenFirst, OneKeyDeletes
  <2>1. CASE d = c
    BY <1>1, <2>1 DEF Forgotten
  <2>2. CASE d # c
    <3>1. branch'[d] = branch[d]
      BY <1>1, <2>2
    <3> QED BY <3>1 DEF IndexInv, ForgottenFirst, Forgotten, Indexed, OneKeyDeletes
  <2> QED BY <2>1, <2>2
<1> QED BY <1>2, <1>4, <1>5, <1>6 DEF IndexInv

LEMMA DeletedKeyIsTheOne ==
  ASSUME IndexInv, NEW c \in Client, NEW v \in Volume,
         branch[c][v].stage \in {"notify_delete", "delete"}
  PROVE  DeletedKey(c, v) \in Key /\ branch[c][v].keys = {DeletedKey(c, v)}
<1>1. PICK k \in Key : branch[c][v].keys = {k}
  BY DEF IndexInv, OneKeyDeletes
<1> QED BY <1>1 DEF DeletedKey

(* The controller forgets, and the coroutines that asked move on. *)
LEMMA ForgettingStep ==
  ASSUME IndexInv, TypeInv', NEW c \in Client, IndexShrinks,
         UNCHANGED <<store, reqs, sent>>, PutsKept,
         \A d \in Client : \A v \in Volume :
           \/ branch'[d][v] = branch[d][v]
           \/ /\ branch'[d][v].keys = branch[d][v].keys
              /\ \A k \in branch[d][v].keys : ~Indexed(k, v)'
              /\ branch'[d][v].stage \in {"notify_delete", "delete"} =>
                   \E k \in Key : branch[d][v].keys = {k}
  PROVE  IndexInv'
<1>1. OnlyForgottenDeleted /\ DeletesShrink
  BY DEF OnlyForgottenDeleted, DeletesShrink
<1>2. ForgottenFirst'
  <2> SUFFICES ASSUME NEW d \in Client, NEW v \in Volume, Forgotten(d, v)',
                      NEW k \in branch'[d][v].keys
               PROVE  ~Indexed(k, v)'
    BY DEF ForgottenFirst
  <2>1. CASE branch'[d][v] = branch[d][v]
    <3>1. k \in Key
      BY <2>1 DEF IndexInv, TypeInv, TypeOK, ClientTypeOK, Branch
    <3>2. ~Indexed(k, v)
      BY <2>1 DEF IndexInv, ForgottenFirst, Forgotten
    <3> QED BY <3>1, <3>2 DEF IndexShrinks, Indexed
  <2>2. CASE branch'[d][v] # branch[d][v]
    BY <2>2
  <2> QED BY <2>1, <2>2
<1>3. OneKeyDeletes'
  BY DEF IndexInv, OneKeyDeletes
<1> QED BY <1>1, <1>2, <1>3, ShrinkingStep DEF IndexInv

LEMMA NotifyDeleteFromIndex ==
  ASSUME IndexInv, TypeInv', NEW c \in Client, NEW v \in Volume, NotifyDeleteFrom(c, v)
  PROVE  IndexInv'
<1> DEFINE k == DeletedKey(c, v)
<1>1. /\ k \in Key /\ branch[c][v].keys = {k}
      /\ branch[c][v].stage = "notify_delete"
      /\ UNCHANGED <<store, reqs, sent>>
  BY DeletedKeyIsTheOne DEF NotifyDeleteFrom
<1>2. /\ index \in [Key -> [Volume -> StorageInfo \cup {NoInfo}]]
      /\ branch \in [Client -> [Volume -> Branch]]
      /\ DOMAIN pc = Client
  BY DEF IndexInv, TypeInv, TypeOK, ControllerTypeOK, ClientTypeOK
<1>3. CASE NotifyDeleteSucceeds(k, v)
  <2>1. /\ index' = [index EXCEPT ![k][v] = NoInfo]
        /\ branch' = [branch EXCEPT ![c][v].stage = "delete"]
        /\ UNCHANGED <<pc, outcome>>
    BY <1>3 DEF NotifyDeleteFrom, NotifyDelete
  <2> HIDE DEF k
  <2>2. IndexShrinks /\ index'[k][v] = NoInfo
    <3>1. \A x \in Key : \A w \in Volume :
            index'[x][w] = IF x = k /\ w = v THEN NoInfo ELSE index[x][w]
      BY <1>2, <2>1
    <3> QED BY <1>1, <3>1 DEF IndexShrinks
  <2>3. PutsKept
    BY <1>1, <2>1 DEF PutsKept
  <2>4. ASSUME NEW d \in Client, NEW w \in Volume, ~(d = c /\ w = v)
        PROVE  branch'[d][w] = branch[d][w]
    BY <1>2, <2>1, <2>4
  <2>5. branch'[c][v].keys = branch[c][v].keys
    <3>1. branch[c][v] \in Branch /\ branch'[c][v] = [branch[c][v] EXCEPT !.stage = "delete"]
      BY <1>2, <2>1
    <3> QED BY <3>1 DEF Branch
  <2>6. ASSUME NEW d \in Client, NEW w \in Volume, branch'[d][w] # branch[d][w]
        PROVE  /\ branch'[d][w].keys = branch[d][w].keys
               /\ \A x \in branch[d][w].keys : ~Indexed(x, w)'
               /\ \E x \in Key : branch[d][w].keys = {x}
    BY <1>1, <2>2, <2>4, <2>5, <2>6 DEF Indexed
  <2> QED BY <1>1, <2>2, <2>3, <2>6, ForgettingStep
<1>4. CASE ~NotifyDeleteSucceeds(k, v)
  <2>1. BranchRaises(c, v, "KeyError") /\ UNCHANGED index
    BY <1>4 DEF NotifyDeleteFrom, controllerVars
  <2>2. IndexShrinks /\ OnlyForgottenDeleted
    BY <1>1, <2>1 DEF IndexShrinks, OnlyForgottenDeleted
  <2>3. PutsKept
    BY <1>1, <1>2, <2>1 DEF BranchRaises, Return, PutsKept
  <2>4. BranchesEnd
    BY <1>2, <2>1 DEF BranchRaises, BranchesEnd
  <2> QED BY <2>2, <2>3, <2>4, EndingStep
<1> QED BY <1>3, <1>4

(* What a volume deletes, the controller had been made to forget. *)
LEMMA VolumeDeletes ==
  ASSUME IndexInv, NEW c \in Client, NEW v \in Volume,
         VolumeDelete(c, v) \/ VolumeDeleteBatch(c, v)
  PROVE  IndexShrinks /\ OnlyForgottenDeleted /\ PutsKept /\ BranchesEnd
<1>1. /\ UNCHANGED <<index, reqs, sent>> /\ Forgotten(c, v)
      /\ BranchEnds(c, v) \/ BranchRaises(c, v, "KeyError")
      /\ store' = store \/ DeleteKeys(v, branch[c][v].keys)
  <2>1. CASE VolumeDelete(c, v)
    <3>1. branch[c][v].keys = {DeletedKey(c, v)}
      BY <2>1, DeletedKeyIsTheOne DEF VolumeDelete
    <3> QED BY <2>1, <3>1 DEF VolumeDelete, controllerVars, Forgotten
  <2>2. CASE VolumeDeleteBatch(c, v)
    BY <2>2 DEF VolumeDeleteBatch, controllerVars, Forgotten
  <2> QED BY <2>1, <2>2
<1>2. /\ DOMAIN pc = Client /\ branch \in [Client -> [Volume -> Branch]]
      /\ store \in [Volume -> [Key -> Entry]]
  BY DEF IndexInv, TypeInv, TypeOK, ClientTypeOK, VolumeTypeOK
<1>3. IndexShrinks
  BY <1>1 DEF IndexShrinks
<1>4. OnlyForgottenDeleted
  <2>1. ASSUME NEW w \in Volume, NEW k \in Key, store'[w][k] # store[w][k]
        PROVE  w = v /\ k \in branch[c][v].keys
    BY <1>1, <1>2, <2>1 DEF DeleteKeys
  <2> QED BY <1>1, <2>1 DEF OnlyForgottenDeleted
<1>5. PutsKept
  BY <1>1, <1>2 DEF BranchEnds, BranchRaises, Return, PutsKept
<1>6. BranchesEnd
  BY <1>1, <1>2 DEF BranchEnds, BranchRaises, BranchesEnd
<1> QED BY <1>3, <1>4, <1>5, <1>6

LEMMA NotifyDeleteKeysIndex ==
  ASSUME IndexInv, TypeInv', NEW c \in Client, NotifyDeleteKeys(c)
  PROVE  IndexInv'
<1>1. /\ NotifyDeleteBatch([v \in Volume |-> branch[c][v].keys])
      /\ pc' = [pc EXCEPT ![c] = "delete_batch"]
      /\ UNCHANGED <<store, reqs, sent>>
  BY DEF NotifyDeleteKeys, Goto
<1>2. DOMAIN pc = Client /\ branch \in [Client -> [Volume -> Branch]]
  BY DEF IndexInv, TypeInv, TypeOK, ClientTypeOK
<1>3. \A k \in Key : \A v \in Volume :
        index'[k][v] = IF k \in branch[c][v].keys THEN NoInfo ELSE index[k][v]
  BY <1>1 DEF NotifyDeleteBatch
<1>4. IndexShrinks
  BY <1>3 DEF IndexShrinks
<1>5. PutsKept
  BY <1>1, <1>2 DEF PutsKept
<1>6. ASSUME NEW d \in Client, NEW v \in Volume, branch'[d][v] # branch[d][v]
      PROVE  /\ d = c
             /\ branch'[d][v].keys = branch[d][v].keys
             /\ branch'[d][v].stage = "delete_batch"
  <2> DEFINE new == [w \in Volume |->
               IF branch[c][w] = NoBranch THEN NoBranch
               ELSE [branch[c][w] EXCEPT !.stage = "delete_batch"]]
  <2>1. branch' = [branch EXCEPT ![c] = new]
    BY DEF NotifyDeleteKeys
  <2>2. d = c /\ new[v] # branch[c][v]
    BY <1>2, <1>6, <2>1
  <2>3. branch'[d][v] = [branch[c][v] EXCEPT !.stage = "delete_batch"]
    BY <1>2, <2>1, <2>2
  <2>4. branch[c][v] \in Branch
    BY <1>2
  <2> QED BY <2>2, <2>3, <2>4 DEF Branch
<1>7. \A v \in Volume : \A k \in branch[c][v].keys : ~Indexed(k, v)'
  <2>1. \A v \in Volume : branch[c][v].keys \subseteq Key
    BY <1>2 DEF Branch
  <2> QED BY <1>3, <2>1 DEF Indexed
<1> QED BY <1>1, <1>4, <1>5, <1>6, <1>7, ForgettingStep

LEMMA NextIndex ==
  ASSUME Discipline = "drained"
  PROVE  IndexInv /\ [Next]_vars => IndexInv'
<1> SUFFICES ASSUME IndexInv, [Next]_vars PROVE IndexInv'
  OBVIOUS
<1>1. TypeInv'
  BY NextType DEF IndexInv
<1>2. DOMAIN pc = Client /\ branch \in [Client -> [Volume -> Branch]]
  BY DEF IndexInv, TypeInv, TypeOK, ClientTypeOK
<1>3. ASSUME NEW c \in Client, NEW rs \in PutMenu[c], StartPut(c, rs) PROVE IndexInv'
  BY <1>1, <1>3, StartPutIndex
<1>4. ASSUME NEW c \in Client, VolumePut(c) PROVE IndexInv'
  <2>1. CASE PutAccepts(Home[c], Chunk(c))
    BY <1>1, <1>4, <2>1, VolumePutIndex
  <2>2. CASE ~PutAccepts(Home[c], Chunk(c))
    <3>1. /\ pc' = [pc EXCEPT ![c] = "idle"]
          /\ reqs' = [reqs EXCEPT ![c] = <<>>]
          /\ sent' = [sent EXCEPT ![c] = 0]
          /\ UNCHANGED <<index, store, branch>>
      BY <1>4, <2>2 DEF VolumePut, Return, DropBatch, controllerVars
    <3>2. IndexShrinks /\ OnlyForgottenDeleted /\ BranchesEnd
      BY <3>1 DEF IndexShrinks, OnlyForgottenDeleted, BranchesEnd
    <3>3. PutsKept
      BY <1>2, <3>1 DEF PutsKept
    <3> QED BY <1>1, <3>2, <3>3, EndingStep
  <2> QED BY <2>1, <2>2
<1>5. ASSUME NEW c \in Client, NotifyPut(c) PROVE IndexInv'
  BY <1>1, <1>5, NotifyPutIndex
<1>6. ASSUME NEW c \in Client, NEW wants \in GetMenu, StartGet(c, wants) PROVE IndexInv'
  <2>1. IndexShrinks /\ OnlyForgottenDeleted /\ BranchesEnd
    BY <1>6 DEF StartGet, controllerVars, IndexShrinks, OnlyForgottenDeleted, BranchesEnd
  <2>2. PutsKept
    BY <1>2, <1>6 DEF StartGet, Return, Goto, PutsKept
  <2> QED BY <1>1, <2>1, <2>2, EndingStep
<1>7. ASSUME NEW c \in Client, NEW v \in Volume, NEW subs \in SUBSET fetch[c][v],
             VolumeGet(c, v, subs)
      PROVE  IndexInv'
  <2>1. IndexShrinks /\ OnlyForgottenDeleted /\ BranchesEnd
    BY <1>7 DEF VolumeGet, controllerVars, IndexShrinks, OnlyForgottenDeleted, BranchesEnd
  <2>2. PutsKept
    BY <1>2, <1>7 DEF VolumeGet, Return, Goto, PutsKept
  <2> QED BY <1>1, <2>1, <2>2, EndingStep
<1>8. ASSUME NEW c \in Client, NEW k \in DeleteMenu, StartDelete(c, k) PROVE IndexInv'
  <2> DEFINE new == [v \in Volume |->
        IF Indexed(k, v) THEN [stage |-> "notify_delete", keys |-> {k}] ELSE NoBranch]
  <2>1. k \in Key
    BY MenuAssumption
  <2>2. UNCHANGED <<index, store, reqs, sent>> /\ pc[c] = "idle" /\ MayDelete({k})
        /\ branch[c] = NoBranches
    BY <1>8 DEF StartDelete, Begin, Quiet, controllerVars
  <2>3. \E to \in {"idle", "delete"} : pc' = [pc EXCEPT ![c] = to]
    BY <1>8 DEF StartDelete, Return, Goto
  <2>4. new \in [Volume -> Branch]
    BY <2>1 DEF NoBranch, Branch, BranchPoints
  <2>5. \/ branch' = [branch EXCEPT ![c] = new]
        \/ branch' = [branch EXCEPT ![c] = NoBranches]
    BY <1>2, <1>8, <2>2 DEF StartDelete
  <2>6. NoBranches \in [Volume -> Branch]
    BY DEF NoBranches, NoBranch, Branch
  <2> DEFINE gone == {k}
             Fits(b) == \A v \in Volume :
               /\ b[v].keys \subseteq gone
               /\ b[v].stage \in {"none", "notify_delete", "located"}
               /\ b[v].stage = "notify_delete" => \E x \in Key : b[v].keys = {x}
  <2>7. gone \in SUBSET Key /\ MayDelete(gone)
    BY <2>1, <2>2
  <2>8. Fits(new)
    BY <2>1 DEF NoBranch
  <2>9. Fits(NoBranches)
    BY DEF NoBranches, NoBranch
  <2> HIDE DEF new, gone, Fits
  <2>10. PICK b \in [Volume -> Branch] :
           branch' = [branch EXCEPT ![c] = b] /\ Fits(b)
    BY <2>4, <2>5, <2>6, <2>8, <2>9
  <2>11. PICK to \in {"idle", "delete"} : pc' = [pc EXCEPT ![c] = to]
    BY <2>3
  <2>12. IndexInv /\ Discipline = "drained" /\ TypeInv' /\ pc[c] = "idle"
    BY <1>1, <2>2
  <2>13. UNCHANGED <<index, store, reqs, sent>>
    BY <2>2
  <2>14. \A v \in Volume :
           /\ b[v].keys \subseteq gone
           /\ b[v].stage \in {"none", "notify_delete", "located"}
           /\ b[v].stage = "notify_delete" => \E x \in Key : b[v].keys = {x}
    BY <2>10 DEF Fits
  <2> QED BY <2>7, <2>10, <2>11, <2>12, <2>13, <2>14, StartDeletingIndex
<1>9. ASSUME NEW c \in Client, NEW keys \in BatchMenu, StartDeleteBatch(c, keys)
      PROVE  IndexInv'
  <2> DEFINE at(v) == { k \in keys : Indexed(k, v) }
             new == [v \in Volume |->
               IF at(v) = {} THEN NoBranch ELSE [stage |-> "located", keys |-> at(v)]]
  <2>1. keys \in SUBSET Key
    BY MenuAssumption
  <2>2. /\ UNCHANGED <<index, store, reqs, sent>> /\ pc[c] = "idle" /\ MayDelete(keys)
        /\ branch' = [branch EXCEPT ![c] = new]
    BY <1>9 DEF StartDeleteBatch, Begin, controllerVars
  <2>3. \E to \in {"idle", "notify_batch"} : pc' = [pc EXCEPT ![c] = to]
    BY <1>9 DEF StartDeleteBatch, Return, Goto
  <2>4. \A v \in Volume : at(v) \subseteq keys
    OBVIOUS
  <2> HIDE DEF at
  <2>5. new \in [Volume -> Branch]
    BY <2>1, <2>4 DEF NoBranch, Branch
  <2>6. \A v \in Volume :
          new[v].keys \subseteq keys /\ new[v].stage \in {"none", "located"}
    BY <2>4 DEF NoBranch
  <2> HIDE DEF new
  <2> QED BY <1>1, <2>1, <2>2, <2>3, <2>5, <2>6, StartDeletingIndex
<1>10. ASSUME NEW c \in Client, NEW k \in Key, Exists(c, k) PROVE IndexInv'
  <2>1. IndexShrinks /\ OnlyForgottenDeleted /\ BranchesEnd
    BY <1>10 DEF Exists, controllerVars, IndexShrinks, OnlyForgottenDeleted, BranchesEnd
  <2>2. PutsKept
    BY <1>2, <1>10 DEF Exists, Return, PutsKept
  <2> QED BY <1>1, <2>1, <2>2, EndingStep
<1>11. ASSUME NEW c \in Client, NEW v \in Volume, NotifyDeleteFrom(c, v) PROVE IndexInv'
  BY <1>1, <1>11, NotifyDeleteFromIndex
<1>12. ASSUME NEW c \in Client, NEW v \in Volume,
              VolumeDelete(c, v) \/ VolumeDeleteBatch(c, v)
       PROVE  IndexInv'
  BY <1>1, <1>12, VolumeDeletes, EndingStep
<1>13. ASSUME NEW c \in Client, NotifyDeleteKeys(c) PROVE IndexInv'
  BY <1>1, <1>13, NotifyDeleteKeysIndex
<1>14. ASSUME NEW c \in Client, CallFails(c) PROVE IndexInv'
  <2>1. IndexShrinks /\ OnlyForgottenDeleted
    BY <1>14 DEF CallFails, controllerVars, IndexShrinks, OnlyForgottenDeleted
  <2>2. PutsKept
    BY <1>2, <1>14 DEF CallFails, Return, DropBatch, PutsKept
  <2>3. BranchesEnd
    BY <1>2, <1>14 DEF CallFails, NoBranches, BranchesEnd
  <2> QED BY <1>1, <2>1, <2>2, <2>3, EndingStep
<1>15. ASSUME NEW c \in Client, NEW v \in Volume, BranchFails(c, v) PROVE IndexInv'
  <2>1. IndexShrinks /\ OnlyForgottenDeleted
    BY <1>15 DEF BranchFails, controllerVars, IndexShrinks, OnlyForgottenDeleted
  <2>2. PutsKept
    BY <1>2, <1>15 DEF BranchFails, BranchRaises, Return, PutsKept
  <2>3. BranchesEnd
    BY <1>2, <1>15 DEF BranchFails, BranchRaises, BranchesEnd
  <2> QED BY <1>1, <2>1, <2>2, <2>3, EndingStep
<1>16. ASSUME UNCHANGED vars PROVE IndexInv'
  <2>1. UNCHANGED <<index, store, pc, reqs, sent, branch>>
    BY <1>16 DEF vars, clientVars, controllerVars
  <2>2. IndexShrinks /\ OnlyForgottenDeleted /\ PutsKept /\ BranchesEnd
    BY <2>1 DEF IndexShrinks, OnlyForgottenDeleted, PutsKept, BranchesEnd
  <2> QED BY <1>1, <2>2, EndingStep
<1> QED
  BY <1>3, <1>4, <1>5, <1>6, <1>7, <1>8, <1>9, <1>10, <1>11, <1>12, <1>13,
     <1>14, <1>15, <1>16 DEF Next, Work

(***************************************************************************)
(* No dangling index entry: what the controller says is on a volume is on  *)
(* the volume, whichever calls of put, get, delete and delete_batch fail.  *)
(***************************************************************************)
THEOREM IndexNeverDangles ==
  ASSUME Discipline = "drained"
  PROVE  Spec => []IndexedIsStored
<1>1. IndexInv => IndexedIsStored
  BY DEF IndexInv
<1> QED BY <1>1, InitIndex, NextIndex, PTL DEF Spec

(* Only a delete takes an entry off a volume. *)
LEMMA OnlyForgottenVanishes ==
  ASSUME IndexInv, [Next]_vars, NEW v \in Volume, NEW k \in Key,
         Stored(v, k), ~Stored(v, k)'
  PROVE  ~Indexed(k, v)
<1>1. CASE UNCHANGED store
  BY <1>1 DEF Stored
<1>2. CASE store' # store
  <2>1. PICK c \in Client :
          \/ VolumePut(c)
          \/ \E w \in Volume : VolumeDelete(c, w) \/ VolumeDeleteBatch(c, w)
    <3>1. PICK c \in Client :
            \/ VolumePut(c) \/ NotifyPut(c) \/ NotifyDeleteKeys(c) \/ CallFails(c)
            \/ \E rs \in PutMenu[c] : StartPut(c, rs)
            \/ \E wants \in GetMenu : StartGet(c, wants)
            \/ \E x \in DeleteMenu : StartDelete(c, x)
            \/ \E keys \in BatchMenu : StartDeleteBatch(c, keys)
            \/ \E x \in Key : Exists(c, x)
            \/ \E w \in Volume :
                 \/ \E subs \in SUBSET fetch[c][w] : VolumeGet(c, w, subs)
                 \/ NotifyDeleteFrom(c, w) \/ BranchFails(c, w)
                 \/ VolumeDelete(c, w) \/ VolumeDeleteBatch(c, w)
      BY <1>2 DEF Next, Work, vars
    <3>2. ~NotifyPut(c) /\ ~NotifyDeleteKeys(c) /\ ~CallFails(c)
      BY <1>2 DEF NotifyPut, NotifyDeleteKeys, CallFails
    <3>3. /\ ~\E rs \in PutMenu[c] : StartPut(c, rs)
          /\ ~\E wants \in GetMenu : StartGet(c, wants)
          /\ ~\E x \in DeleteMenu : StartDelete(c, x)
          /\ ~\E keys \in BatchMenu : StartDeleteBatch(c, keys)
          /\ ~\E x \in Key : Exists(c, x)
      BY <1>2 DEF StartPut, StartGet, StartDelete, StartDeleteBatch, Exists
    <3>4. ~\E w \in Volume :
             \/ \E subs \in SUBSET fetch[c][w] : VolumeGet(c, w, subs)
             \/ NotifyDeleteFrom(c, w) \/ BranchFails(c, w)
      BY <1>2 DEF VolumeGet, NotifyDeleteFrom, BranchFails
    <3> QED BY <3>1, <3>2, <3>3, <3>4
  <2>2. CASE VolumePut(c)
    <3>1. pc[c] = "put" /\ PutVolume(Home[c], Chunk(c)) /\ Home[c] \in Volume
      BY <1>2, <2>2, MenuAssumption DEF VolumePut
    <3>2. IsBatch(Chunk(c)) /\ VolumeTypeOK
      BY <3>1, ChunkIsBatch DEF IndexInv, TypeInv, TypeOK
    <3>3. PICK i \in DOMAIN Chunk(c) : v = Home[c] /\ Chunk(c)[i].key = k
      BY <3>1, <3>2, PutVolumeEffect DEF Stored, KeysOf
    <3>4. store'[v][k] = StoreEntry(store[v][k], Chunk(c)[i]) /\ Chunk(c)[i] \in Request
      BY <3>1, <3>2, <3>3, PutVolumeEffect, ToRequest
    <3>5. store'[v][k].type # "NONE"
      BY <3>4 DEF StoreEntry, StoreShard, Request, ObjectType
    <3> QED BY <3>5 DEF Stored
  <2>3. CASE \E w \in Volume : VolumeDelete(c, w) \/ VolumeDeleteBatch(c, w)
    <3>1. OnlyForgottenDeleted
      BY <2>3, VolumeDeletes
    <3> QED BY <3>1 DEF OnlyForgottenDeleted, IndexInv, ForgottenFirst, Stored
  <2> QED BY <2>1, <2>2, <2>3
<1> QED BY <1>1, <1>2

(***************************************************************************)
(* "Notify should come before the actual delete": an entry is taken off a  *)
(* volume only when the controller no longer lists it there.               *)
(***************************************************************************)
THEOREM NotifyComesFirst ==
  ASSUME Discipline = "drained"
  PROVE  Spec => DeleteAfterNotify
<1>1. IndexInv /\ [Next]_vars
        => [\A v \in Volume : \A k \in Key :
              Stored(v, k) /\ ~Stored(v, k)' => ~Indexed(k, v)]_vars
  BY OnlyForgottenVanishes
<1> QED BY <1>1, InitIndex, NextIndex, PTL DEF Spec, DeleteAfterNotify

-----------------------------------------------------------------------------
(* What callers put *)

(* The requests that some client may put under key k, and their slices. *)
Menu(k) ==
  { r \in Request :
      /\ r.key = k
      /\ \E c \in Client : \E rs \in PutMenu[c] : \E i \in DOMAIN rs : rs[i] = r }

SlicesPut(k) ==
  { s \in Slice :
      \E r \in Menu(k) : r.object_type = "TENSOR_SLICE" /\ r.slice = s }

(* Slices of a key that fill the mesh they name leave no cell uncovered. *)
ShardingsCover ==
  \A k \in Key : \A S \in SUBSET SlicesPut(k) :
    S # {} /\ (\A s \in S : s.mesh_shape = { t.coordinates : t \in S })
      => Cell \subseteq UNION { s.region : s \in S }

(* All slices of a key are put from one mesh. *)
OneMesh ==
  \A k \in Key : \A s, t \in SlicesPut(k) : s.mesh_shape = t.mesh_shape

(* A key is always put as the same kind of entry. *)
KeysKeepType ==
  \A k \in Key : \A q, r \in Menu(k) : q.object_type = r.object_type

(* The slice that one rank puts under a key is always the same. *)
SlicesKeepPlace ==
  \A k \in Key : \A s, t \in SlicesPut(k) :
    s.coordinates = t.coordinates => s = t

-----------------------------------------------------------------------------
(* What is in the store was put there *)

BatchesFromMenu ==
  \A c \in Client : pc[c] \in {"put", "notify"} => reqs[c] \in PutMenu[c]

IndexFromMenu ==
  \A k \in Key : \A v \in Volume :
    Indexed(k, v) =>
      /\ index[k][v].tensor_slices # {}
      /\ \A s \in index[k][v].tensor_slices : \E r \in Menu(k) :
           r.object_type = index[k][v].object_type /\ r.slice = s

(* The type of the entry that a request of the given type leaves. *)
EntryOf(type) == IF type = "TENSOR_SLICE" THEN "SHARDS" ELSE type

StoreFromMenu ==
  \A v \in Volume : \A k \in Key :
    /\ Stored(v, k) =>
         \E r \in Menu(k) : store[v][k].type = EntryOf(r.object_type)
    /\ \A i \in DOMAIN store[v][k].shards :
         store[v][k].shards[i].slice \in SlicesPut(k)

MenuInv == BatchesFromMenu /\ IndexFromMenu /\ StoreFromMenu

-----------------------------------------------------------------------------
(* The call that a client is in *)

CallsMatch ==
  \A c \in Client :
    /\ pc[c] \in {"put", "notify"} =>
         call[c].op = "put" /\ call[c].keys = KeysOf(reqs[c])
    /\ pc[c] = "fetch" => call[c].op = "get"
    /\ pc[c] = "delete" => call[c].op = "delete"
    /\ pc[c] \in {"notify_batch", "delete_batch"} =>
         call[c].op = "delete_batch"

(* The insertion order of the volumes of a key has a first in every set. *)
InsertionOrder ==
  \A k \in Key :
    /\ older[k] \subseteq Holders(k) \X Holders(k)
    /\ \A S \in SUBSET Holders(k) : S # {} =>
         \E v \in S : \A u \in S : <<u, v>> \notin older[k]

(* What a get has fetched and what it has still to fetch is all it wants. *)
Fetched(c, k) == UNION { p.region : p \in { q \in parts[c] : q.key = k } }
Unfetched(c, k) ==
  UNION { sub.region :
    sub \in { x \in UNION { fetch[c][v] : v \in Volume } : x.key = k } }

FetchCovers ==
  \A c \in Client : pc[c] = "fetch" =>
    \A k \in call[c].keys :
      call[c].wants[k].region \subseteq Fetched(c, k) \cup Unfetched(c, k)

(* What holds of every call, whatever callers do. *)
CallInv == TypeInv /\ OneKeyDeletes /\ MenuInv /\ CallsMatch /\ InsertionOrder

ReadInv == CallInv /\ FetchCovers /\ GetIsComplete

(* A read of a whole entry is of a key that is not put in slices. *)
FetchFromMenu ==
  \A c \in Client : \A v \in Volume : \A sub \in fetch[c][v] :
    ~sub.sliced => \E r \in Menu(sub.key) : r.object_type # "TENSOR_SLICE"

(* Data that is stored and not indexed: a put is about to notify it, or a  *)
(* delete that made the controller forget it is about to remove it.        *)
OrphanHasOwner ==
  \A v \in Volume : \A k \in Key :
    Stored(v, k) /\ ~Indexed(k, v) =>
      \/ \E c \in Client : Putting(c, k) /\ Home[c] = v
      \/ \E c \in Client : Forgotten(c, v) /\ k \in branch[c][v].keys

(* No put of a key runs while a call that deletes the key does. *)
CallsApart ==
  \A c, d \in Client : \A k \in Key : Putting(c, k) => ~DeleteCalled(d, k)

(* What a delete has still to make the controller forget, it will. *)
DeletesReachAll ==
  \A c \in Client : \A k \in call[c].keys : \A v \in Volume :
    Indexed(k, v) =>
      /\ pc[c] = "delete" =>
           branch[c][v].stage = "notify_delete" /\ k \in branch[c][v].keys
      /\ pc[c] = "notify_batch" => k \in branch[c][v].keys
      /\ pc[c] # "delete_batch"

(* Before delete_batch notifies, none of its volumes deletes. *)
BatchNotifiesFirst ==
  \A c \in Client : pc[c] = "notify_batch" =>
    \A v \in Volume : branch[c][v].stage \in {"none", "located"}

DeleteInv ==
  /\ IndexInv
  /\ CallInv
  /\ OrphanHasOwner
  /\ CallsApart
  /\ DeletesReachAll
  /\ BatchNotifiesFirst

(* No put fails between its two calls, no delete once it made the          *)
(* controller forget: either would leave data behind that nobody removes.  *)
NoneLeftBehind ==
  Faults \cap {"put", "notify", "delete", "delete_batch"} = {}

-----------------------------------------------------------------------------
(* A step is a step of one client, and touches the index or a volume in    *)
(* few of its actions.                                                     *)

Reads(c) ==
  \/ \E wants \in GetMenu : StartGet(c, wants)
  \/ \E v \in Volume : \E subs \in SUBSET fetch[c][v] : VolumeGet(c, v, subs)
  \/ \E k \in Key : Exists(c, k)

Deletes(c) ==
  \/ \E k \in DeleteMenu : StartDelete(c, k)
  \/ \E keys \in BatchMenu : StartDeleteBatch(c, keys)
  \/ \E v \in Volume : NotifyDeleteFrom(c, v)
  \/ \E v \in Volume : VolumeDelete(c, v)
  \/ NotifyDeleteKeys(c)
  \/ \E v \in Volume : VolumeDeleteBatch(c, v)
  \/ \E v \in Volume : BranchFails(c, v)

Puts(c) ==
  \/ \E rs \in PutMenu[c] : StartPut(c, rs)
  \/ VolumePut(c)
  \/ NotifyPut(c)

Acts(c) == Puts(c) \/ Reads(c) \/ Deletes(c) \/ CallFails(c)

LEMMA NextIsOneAct ==
  ASSUME [Next]_vars
  PROVE  UNCHANGED vars \/ \E c \in Client : Acts(c)
BY DEF Next, Work, Acts, Puts, Reads, Deletes

(* The client's own variables stay as they are. *)
Rests(d) ==
  /\ pc'[d] = pc[d] /\ call'[d] = call[d] /\ outcome'[d] = outcome[d]
  /\ reqs'[d] = reqs[d] /\ sent'[d] = sent[d]
  /\ fetch'[d] = fetch[d] /\ parts'[d] = parts[d]
  /\ branch'[d] = branch[d]

LEMMA OthersRest ==
  ASSUME TypeOK, NEW c \in Client, Acts(c), NEW d \in Client, d # c
  PROVE  Rests(d)
<1>1. ClientTypeOK
  BY DEF TypeOK
<1>2. CASE Puts(c)
  BY <1>1, <1>2 DEF Puts, StartPut, VolumePut, NotifyPut, Begin, Goto, Return,
                    DropBatch, ClientTypeOK, Rests
<1>3. CASE Reads(c)
  <2>1. \/ \E wants \in GetMenu : StartGet(c, wants)
        \/ \E v \in Volume : \E subs \in SUBSET fetch[c][v] : VolumeGet(c, v, subs)
        \/ \E k \in Key : Exists(c, k)
    BY <1>3 DEF Reads
  <2>2. CASE \E wants \in GetMenu : StartGet(c, wants)
    <3>1. \E to : pc' = [pc EXCEPT ![c] = to]
      BY <2>2 DEF StartGet, Goto, Return
    <3>2. \E to : outcome' = [outcome EXCEPT ![c] = to]
      BY <2>2 DEF StartGet, Goto, Return
    <3>3. \E new : call' = [call EXCEPT ![c] = new]
      BY <2>2 DEF StartGet, Begin
    <3>4. parts' = [parts EXCEPT ![c] = {}]
      BY <2>2 DEF StartGet, Begin
    <3>5. fetch' = fetch \/ \E new : fetch' = [fetch EXCEPT ![c] = new]
      BY <2>2 DEF StartGet
    <3>6. UNCHANGED <<reqs, sent, branch>>
      BY <2>2 DEF StartGet
    <3> QED BY <1>1, <3>1, <3>2, <3>3, <3>4, <3>5, <3>6 DEF ClientTypeOK, Rests
  <2>3. CASE \E v \in Volume : \E subs \in SUBSET fetch[c][v] : VolumeGet(c, v, subs)
    BY <1>1, <2>3 DEF VolumeGet, Goto, Return, ClientTypeOK, Rests
  <2>4. CASE \E k \in Key : Exists(c, k)
    BY <1>1, <2>4 DEF Exists, Begin, Return, ClientTypeOK, Rests
  <2> QED BY <2>1, <2>2, <2>3, <2>4
<1>4. CASE Deletes(c)
  <2>1. CASE \/ \E k \in DeleteMenu : StartDelete(c, k)
             \/ \E keys \in BatchMenu : StartDeleteBatch(c, keys)
             \/ NotifyDeleteKeys(c)
    <3>1. branch' = branch \/ \E new : branch' = [branch EXCEPT ![c] = new]
      BY <2>1 DEF StartDelete, StartDeleteBatch, NotifyDeleteKeys
    <3>2. \E to : pc' = [pc EXCEPT ![c] = to]
      BY <2>1 DEF StartDelete, StartDeleteBatch, NotifyDeleteKeys, Goto, Return
    <3>3. \E to : outcome' = [outcome EXCEPT ![c] = to]
      BY <2>1 DEF StartDelete, StartDeleteBatch, NotifyDeleteKeys, Goto, Return
    <3>4. call' = call \/ \E new : call' = [call EXCEPT ![c] = new]
      BY <2>1 DEF StartDelete, StartDeleteBatch, NotifyDeleteKeys, Begin
    <3>5. parts' = parts \/ \E new : parts' = [parts EXCEPT ![c] = new]
      BY <2>1 DEF StartDelete, StartDeleteBatch, NotifyDeleteKeys, Begin
    <3>6. UNCHANGED <<reqs, sent, fetch>>
      BY <2>1 DEF StartDelete, StartDeleteBatch, NotifyDeleteKeys
    <3> QED BY <1>1, <3>1, <3>2, <3>3, <3>4, <3>5, <3>6 DEF ClientTypeOK, Rests
  <2>2. CASE \E v \in Volume : \/ NotifyDeleteFrom(c, v) \/ VolumeDelete(c, v)
                              \/ VolumeDeleteBatch(c, v) \/ BranchFails(c, v)
    BY <1>1, <2>2 DEF NotifyDeleteFrom, VolumeDelete, VolumeDeleteBatch,
                      BranchFails, BranchEnds, BranchRaises, Return,
                      ClientTypeOK, Rests
  <2> QED BY <1>4, <2>1, <2>2 DEF Deletes
<1>5. CASE CallFails(c)
  BY <1>1, <1>5 DEF CallFails, Return, DropBatch, ClientTypeOK, Rests
<1> QED BY <1>2, <1>3, <1>4, <1>5 DEF Acts

LEMMA IndexSteps ==
  ASSUME NEW c \in Client, Acts(c)
  PROVE  \/ UNCHANGED controllerVars
         \/ NotifyPut(c)
         \/ NotifyDeleteKeys(c)
         \/ \E v \in Volume :
              NotifyDeleteFrom(c, v) /\ NotifyDelete(DeletedKey(c, v), v)
<1>1. CASE Puts(c) \/ Reads(c) \/ CallFails(c)
  BY <1>1 DEF Puts, Reads, StartPut, VolumePut, StartGet, VolumeGet, Exists, CallFails
<1>2. CASE Deletes(c)
  BY <1>2 DEF Deletes, StartDelete, StartDeleteBatch, NotifyDeleteFrom,
              VolumeDelete, VolumeDeleteBatch, BranchFails
<1> QED BY <1>1, <1>2 DEF Acts

LEMMA StoreSteps ==
  ASSUME NEW c \in Client, Acts(c)
  PROVE  \/ UNCHANGED store
         \/ VolumePut(c) /\ PutAccepts(Home[c], Chunk(c))
         \/ \E v \in Volume : VolumeDelete(c, v) \/ VolumeDeleteBatch(c, v)
<1>1. CASE Puts(c) \/ Reads(c) \/ CallFails(c)
  BY <1>1 DEF Puts, Reads, StartPut, VolumePut, NotifyPut, StartGet, VolumeGet,
              Exists, CallFails
<1>2. CASE Deletes(c)
  BY <1>2 DEF Deletes, StartDelete, StartDeleteBatch, NotifyDeleteFrom,
              NotifyDeleteKeys, BranchFails
<1> QED BY <1>1, <1>2 DEF Acts

(* A put in progress has just begun, or is the one that was in progress. *)
LEMMA PutCourse ==
  ASSUME TypeOK, NEW c \in Client, Acts(c), pc'[c] \in {"put", "notify"}
  PROVE  \/ \E rs \in PutMenu[c] : StartPut(c, rs)
         \/ /\ pc[c] \in {"put", "notify"}
            /\ reqs'[c] = reqs[c] /\ call'[c] = call[c]
<1>1. pc \in [Client -> {"idle", "put", "notify", "fetch", "delete",
                        "notify_batch", "delete_batch"}]
  BY DEF TypeOK, ClientTypeOK
<1>2. CASE Puts(c)
  BY <1>1, <1>2 DEF Puts, VolumePut, NotifyPut, Goto, Return
<1>3. CASE Reads(c)
  BY <1>1, <1>3 DEF Reads, StartGet, VolumeGet, Exists, Goto, Return
<1>4. CASE Deletes(c)
  <2>1. CASE \/ \E k \in DeleteMenu : StartDelete(c, k)
             \/ \E keys \in BatchMenu : StartDeleteBatch(c, keys)
             \/ NotifyDeleteKeys(c)
    BY <1>1, <2>1 DEF StartDelete, StartDeleteBatch, NotifyDeleteKeys, Goto, Return
  <2>2. CASE \E v \in Volume : \/ NotifyDeleteFrom(c, v) \/ VolumeDelete(c, v)
                              \/ VolumeDeleteBatch(c, v) \/ BranchFails(c, v)
    BY <1>1, <2>2 DEF NotifyDeleteFrom, VolumeDelete, VolumeDeleteBatch,
                      BranchFails, BranchEnds, BranchRaises, Return
  <2> QED BY <1>4, <2>1, <2>2 DEF Deletes
<1>5. CASE CallFails(c)
  BY <1>1, <1>5 DEF CallFails, Return
<1> QED BY <1>2, <1>3, <1>4, <1>5 DEF Acts

(* What a step makes of a delete coroutine of its client. *)
BranchBecomes(c, v, stage, keys) ==
  branch'[c][v].stage = stage /\ branch'[c][v].keys = keys

BranchChange(c, v) ==
  \/ branch'[c][v] = branch[c][v]
  \/ branch'[c][v] = NoBranch
  \/ \E k \in Key :
       /\ StartDelete(c, k) /\ Indexed(k, v)
       /\ BranchBecomes(c, v, "notify_delete", {k})
  \/ \E keys \in SUBSET Key :
       /\ StartDeleteBatch(c, keys)
       /\ BranchBecomes(c, v, "located", { k \in keys : Indexed(k, v) })
  \/ /\ NotifyDeleteFrom(c, v) /\ branch[c][v].stage = "notify_delete"
     /\ NotifyDelete(DeletedKey(c, v), v) /\ Indexed(DeletedKey(c, v), v)
     /\ BranchBecomes(c, v, "delete", branch[c][v].keys)
  \/ /\ NotifyDeleteKeys(c)
     /\ BranchBecomes(c, v, "delete_batch", branch[c][v].keys)

LEMMA BranchSteps ==
  ASSUME TypeOK, NEW c \in Client, Acts(c), NEW v \in Volume
  PROVE  BranchChange(c, v)
<1>1. branch \in [Client -> [Volume -> Branch]]
  BY DEF TypeOK, ClientTypeOK
<1>2. CASE Puts(c) \/ Reads(c)
  BY <1>2 DEF Puts, StartPut, VolumePut, NotifyPut, Reads, StartGet, VolumeGet,
              Exists, BranchChange
<1>3. CASE CallFails(c)
  BY <1>1, <1>3 DEF CallFails, NoBranches, BranchChange
<1>4. ASSUME NEW k \in DeleteMenu, StartDelete(c, k) PROVE BranchChange(c, v)
  <2>1. k \in Key
    BY MenuAssumption
  <2>2. \/ branch' = branch
        \/ branch' = [branch EXCEPT ![c] = [w \in Volume |->
             IF Indexed(k, w) THEN [stage |-> "notify_delete", keys |-> {k}]
                              ELSE NoBranch]]
    BY <1>4 DEF StartDelete
  <2>3. \/ branch'[c][v] = branch[c][v]
        \/ branch'[c][v] = NoBranch
        \/ /\ Indexed(k, v)
           /\ branch'[c][v] = [stage |-> "notify_delete", keys |-> {k}]
    BY <1>1, <2>2
  <2> QED BY <1>4, <2>1, <2>3 DEF BranchChange, BranchBecomes
<1>5. ASSUME NEW keys \in BatchMenu, StartDeleteBatch(c, keys) PROVE BranchChange(c, v)
  <2> DEFINE at(w) == { k \in keys : Indexed(k, w) }
  <2>1. keys \in SUBSET Key
    BY MenuAssumption
  <2>2. branch' = [branch EXCEPT ![c] = [w \in Volume |->
          IF at(w) = {} THEN NoBranch ELSE [stage |-> "located", keys |-> at(w)]]]
    BY <1>5 DEF StartDeleteBatch
  <2> HIDE DEF at
  <2>3. \/ branch'[c][v] = NoBranch
        \/ branch'[c][v] = [stage |-> "located", keys |-> at(v)]
    BY <1>1, <2>2
  <2> QED BY <1>5, <2>1, <2>3 DEF BranchChange, BranchBecomes, at
<1>6. ASSUME NEW w \in Volume, NotifyDeleteFrom(c, w) PROVE BranchChange(c, v)
  <2>1. CASE NotifyDeleteSucceeds(DeletedKey(c, w), w)
    <3>1. /\ branch' = [branch EXCEPT ![c][w].stage = "delete"]
          /\ NotifyDelete(DeletedKey(c, w), w)
          /\ branch[c][w].stage = "notify_delete"
      BY <1>6, <2>1 DEF NotifyDeleteFrom
    <3>2. branch[c][w] \in Branch
      BY <1>1
    <3>3. branch'[c][w] = [branch[c][w] EXCEPT !.stage = "delete"]
      BY <1>1, <3>1
    <3>4. branch'[c][w] = [stage |-> "delete", keys |-> branch[c][w].keys]
      BY <3>2, <3>3 DEF Branch
    <3>5. w # v => branch'[c][v] = branch[c][v]
      BY <1>1, <3>1
    <3> QED BY <1>6, <2>1, <3>1, <3>4, <3>5 DEF BranchChange, BranchBecomes, NotifyDeleteSucceeds
  <2>2. CASE ~NotifyDeleteSucceeds(DeletedKey(c, w), w)
    <3>1. branch' = [branch EXCEPT ![c][w] = NoBranch]
      BY <1>6, <2>2 DEF NotifyDeleteFrom, BranchRaises
    <3>2. branch'[c][v] = branch[c][v] \/ branch'[c][v] = NoBranch
      BY <1>1, <3>1
    <3> QED BY <3>2 DEF BranchChange, BranchBecomes
  <2> QED BY <2>1, <2>2
<1>7. ASSUME NEW w \in Volume,
             VolumeDelete(c, w) \/ VolumeDeleteBatch(c, w) \/ BranchFails(c, w)
      PROVE  BranchChange(c, v)
  <2>1. branch' = [branch EXCEPT ![c][w] = NoBranch]
    BY <1>7 DEF VolumeDelete, VolumeDeleteBatch, BranchFails, BranchRaises, BranchEnds
  <2>2. branch'[c][v] = branch[c][v] \/ branch'[c][v] = NoBranch
    BY <1>1, <2>1
  <2> QED BY <2>2 DEF BranchChange, BranchBecomes
<1>8. CASE NotifyDeleteKeys(c)
  <2>1. branch' = [branch EXCEPT ![c] = [w \in Volume |->
          IF branch[c][w] = NoBranch THEN NoBranch
          ELSE [branch[c][w] EXCEPT !.stage = "delete_batch"]]]
    BY <1>8 DEF NotifyDeleteKeys
  <2>2. \/ branch'[c][v] = NoBranch
        \/ branch'[c][v] = [branch[c][v] EXCEPT !.stage = "delete_batch"]
    BY <1>1, <2>1
  <2>3. branch[c][v] \in Branch
    BY <1>1
  <2>4. [branch[c][v] EXCEPT !.stage = "delete_batch"]
          = [stage |-> "delete_batch", keys |-> branch[c][v].keys]
    BY <2>3 DEF Branch
  <2> QED BY <1>8, <2>2, <2>4 DEF BranchChange, BranchBecomes
<1> QED BY <1>2, <1>3, <1>4, <1>5, <1>6, <1>7, <1>8 DEF Acts, Deletes

(* A coroutine of delete has one key, whatever the callers do. *)
LEMMA OneKeyStep ==
  ASSUME TypeOK, OneKeyDeletes, NEW c \in Client, Acts(c)
  PROVE  OneKeyDeletes'
<1> SUFFICES ASSUME NEW d \in Client, NEW v \in Volume,
                    branch'[d][v].stage \in {"notify_delete", "delete"}
             PROVE  \E k \in Key : branch'[d][v].keys = {k}
  BY DEF OneKeyDeletes
<1>1. CASE d # c
  BY <1>1, OthersRest DEF Rests, OneKeyDeletes
<1>2. CASE d = c
  <2>1. BranchChange(c, v)
    BY BranchSteps
  <2> QED BY <1>2, <2>1
          DEF BranchChange, BranchBecomes, NoBranch, OneKeyDeletes
<1> QED BY <1>1, <1>2

LEMMA TheDeletedKey ==
  ASSUME OneKeyDeletes, NEW c \in Client, NEW v \in Volume,
         branch[c][v].stage \in {"notify_delete", "delete"}
  PROVE  DeletedKey(c, v) \in Key /\ branch[c][v].keys = {DeletedKey(c, v)}
<1>1. PICK k \in Key : branch[c][v].keys = {k}
  BY DEF OneKeyDeletes
<1> QED BY <1>1 DEF DeletedKey

(* The controller merges a request of the caller, forgets, or does nothing. *)
LEMMA IndexChange ==
  ASSUME TypeInv, OneKeyDeletes, NEW c \in Client, Acts(c),
         NEW k \in Key, NEW v \in Volume
  PROVE  \/ index'[k][v] = index[k][v]
         \/ /\ index'[k][v] = NoInfo /\ k \in branch[c][v].keys
            /\ \/ NotifyDeleteKeys(c)
               \/ /\ NotifyDeleteFrom(c, v) /\ k = DeletedKey(c, v)
                  /\ branch' = [branch EXCEPT ![c][v].stage = "delete"]
         \/ /\ v = Home[c] /\ NotifyPut(c)
            /\ \E i \in DOMAIN reqs[c] :
                 /\ reqs[c][i].key = k
                 /\ NotifyAccepts(reqs[c][i], v)
                 /\ index'[k][v] = Merge(index[k][v], reqs[c][i])
<1>1. ControllerTypeOK /\ ClientTypeOK /\ Home[c] \in Volume
  BY MenuAssumption DEF TypeInv, TypeOK
<1>2. CASE UNCHANGED controllerVars
  BY <1>2 DEF controllerVars
<1>3. CASE NotifyPut(c)
  <2>1. IsBatch(reqs[c]) /\ NotifyPutBatch(reqs[c], Home[c])
    BY <1>3 DEF NotifyPut, TypeInv, BatchInFlight
  <2> QED BY <1>1, <1>3, <2>1, NotifyPutEffect
<1>4. CASE NotifyDeleteKeys(c)
  BY <1>1, <1>4 DEF NotifyDeleteKeys, NotifyDeleteBatch
<1>5. ASSUME NEW w \in Volume, NotifyDeleteFrom(c, w), NotifyDelete(DeletedKey(c, w), w)
      PROVE  \/ index'[k][v] = index[k][v]
             \/ /\ index'[k][v] = NoInfo /\ k \in branch[c][v].keys
                /\ NotifyDeleteFrom(c, v) /\ k = DeletedKey(c, v)
                /\ branch' = [branch EXCEPT ![c][v].stage = "delete"]
  <2> DEFINE x == DeletedKey(c, w)
  <2>1. index' = [index EXCEPT ![x][w] = NoInfo]
    BY <1>5 DEF NotifyDelete
  <2> HIDE DEF x
  <2>2. index'[k][v] = IF k = x /\ v = w THEN NoInfo ELSE index[k][v]
    BY <1>1, <2>1 DEF ControllerTypeOK
  <2>3. CASE k = x /\ v = w /\ index'[k][v] # index[k][v]
    <3>1. NotifyDeleteSucceeds(x, w)
      <4>1. branch[c][w].stage = "notify_delete" /\ index' # index
        BY <1>5, <2>3 DEF NotifyDeleteFrom
      <4> QED BY <1>5, <4>1 DEF NotifyDeleteFrom, controllerVars, x
    <3>2. branch' = [branch EXCEPT ![c][w].stage = "delete"]
      BY <1>5, <3>1 DEF NotifyDeleteFrom, x
    <3>3. branch[c][w].stage = "notify_delete"
      BY <1>5 DEF NotifyDeleteFrom
    <3>4. x \in branch[c][w].keys
      BY <3>3, TheDeletedKey DEF x
    <3> QED BY <1>5, <2>2, <2>3, <3>2, <3>4 DEF x
  <2> QED BY <2>2, <2>3
<1> QED BY <1>2, <1>3, <1>4, <1>5, IndexSteps

(* A volume takes a request of a put, or loses what is being deleted. *)
LEMMA StoreChange ==
  ASSUME TypeInv, OneKeyDeletes, NEW c \in Client, Acts(c),
         NEW k \in Key, NEW v \in Volume
  PROVE  \/ store'[v][k] = store[v][k]
         \/ /\ store'[v][k] = NoEntry /\ k \in branch[c][v].keys
            /\ Forgotten(c, v)
         \/ /\ v = Home[c] /\ pc[c] = "put" /\ VolumePut(c)
            /\ pc'[c] \in {"put", "notify"} /\ reqs' = reqs
            /\ \E i \in DOMAIN reqs[c] :
                 /\ reqs[c][i].key = k
                 /\ ExtractExistingAccepts(store[v][k], reqs[c][i])
                 /\ store'[v][k] = StoreEntry(store[v][k], reqs[c][i])
<1>1. /\ VolumeTypeOK /\ ClientTypeOK /\ Home[c] \in Volume
      /\ store \in [Volume -> [Key -> Entry]]
  BY MenuAssumption DEF TypeInv, TypeOK, VolumeTypeOK
<1>2. CASE VolumePut(c) /\ PutAccepts(Home[c], Chunk(c))
  <2>1. /\ pc[c] = "put" /\ PutVolume(Home[c], Chunk(c)) /\ reqs' = reqs
        /\ \E to \in {"put", "notify"} : pc' = [pc EXCEPT ![c] = to]
    BY <1>2 DEF VolumePut, Goto
  <2>2. pc'[c] \in {"put", "notify"}
    BY <1>1, <2>1 DEF ClientTypeOK
  <2>3. /\ IsBatch(Chunk(c)) /\ Len(Chunk(c)) \in Nat
        /\ DOMAIN Chunk(c) = 1..Len(Chunk(c))
        /\ sent[c] + Len(Chunk(c)) <= Len(reqs[c])
        /\ \A i \in 1..Len(Chunk(c)) : Chunk(c)[i] = reqs[c][sent[c] + i]
    BY <2>1, ChunkIsBatch
  <2>4. CASE v = Home[c] /\ k \in KeysOf(Chunk(c))
    <3>1. PICK i \in DOMAIN Chunk(c) : Chunk(c)[i].key = k
      BY <2>4 DEF KeysOf
    <3>2. store'[v][k] = StoreEntry(store[v][k], Chunk(c)[i])
      BY <1>1, <2>1, <2>3, <2>4, <3>1, PutVolumeEffect
    <3>3. ExtractExistingAccepts(store[v][k], Chunk(c)[i])
      BY <1>2, <2>4, <3>1 DEF PutAccepts
    <3>4. sent[c] + i \in DOMAIN reqs[c] /\ Chunk(c)[i] = reqs[c][sent[c] + i]
      <4>1. sent[c] \in Nat /\ reqs[c] \in Seq(Request)
        BY <1>1 DEF ClientTypeOK
      <4>2. DOMAIN reqs[c] = 1..Len(reqs[c]) /\ Len(reqs[c]) \in Nat
        BY <4>1
      <4> QED BY <2>3, <3>1, <4>1, <4>2
    <3> QED BY <1>2, <2>1, <2>2, <2>4, <3>1, <3>2, <3>3, <3>4
  <2>5. CASE ~(v = Home[c] /\ k \in KeysOf(Chunk(c)))
    BY <1>1, <2>1, <2>3, <2>5, PutVolumeEffect
  <2> QED BY <2>4, <2>5
<1>3. ASSUME NEW w \in Volume, VolumeDelete(c, w)
      PROVE  \/ store'[v][k] = store[v][k]
             \/ /\ store'[v][k] = NoEntry /\ k \in branch[c][v].keys
                /\ Forgotten(c, v)
  <2>1. branch[c][w].keys = {DeletedKey(c, w)} /\ Forgotten(c, w)
    BY <1>3, TheDeletedKey DEF VolumeDelete, Forgotten
  <2> QED BY <1>1, <1>3, <2>1 DEF VolumeDelete, DeleteKeys
<1>4. ASSUME NEW w \in Volume, VolumeDeleteBatch(c, w)
      PROVE  \/ store'[v][k] = store[v][k]
             \/ /\ store'[v][k] = NoEntry /\ k \in branch[c][v].keys
                /\ Forgotten(c, v)
  <2>1. Forgotten(c, w)
    BY <1>4 DEF VolumeDeleteBatch, Forgotten
  <2> QED BY <1>1, <1>4, <2>1 DEF VolumeDeleteBatch, DeleteKeys
<1> QED BY <1>2, <1>3, <1>4, StoreSteps

-----------------------------------------------------------------------------
(* What is stored and indexed comes from the menus *)

LEMMA RequestOfMenu ==
  ASSUME NEW c \in Client, NEW rs \in PutMenu[c], NEW i \in DOMAIN rs
  PROVE  rs[i] \in Request /\ rs[i].key \in Key /\ rs[i] \in Menu(rs[i].key)
<1>1. IsBatch(rs)
  BY MenuAssumption
<1>2. rs[i] \in Request /\ rs[i].key \in Key
  BY <1>1, ToRequest
<1> QED BY <1>2 DEF Menu

LEMMA SliceOfMenu ==
  ASSUME NEW k, NEW r \in Menu(k), r.object_type = "TENSOR_SLICE"
  PROVE  r.slice \in SlicesPut(k) /\ r.slice \in Slice
BY DEF Menu, SlicesPut, Request

(* The slices of the shards after a put: the old ones and the new one. *)
LEMMA StoreEntrySlices ==
  ASSUME NEW entry \in Entry, NEW r \in Request,
         NEW i \in DOMAIN StoreEntry(entry, r).shards
  PROVE  \/ \E j \in DOMAIN entry.shards :
              StoreEntry(entry, r).shards[i].slice = entry.shards[j].slice
         \/ /\ r.object_type = "TENSOR_SLICE"
            /\ StoreEntry(entry, r).shards[i].slice = r.slice
<1>1. CASE r.object_type \in {"OBJECT", "TENSOR"}
  <2>1. StoreEntry(entry, r).shards = <<>>
    BY <1>1 DEF StoreEntry
  <2>2. DOMAIN StoreEntry(entry, r).shards = {}
    BY <2>1
  <2> QED BY <2>2
<1>2. CASE r.object_type = "TENSOR_SLICE"
  <2> DEFINE shard == [slice |-> r.slice, data |-> r.data]
             old == entry.shards
             new == StoreEntry(entry, r).shards
             at == { j \in DOMAIN old :
                       old[j].slice.coordinates = r.slice.coordinates }
  <2>1. old \in Seq(Shard) /\ shard.slice = r.slice
    BY DEF Entry
  <2>2. new = IF at = {} THEN Append(old, shard)
              ELSE [j \in DOMAIN old |-> IF j \in at THEN shard ELSE old[j]]
    BY <1>2 DEF StoreEntry, StoreShard
  <2> HIDE DEF shard, at
  <2>3. CASE at = {}
    <3>1. new = Append(old, shard)
      BY <2>2, <2>3
    <3>2. /\ DOMAIN old = 1..Len(old) /\ DOMAIN new = 1..(Len(old) + 1)
          /\ Len(old) \in Nat
          /\ \A j \in 1..Len(old) : new[j] = old[j]
          /\ new[Len(old) + 1] = shard
      <4> HIDE DEF old, new
      <4>1. DOMAIN old = 1..Len(old) /\ Len(old) \in Nat
        BY <2>1
      <4>2. DOMAIN new = 1..(Len(old) + 1)
        BY <2>1, <3>1
      <4> QED BY <2>1, <3>1, <4>1, <4>2
    <3> QED BY <1>2, <2>1, <3>2
  <2>4. CASE at # {}
    <3>1. new = [j \in DOMAIN old |-> IF j \in at THEN shard ELSE old[j]]
      BY <2>2, <2>4
    <3>2. i \in DOMAIN old
      BY <3>1
    <3>3. new[i] = IF i \in at THEN shard ELSE old[i]
      BY <3>1, <3>2
    <3> QED BY <1>2, <2>1, <3>2, <3>3
  <2> QED BY <2>3, <2>4
<1> QED BY <1>1, <1>2 DEF Request, ObjectType

LEMMA StoreEntryKind ==
  ASSUME NEW entry, NEW r \in Request
  PROVE  StoreEntry(entry, r).type = EntryOf(r.object_type)
BY DEF StoreEntry, StoreShard, EntryOf, Request, ObjectType

LEMMA InitMenu == Init => MenuInv /\ OneKeyDeletes
<1> SUFFICES ASSUME Init PROVE MenuInv /\ OneKeyDeletes
  OBVIOUS
<1>1. BatchesFromMenu /\ IndexFromMenu
  BY DEF Init, ControllerInit, BatchesFromMenu, IndexFromMenu, Indexed
<1>2. StoreFromMenu
  <2>1. ASSUME NEW v \in Volume, NEW k \in Key PROVE store[v][k] = NoEntry
    BY DEF Init, VolumeInit
  <2>2. NoEntry.type = "NONE" /\ NoEntry.shards = <<>> /\ DOMAIN NoEntry.shards = {}
    BY DEF NoEntry
  <2> QED BY <2>1, <2>2 DEF StoreFromMenu, Stored
<1> QED BY <1>1, <1>2, InitIndex DEF MenuInv, IndexInv

LEMMA MenuStep ==
  ASSUME TypeInv, OneKeyDeletes, MenuInv, NEW c \in Client, Acts(c)
  PROVE  MenuInv'
<1>1. TypeOK /\ Home[c] \in Volume
  BY MenuAssumption DEF TypeInv
<1>2. BatchesFromMenu'
  <2> SUFFICES ASSUME NEW d \in Client, pc'[d] \in {"put", "notify"}
               PROVE  reqs'[d] \in PutMenu[d]
    BY DEF BatchesFromMenu
  <2>1. CASE d # c
    BY <1>1, <2>1, OthersRest DEF Rests, MenuInv, BatchesFromMenu
  <2>2. CASE d = c
    <3>1. ASSUME NEW rs \in PutMenu[c], StartPut(c, rs) PROVE reqs'[c] = rs
      BY <1>1, <3>1 DEF StartPut, TypeOK, ClientTypeOK
    <3> QED BY <1>1, <2>2, <3>1, PutCourse DEF MenuInv, BatchesFromMenu
  <2> QED BY <2>1, <2>2
<1>3. ASSUME NEW i \in DOMAIN reqs[c], pc[c] \in {"put", "notify"}
      PROVE  /\ reqs[c][i] \in Request /\ reqs[c][i].key \in Key
             /\ reqs[c][i] \in Menu(reqs[c][i].key)
  BY <1>3, RequestOfMenu DEF MenuInv, BatchesFromMenu
<1>4. IndexFromMenu'
  <2> SUFFICES ASSUME NEW k \in Key, NEW v \in Volume, Indexed(k, v)'
               PROVE  /\ index'[k][v].tensor_slices # {}
                      /\ \A s \in index'[k][v].tensor_slices : \E r \in Menu(k) :
                           /\ r.object_type = index'[k][v].object_type
                           /\ r.slice = s
    BY DEF IndexFromMenu
  <2>1. CASE index'[k][v] = index[k][v]
    BY <2>1 DEF MenuInv, IndexFromMenu, Indexed
  <2>2. CASE index'[k][v] # index[k][v]
    <3>1. index'[k][v] # NoInfo
      BY DEF Indexed
    <3>2. PICK i \in DOMAIN reqs[c] :
            /\ v = Home[c] /\ NotifyPut(c) /\ reqs[c][i].key = k
            /\ NotifyAccepts(reqs[c][i], v)
            /\ index'[k][v] = Merge(index[k][v], reqs[c][i])
      BY <2>2, <3>1, IndexChange
    <3> DEFINE r == reqs[c][i]
    <3>3. r \in Menu(k)
      BY <1>3, <3>2 DEF NotifyPut
    <3>4. /\ index'[k][v].object_type = r.object_type
          /\ index'[k][v].tensor_slices = index[k][v].tensor_slices \cup {r.slice}
      BY <3>2 DEF Merge
    <3>5. CASE Indexed(k, v)
      <4>1. index[k][v].object_type = r.object_type
        BY <3>2, <3>5 DEF NotifyAccepts
      <4>2. \A s \in index[k][v].tensor_slices : \E q \in Menu(k) :
              q.object_type = index[k][v].object_type /\ q.slice = s
        BY <3>5 DEF MenuInv, IndexFromMenu
      <4> HIDE DEF r
      <4> QED BY <3>3, <3>4, <4>1, <4>2
    <3>6. CASE ~Indexed(k, v)
      <4>1. index[k][v].tensor_slices = {}
        BY <3>6 DEF Indexed, NoInfo
      <4> HIDE DEF r
      <4> QED BY <3>3, <3>4, <4>1
    <3> QED BY <3>5, <3>6
  <2> QED BY <2>1, <2>2
<1>5. StoreFromMenu'
  <2> SUFFICES ASSUME NEW v \in Volume, NEW k \in Key
               PROVE  /\ store'[v][k].type # "NONE" =>
                           \E r \in Menu(k) :
                             store'[v][k].type = EntryOf(r.object_type)
                      /\ \A i \in DOMAIN store'[v][k].shards :
                           store'[v][k].shards[i].slice \in SlicesPut(k)
    BY DEF StoreFromMenu, Stored
  <2>1. CASE store'[v][k] = store[v][k]
    BY <2>1 DEF MenuInv, StoreFromMenu, Stored
  <2>2. CASE store'[v][k] = NoEntry
    <3>1. NoEntry.type = "NONE" /\ DOMAIN NoEntry.shards = {}
      BY DEF NoEntry
    <3> QED BY <2>2, <3>1
  <2>3. CASE store'[v][k] # store[v][k] /\ store'[v][k] # NoEntry
    <3>1. PICK j \in DOMAIN reqs[c] :
            /\ pc[c] = "put" /\ reqs[c][j].key = k
            /\ store'[v][k] = StoreEntry(store[v][k], reqs[c][j])
      BY <2>3, StoreChange
    <3> DEFINE r == reqs[c][j]
    <3>2. r \in Menu(k) /\ r \in Request
      BY <1>3, <3>1
    <3>3. store'[v][k] = StoreEntry(store[v][k], r)
      BY <3>1
    <3> HIDE DEF r
    <3>4. store[v][k] \in Entry
      BY <1>1 DEF TypeOK, VolumeTypeOK
    <3>5. \A i \in DOMAIN store[v][k].shards :
            store[v][k].shards[i].slice \in SlicesPut(k)
      BY DEF MenuInv, StoreFromMenu
    <3>6. \A i \in DOMAIN store'[v][k].shards :
            store'[v][k].shards[i].slice \in SlicesPut(k)
      BY <3>2, <3>3, <3>4, <3>5, StoreEntrySlices, SliceOfMenu
    <3> QED BY <3>2, <3>3, <3>6, StoreEntryKind
  <2> QED BY <2>1, <2>2, <2>3
<1> QED BY <1>2, <1>4, <1>5 DEF MenuInv

-----------------------------------------------------------------------------
(* A get that returns brings all that was asked for *)

LEMMA CallsMatchStep ==
  ASSUME TypeInv, CallsMatch, NEW c \in Client, Acts(c)
  PROVE  CallsMatch'
<1>1. TypeOK /\ pc \in [Client -> {"idle", "put", "notify", "fetch", "delete",
                                   "notify_batch", "delete_batch"}]
      /\ DOMAIN call = Client /\ DOMAIN reqs = Client
  BY DEF TypeInv, TypeOK, ClientTypeOK
<1> SUFFICES ASSUME NEW d \in Client
             PROVE  /\ pc'[d] \in {"put", "notify"} =>
                         /\ call'[d].op = "put"
                         /\ call'[d].keys = KeysOf(reqs'[d])
                    /\ pc'[d] = "fetch" => call'[d].op = "get"
                    /\ pc'[d] = "delete" => call'[d].op = "delete"
                    /\ pc'[d] \in {"notify_batch", "delete_batch"} =>
                         call'[d].op = "delete_batch"
  BY DEF CallsMatch, KeysOf
<1>2. CASE d # c
  BY <1>1, <1>2, OthersRest DEF Rests, CallsMatch
<1>3. CASE d = c /\ Puts(c)
  BY <1>1, <1>3 DEF Puts, StartPut, VolumePut, NotifyPut, Begin, Goto, Return,
                    CallsMatch
<1>4. CASE d = c /\ Reads(c)
  <2>1. \/ pc'[c] = "idle"
        \/ pc'[c] = "fetch" /\ \E wants \in GetMenu : StartGet(c, wants)
        \/ pc'[c] = "fetch" /\ pc[c] = "fetch" /\ call' = call
    BY <1>1, <1>4 DEF Reads, StartGet, VolumeGet, Exists, Goto, Return
  <2>2. ASSUME NEW wants \in GetMenu, StartGet(c, wants) PROVE call'[c].op = "get"
    BY <1>1, <2>2 DEF StartGet, Begin
  <2> QED BY <1>4, <2>1, <2>2 DEF CallsMatch
<1>5. CASE d = c /\ Deletes(c)
  <2>1. ASSUME NEW k \in DeleteMenu, StartDelete(c, k)
        PROVE  /\ pc'[c] \in {"idle", "delete"}
               /\ call'[c].op = "delete"
    BY <1>1, <2>1 DEF StartDelete, Begin, Goto, Return
  <2>2. ASSUME NEW keys \in BatchMenu, StartDeleteBatch(c, keys)
        PROVE  /\ pc'[c] \in {"idle", "notify_batch"}
               /\ call'[c].op = "delete_batch"
    BY <1>1, <2>2 DEF StartDeleteBatch, Begin, Goto, Return
  <2>3. CASE NotifyDeleteKeys(c)
    BY <1>1, <1>5, <2>3 DEF NotifyDeleteKeys, Goto, CallsMatch
  <2>4. CASE \E v \in Volume : \/ NotifyDeleteFrom(c, v) \/ VolumeDelete(c, v)
                              \/ VolumeDeleteBatch(c, v) \/ BranchFails(c, v)
    <3>1. pc'[c] \in {"idle", pc[c]} /\ UNCHANGED <<call, reqs>>
      BY <1>1, <2>4 DEF NotifyDeleteFrom, VolumeDelete, VolumeDeleteBatch,
                        BranchFails, BranchEnds, BranchRaises, Return
    <3> QED BY <1>5, <3>1 DEF CallsMatch
  <2> QED BY <1>5, <2>1, <2>2, <2>3, <2>4 DEF Deletes
<1>6. CASE d = c /\ CallFails(c)
  BY <1>1, <1>6 DEF CallFails, Return
<1> QED BY <1>2, <1>3, <1>4, <1>5, <1>6 DEF Acts

(* A newly indexed volume comes last, and a forgotten one leaves no trace. *)
LEMMA InsertionStep ==
  ASSUME TypeInv, OneKeyDeletes, InsertionOrder, NEW c \in Client, Acts(c)
  PROVE  InsertionOrder'
<1>1. ControllerTypeOK /\ ClientTypeOK /\ Home[c] \in Volume
  BY MenuAssumption DEF TypeInv, TypeOK
<1> SUFFICES ASSUME NEW k \in Key
             PROVE  /\ older'[k] \subseteq Holders(k)' \X Holders(k)'
                    /\ \A S \in SUBSET Holders(k)' : S # {} =>
                         \E v \in S : \A u \in S : <<u, v>> \notin older'[k]
  BY DEF InsertionOrder
<1>2. /\ older[k] \subseteq Holders(k) \X Holders(k)
      /\ \A S \in SUBSET Holders(k) : S # {} =>
           \E v \in S : \A u \in S : <<u, v>> \notin older[k]
  BY DEF InsertionOrder
<1>3. CASE UNCHANGED controllerVars
  <2>1. older' = older /\ Holders(k)' = Holders(k)
    BY <1>3 DEF controllerVars, Holders, Indexed
  <2> QED BY <1>2, <2>1
<1>4. CASE NotifyPut(c)
  <2> DEFINE v == Home[c]
  <2>1. IsBatch(reqs[c]) /\ NotifyPutBatch(reqs[c], v)
    BY <1>4 DEF NotifyPut, TypeInv, BatchInFlight
  <2>2. Holders(k) \subseteq Holders(k)' /\ Holders(k)' \subseteq Holders(k) \cup {v}
    <3>1. ASSUME NEW w \in Volume, Indexed(k, w) PROVE Indexed(k, w)'
      <4>1. \/ index'[k][w] = index[k][w]
            \/ \E i \in DOMAIN reqs[c] :
                 reqs[c][i] \in Request /\ index'[k][w] = Merge(index[k][w], reqs[c][i])
        BY <1>1, <2>1, NotifyPutEffect, ToRequest
      <4>2. ASSUME NEW r \in Request PROVE Merge(index[k][w], r) # NoInfo
        <5>1. r.object_type # "NONE"
          BY DEF Request, ObjectType
        <5> QED BY <5>1 DEF Merge, NoInfo
      <4> QED BY <3>1, <4>1, <4>2 DEF Indexed
    <3>2. ASSUME NEW w \in Volume, Indexed(k, w)', w # v PROVE Indexed(k, w)
      BY <1>1, <2>1, <3>2, NotifyPutEffect DEF Indexed
    <3> QED BY <3>1, <3>2 DEF Holders
  <2>3. \/ older'[k] = older[k]
        \/ /\ v \notin Holders(k) /\ v \in Holders(k)'
           /\ older'[k] = older[k] \cup { <<u, v>> : u \in Holders(k) }
    <3> DEFINE Hit == \E r \in Notified(reqs[c], v) : r.key = k
    <3>1. older'[k] = IF Hit /\ ~Indexed(k, v)
                      THEN older[k] \cup { <<u, v>> : u \in Holders(k) }
                      ELSE older[k]
      BY <2>1 DEF NotifyPutBatch
    <3>2. CASE Hit /\ ~Indexed(k, v)
      <4>1. index'[k][v].object_type # "NONE"
        <5> DEFINE r == CHOOSE q \in Notified(reqs[c], v) : q.key = k
        <5>1. index'[k] = [index[k] EXCEPT ![v] = Merge(@, r)]
          BY <2>1, <3>2 DEF NotifyPutBatch
        <5>2. r \in Notified(reqs[c], v)
          BY <3>2
        <5>3. r \in Request
          BY <2>1, <5>2, ToRequest DEF Notified
        <5> HIDE DEF r
        <5>4. index'[k][v] = Merge(index[k][v], r)
          BY <1>1, <5>1 DEF ControllerTypeOK
        <5> QED BY <5>3, <5>4 DEF Merge, Request, ObjectType
      <4> QED BY <1>1, <3>1, <3>2, <4>1 DEF Holders, Indexed, NoInfo
    <3> QED BY <3>1, <3>2
  <2> HIDE DEF v
  <2>4. ASSUME NEW S \in SUBSET Holders(k)', S # {}
        PROVE  \E w \in S : \A u \in S : <<u, w>> \notin older'[k]
    <3>1. CASE S \subseteq {v} /\ older'[k] # older[k]
      <4>1. <<v, v>> \notin older'[k]
        BY <1>2, <2>3, <3>1
      <4> QED BY <2>4, <3>1, <4>1
    <3>2. CASE ~(S \subseteq {v}) /\ older'[k] # older[k]
      <4> DEFINE T == S \ {v}
      <4>1. T \in SUBSET Holders(k) /\ T # {}
        BY <2>2, <3>2
      <4>2. PICK w \in T : \A u \in T : <<u, w>> \notin older[k]
        BY <1>2, <4>1
      <4>3. <<v, w>> \notin older[k]
        BY <1>2, <2>3, <3>2
      <4>4. \A u \in S : <<u, w>> \notin older'[k]
        BY <2>3, <3>2, <4>2, <4>3
      <4> QED BY <4>2, <4>4
    <3>3. CASE older'[k] = older[k]
      <4>1. CASE S \subseteq Holders(k)
        BY <1>2, <2>4, <3>3, <4>1
      <4>2. CASE ~(S \subseteq Holders(k)) /\ S \ {v} = {}
        <5>1. v \notin Holders(k) /\ S = {v}
          BY <2>2, <2>4, <4>2
        <5>2. <<v, v>> \notin older'[k]
          BY <1>2, <3>3, <5>1
        <5> QED BY <5>1, <5>2
      <4>3. CASE ~(S \subseteq Holders(k)) /\ S \ {v} # {}
        <5>1. v \notin Holders(k) /\ S \ {v} \subseteq Holders(k)
          BY <2>2, <2>4, <4>3
        <5>2. PICK w \in S \ {v} : \A u \in S \ {v} : <<u, w>> \notin older[k]
          BY <1>2, <4>3, <5>1
        <5>3. <<v, w>> \notin older[k]
          BY <1>2, <5>1
        <5> QED BY <3>3, <5>2, <5>3
      <4> QED BY <4>1, <4>2, <4>3
    <3> QED BY <3>1, <3>2, <3>3
  <2>5. older'[k] \subseteq Holders(k)' \X Holders(k)'
    BY <1>2, <2>2, <2>3
  <2> QED BY <2>4, <2>5
<1>5. ASSUME NEW gone \in SUBSET Volume,
             \A v \in Volume : index'[k][v] = IF v \in gone THEN NoInfo ELSE index[k][v],
             older'[k] = { p \in older[k] : p[1] \notin gone /\ p[2] \notin gone }
      PROVE  /\ older'[k] \subseteq Holders(k)' \X Holders(k)'
             /\ \A S \in SUBSET Holders(k)' : S # {} =>
                  \E v \in S : \A u \in S : <<u, v>> \notin older'[k]
  <2>1. Holders(k)' = Holders(k) \ gone
    BY <1>5 DEF Holders, Indexed
  <2>2. older'[k] \subseteq Holders(k)' \X Holders(k)'
    BY <1>2, <1>5, <2>1
  <2> QED BY <1>2, <1>5, <2>1, <2>2
<1>6. CASE NotifyDeleteKeys(c)
  <2> DEFINE gone == { v \in Volume : k \in branch[c][v].keys }
             keysAt == [v \in Volume |-> branch[c][v].keys]
  <2>1. NotifyDeleteBatch(keysAt)
    BY <1>6 DEF NotifyDeleteKeys
  <2>2. \A v \in Volume : index'[k][v] = IF v \in gone THEN NoInfo ELSE index[k][v]
    BY <2>1 DEF NotifyDeleteBatch
  <2>3. older'[k] = { p \in older[k] : p[1] \notin gone /\ p[2] \notin gone }
    <3>1. older'[k] = { p \in older[k] : k \notin keysAt[p[1]] /\ k \notin keysAt[p[2]] }
      BY <2>1 DEF NotifyDeleteBatch
    <3>2. \A p \in older[k] : p[1] \in Volume /\ p[2] \in Volume
      BY <1>1 DEF ControllerTypeOK
    <3> QED BY <3>1, <3>2
  <2> HIDE DEF gone, keysAt
  <2>4. gone \in SUBSET Volume
    BY DEF gone
  <2> QED BY <1>5, <2>2, <2>3, <2>4
<1>7. ASSUME NEW v \in Volume, NotifyDelete(DeletedKey(c, v), v)
      PROVE  /\ older'[k] \subseteq Holders(k)' \X Holders(k)'
             /\ \A S \in SUBSET Holders(k)' : S # {} =>
                  \E w \in S : \A u \in S : <<u, w>> \notin older'[k]
  <2> DEFINE x == DeletedKey(c, v)
             gone == IF k = x THEN {v} ELSE {}
  <2>1. /\ index' = [index EXCEPT ![x][v] = NoInfo]
        /\ older' = [older EXCEPT ![x] = { p \in @ : p[1] # v /\ p[2] # v }]
    BY <1>7 DEF NotifyDelete
  <2> HIDE DEF x
  <2>2. \A w \in Volume : index'[k][w] = IF w \in gone THEN NoInfo ELSE index[k][w]
    BY <1>1, <2>1 DEF ControllerTypeOK
  <2>3. older'[k] = { p \in older[k] : p[1] \notin gone /\ p[2] \notin gone }
    <3>1. CASE k = x
      BY <1>1, <2>1, <3>1 DEF ControllerTypeOK
    <3>2. CASE k # x
      <4>1. older'[k] = older[k]
        BY <1>1, <2>1, <3>2 DEF ControllerTypeOK
      <4> QED BY <3>2, <4>1
    <3> QED BY <3>1, <3>2
  <2> QED BY <1>5, <2>2, <2>3
<1> QED BY <1>3, <1>4, <1>6, <1>7, IndexSteps

LEMMA FirstWholeExists ==
  ASSUME InsertionOrder, NEW k \in Key, HasWhole(k)
  PROVE  \E v \in Volume : IsFirstWhole(k, v)
<1> DEFINE S == { v \in Holders(k) : ~IsSliced(k, v) }
<1>1. S \in SUBSET Holders(k) /\ S # {}
  BY DEF HasWhole
<1>2. PICK v \in S : \A u \in S : <<u, v>> \notin older[k]
  BY <1>1 DEF InsertionOrder
<1>3. IsFirstWhole(k, v) /\ v \in Volume
  BY <1>2 DEF IsFirstWhole, Older, Holders
<1> QED BY <1>3

(* The only two reasons for which locate takes a key for committed. *)
LEMMA LocateSucceeds ==
  ASSUME NEW k, Locate(k, TRUE) = "ok"
  PROVE  /\ Holders(k) # {}
         /\ \/ HasWhole(k)
            \/ { s.mesh_shape : s \in VisitedSlices(k) }
                 = {{ s.coordinates : s \in VisitedSlices(k) }}
<1>1. Holders(k) # {}
  BY DEF Locate
<1>2. CommitState(k) = "committed"
  <2>1. CommitState(k) \in {"committed", "partial", "inconsistent"}
    BY DEF CommitState
  <2> QED BY <1>1, <2>1 DEF Locate
<1> QED BY <1>1, <1>2 DEF CommitState

(* The slices that locate collects are slices that were put. *)
LEMMA VisitedSlicesPut ==
  ASSUME IndexFromMenu, NEW k \in Key
  PROVE  VisitedSlices(k) \subseteq SlicesPut(k)
<1> SUFFICES ASSUME NEW s \in VisitedSlices(k) PROVE s \in SlicesPut(k)
  OBVIOUS
<1>1. PICK v \in Visited(k) : s \in index[k][v].tensor_slices
  BY DEF VisitedSlices
<1>2. v \in Volume /\ Indexed(k, v) /\ IsSliced(k, v)
  BY <1>1 DEF Visited, Holders
<1>3. PICK r \in Menu(k) : r.object_type = "TENSOR_SLICE" /\ r.slice = s
  BY <1>1, <1>2 DEF IndexFromMenu, IsSliced
<1> QED BY <1>3, SliceOfMenu

(* The sub-requests for a located key bring every cell that is wanted. *)
LEMMA PlanCovers ==
  ASSUME ShardingsCover, IndexFromMenu, InsertionOrder,
         NEW k \in Key, NEW want \in Want, Locate(k, TRUE) = "ok",
         NEW cell \in want.region
  PROVE  \E v \in Volume : \E sub \in SubRequests(k, v, want) :
           sub.key = k /\ cell \in sub.region
<1>1. want.region \subseteq Cell
  BY DEF Want
<1>2. CASE HasWhole(k)
  <2>1. PICK v \in Volume : IsFirstWhole(k, v)
    BY <1>2, FirstWholeExists
  <2> DEFINE object == [key |-> k, sliced |-> FALSE, region |-> Cell]
             tensor == [key |-> k, sliced |-> want.sliced, region |-> want.region]
  <2>2. v \notin Visited(k)
    BY <2>1 DEF IsFirstWhole, Visited
  <2>3. SubRequests(k, v, want) =
          { IF index[k][v].object_type = "OBJECT" THEN object ELSE tensor }
    BY <2>1, <2>2 DEF SubRequests
  <2>4. object.key = k /\ tensor.key = k /\ cell \in object.region /\ cell \in tensor.region
    BY <1>1
  <2> HIDE DEF object, tensor
  <2> QED BY <2>3, <2>4
<1>3. CASE ~HasWhole(k)
  <2> DEFINE S == VisitedSlices(k)
             coords == { t.coordinates : t \in S }
  <2>1. { s.mesh_shape : s \in S } = {coords}
    BY <1>3, LocateSucceeds
  <2>3. S \in SUBSET SlicesPut(k)
    BY VisitedSlicesPut
  <2>4. S # {}
    BY <2>1
  <2>5. \A s \in S : s.mesh_shape = coords
    BY <2>1
  <2> HIDE DEF S
  <2>6. Cell \subseteq UNION { s.region : s \in S }
    BY <2>3, <2>4, <2>5 DEF ShardingsCover
  <2>7. PICK s \in S : cell \in s.region
    BY <1>1, <2>6
  <2>8. PICK v \in Visited(k) : s \in index[k][v].tensor_slices
    BY <2>7 DEF S, VisitedSlices
  <2> DEFINE sub == [key |-> k, sliced |-> TRUE, region |-> s.region \cap want.region]
  <2>9. v \in Volume /\ IsSliced(k, v) /\ ~IsFirstWhole(k, v)
    BY <2>8 DEF Visited, Holders, IsFirstWhole
  <2>10. sub \in SubRequests(k, v, want)
    <3>1. s \in { t \in index[k][v].tensor_slices : t.region \cap want.region # {} }
      BY <2>7, <2>8
    <3> QED BY <2>8, <2>9, <3>1 DEF SubRequests
  <2>11. sub.key = k /\ cell \in sub.region
    BY <2>7
  <2> QED BY <2>9, <2>10, <2>11
<1> QED BY <1>2, <1>3

LEMMA WantsAre ==
  ASSUME NEW wants \in GetMenu, NEW k \in DOMAIN wants
  PROVE  k \in Key /\ wants[k] \in Want
<1>1. PICK keys \in SUBSET Key : wants \in [keys -> Want]
  BY MenuAssumption DEF Wants
<1> QED BY <1>1

(* Every key of a get is covered when the get is planned. *)
LEMMA StartGetCovers ==
  ASSUME ShardingsCover, TypeInv, IndexFromMenu, InsertionOrder,
         NEW c \in Client, NEW wants \in GetMenu, StartGet(c, wants),
         pc'[c] = "fetch"
  PROVE  \A k \in call'[c].keys :
           call'[c].wants[k].region \subseteq Fetched(c, k)' \cup Unfetched(c, k)'
<1>1. ClientTypeOK
  BY DEF TypeInv, TypeOK
<1>2. \A k \in DOMAIN wants : Locate(k, TRUE) = "ok"
  BY <1>1 DEF StartGet, Return, ClientTypeOK
<1>3. /\ call'[c].keys = DOMAIN wants /\ call'[c].wants = wants
  BY <1>1 DEF StartGet, Begin, ClientTypeOK
<1>4. fetch' = [fetch EXCEPT ![c] = FetchPlan(wants)]
  BY <1>1, <1>2 DEF StartGet, Return, ClientTypeOK
<1>5. fetch'[c] = FetchPlan(wants)
  BY <1>1, <1>4 DEF ClientTypeOK
<1> SUFFICES ASSUME NEW k \in DOMAIN wants, NEW cell \in wants[k].region
             PROVE  cell \in Unfetched(c, k)'
  BY <1>3
<1>6. k \in Key /\ wants[k] \in Want
  BY WantsAre
<1>7. PICK v \in Volume : \E sub \in SubRequests(k, v, wants[k]) :
        sub.key = k /\ cell \in sub.region
  BY <1>2, <1>6, PlanCovers
<1>8. PICK sub \in SubRequests(k, v, wants[k]) : sub.key = k /\ cell \in sub.region
  BY <1>7
<1>9. sub \in fetch'[c][v]
  BY <1>5, <1>8 DEF FetchPlan
<1> QED BY <1>8, <1>9 DEF Unfetched

(* What is no longer to be fetched has been fetched. *)
LEMMA VolumeGetCovers ==
  ASSUME TypeInv, CallsMatch, FetchCovers, NEW c \in Client, NEW v \in Volume,
         NEW subs \in SUBSET fetch[c][v], VolumeGet(c, v, subs),
         pc'[c] = "fetch" \/ outcome'[c] = "ok"
  PROVE  /\ call' = call
         /\ \A k \in call[c].keys :
              call[c].wants[k].region \subseteq Fetched(c, k)' \cup Unfetched(c, k)'
         /\ pc'[c] # "fetch" => fetch'[c] = NoFetch
<1> DEFINE got == parts[c] \cup { GetPart(v, sub) : sub \in subs }
           rest == [fetch[c] EXCEPT ![v] = fetch[c][v] \ subs]
<1>1. ClientTypeOK /\ pc[c] = "fetch" /\ call' = call
  BY DEF VolumeGet, TypeInv, TypeOK
<1>2. \A sub \in subs : GetOutcome(v, sub) = "ok"
  BY <1>1 DEF VolumeGet, Return, ClientTypeOK
<1>3. /\ parts' = [parts EXCEPT ![c] = got]
      /\ fetch' = [fetch EXCEPT ![c] = rest]
      /\ IF rest = NoFetch THEN Return(c, Assembled(c, got)) ELSE Goto(c, "fetch")
  BY <1>2 DEF VolumeGet
<1>4. /\ parts'[c] = got /\ fetch'[c] = rest
      /\ rest # NoFetch => pc'[c] = "fetch"
  BY <1>1, <1>3 DEF ClientTypeOK, Goto
<1>5. ASSUME NEW k \in call[c].keys, NEW cell \in call[c].wants[k].region
      PROVE  cell \in Fetched(c, k)' \cup Unfetched(c, k)'
  <2>1. cell \in Fetched(c, k) \cup Unfetched(c, k)
    BY <1>1, <1>5 DEF FetchCovers
  <2>2. CASE cell \in Fetched(c, k)
    <3>1. PICK p \in parts[c] : p.key = k /\ cell \in p.region
      BY <2>2 DEF Fetched
    <3>2. p \in parts'[c]
      BY <1>4, <3>1
    <3> QED BY <3>1, <3>2 DEF Fetched
  <2>3. CASE cell \in Unfetched(c, k)
    <3>1. PICK w \in Volume : \E x \in fetch[c][w] : x.key = k /\ cell \in x.region
      BY <2>3 DEF Unfetched
    <3>2. PICK x \in fetch[c][w] : x.key = k /\ cell \in x.region
      BY <3>1
    <3>3. CASE x \in subs /\ w = v
      <4>1. GetPart(v, x) \in parts'[c]
        BY <1>4, <3>3
      <4>2. GetPart(v, x).key = k /\ GetPart(v, x).region = x.region
        BY <3>2 DEF GetPart
      <4> QED BY <3>2, <4>1, <4>2 DEF Fetched
    <3>4. CASE ~(x \in subs /\ w = v)
      <4>1. x \in rest[w]
        BY <1>1, <3>2, <3>4 DEF ClientTypeOK
      <4> QED BY <1>4, <3>2, <4>1 DEF Unfetched
    <3> QED BY <3>3, <3>4
  <2> QED BY <2>1, <2>2, <2>3
<1> QED BY <1>1, <1>4, <1>5

LEMMA ReadStep ==
  ASSUME ShardingsCover, TypeInv, OneKeyDeletes, MenuInv, CallsMatch,
         InsertionOrder, FetchCovers, GetIsComplete,
         NEW c \in Client, Acts(c)
  PROVE  FetchCovers' /\ GetIsComplete'
<1>1. ClientTypeOK /\ TypeOK
  BY DEF TypeInv, TypeOK
<1> SUFFICES ASSUME NEW d \in Client
             PROVE  /\ pc'[d] = "fetch" => \A k \in call'[d].keys :
                         call'[d].wants[k].region
                           \subseteq Fetched(d, k)' \cup Unfetched(d, k)'
                    /\ call'[d].op = "get" /\ outcome'[d] = "ok" =>
                         \A k \in call'[d].keys :
                           call'[d].wants[k].region \subseteq Fetched(d, k)'
  BY DEF FetchCovers, GetIsComplete, Fetched
<1>2. \A k : Unfetched(d, k)' # {} => \E v \in Volume : fetch'[d][v] # {}
  BY DEF Unfetched
<1>3. \A e \in Client : call[e].op = "get" /\ outcome[e] = "ok" =>
        \A k \in call[e].keys : call[e].wants[k].region \subseteq Fetched(e, k)
  BY DEF GetIsComplete, Fetched
<1>4. CASE d # c
  <2>1. Rests(d)
    BY <1>1, <1>4, OthersRest
  <2>2. \A k : Fetched(d, k)' = Fetched(d, k) /\ Unfetched(d, k)' = Unfetched(d, k)
    BY <2>1 DEF Rests, Fetched, Unfetched
  <2> QED BY <1>3, <2>1, <2>2 DEF Rests, FetchCovers
<1>5. CASE d = c /\ \E wants \in GetMenu : StartGet(c, wants)
  <2>1. PICK wants \in GetMenu : StartGet(c, wants)
    BY <1>5
  <2>2. outcome'[c] # "ok"
    BY <1>1, <2>1 DEF StartGet, Goto, Return, ClientTypeOK
  <2> QED BY <1>5, <2>1, <2>2, StartGetCovers DEF MenuInv
<1>6. CASE d = c /\ \E v \in Volume : \E subs \in SUBSET fetch[c][v] : VolumeGet(c, v, subs)
  <2>1. PICK v \in Volume : \E subs \in SUBSET fetch[c][v] : VolumeGet(c, v, subs)
    BY <1>6
  <2>2. PICK subs \in SUBSET fetch[c][v] : VolumeGet(c, v, subs)
    BY <2>1
  <2>3. outcome'[c] = "ok" => pc'[c] # "fetch"
    BY <1>1, <2>2 DEF VolumeGet, Goto, Return, ClientTypeOK
  <2>4. fetch'[c] = NoFetch => \A k : Unfetched(c, k)' = {}
    BY DEF NoFetch, Unfetched
  <2>5. ASSUME pc'[c] = "fetch" \/ outcome'[c] = "ok"
        PROVE  /\ call' = call
               /\ \A k \in call[c].keys : call[c].wants[k].region
                    \subseteq Fetched(c, k)' \cup Unfetched(c, k)'
               /\ pc'[c] # "fetch" => fetch'[c] = NoFetch
    BY <2>2, <2>5, VolumeGetCovers
  <2> QED BY <1>6, <2>3, <2>4, <2>5
<1>7. CASE d = c /\ ~(\E wants \in GetMenu : StartGet(c, wants))
           /\ ~(\E v \in Volume : \E subs \in SUBSET fetch[c][v] : VolumeGet(c, v, subs))
  <2>1. pc'[c] # "fetch" \/ (pc[c] = "fetch" /\ UNCHANGED <<call, parts, fetch>>)
    <3>1. CASE Puts(c)
      BY <1>1, <3>1 DEF Puts, StartPut, VolumePut, NotifyPut, Goto, Return, ClientTypeOK
    <3>2. CASE Reads(c)
      BY <1>1, <1>7, <3>2 DEF Reads, Exists, Return, ClientTypeOK
    <3>3. CASE \E v \in Volume : \/ NotifyDeleteFrom(c, v) \/ VolumeDelete(c, v)
                                \/ VolumeDeleteBatch(c, v) \/ BranchFails(c, v)
      BY <1>1, <3>3 DEF NotifyDeleteFrom, VolumeDelete, VolumeDeleteBatch,
                        BranchFails, BranchEnds, BranchRaises, Return, ClientTypeOK
    <3>4. CASE \/ \E k \in DeleteMenu : StartDelete(c, k)
               \/ \E keys \in BatchMenu : StartDeleteBatch(c, keys)
               \/ NotifyDeleteKeys(c)
      <4>1. \E to \in {"idle", "delete", "notify_batch", "delete_batch"} :
              pc' = [pc EXCEPT ![c] = to]
        BY <3>4 DEF StartDelete, StartDeleteBatch, NotifyDeleteKeys, Goto, Return
      <4> QED BY <1>1, <4>1 DEF ClientTypeOK
    <3>5. CASE CallFails(c)
      BY <1>1, <3>5 DEF CallFails, Return, ClientTypeOK
    <3> QED BY <3>1, <3>2, <3>3, <3>4, <3>5 DEF Acts, Deletes
  <2>2. \/ call'[c].op # "get" \/ outcome'[c] # "ok"
        \/ UNCHANGED <<call, outcome, parts>>
    <3>1. CASE Puts(c)
      <4>1. \/ \E rs \in PutMenu[c] : StartPut(c, rs)
            \/ pc[c] \in {"put", "notify"} /\ UNCHANGED call
        BY <3>1 DEF Puts, VolumePut, NotifyPut
      <4>2. ASSUME NEW rs \in PutMenu[c], StartPut(c, rs) PROVE call'[c].op = "put"
        BY <1>1, <4>2 DEF StartPut, Begin, ClientTypeOK
      <4> QED BY <4>1, <4>2 DEF CallsMatch
    <3>2. CASE Reads(c)
      <4>1. PICK k \in Key : Exists(c, k)
        BY <1>7, <3>2 DEF Reads
      <4>2. call' = [call EXCEPT ![c] = [op |-> "exists", keys |-> {k}, wants |-> <<>>]]
        BY <4>1 DEF Exists, Begin
      <4> QED BY <1>1, <4>2 DEF ClientTypeOK
    <3>3. CASE \E v \in Volume : \/ NotifyDeleteFrom(c, v) \/ VolumeDelete(c, v)
                                \/ VolumeDeleteBatch(c, v) \/ BranchFails(c, v)
      <4>1. UNCHANGED <<call, parts>>
        BY <3>3 DEF NotifyDeleteFrom, VolumeDelete, VolumeDeleteBatch, BranchFails
      <4>2. outcome' = outcome \/ pc[c] \in {"delete", "delete_batch"}
        BY <3>3 DEF NotifyDeleteFrom, VolumeDelete, VolumeDeleteBatch, BranchFails,
                    BranchEnds, BranchRaises
      <4> QED BY <4>1, <4>2 DEF CallsMatch
    <3>4. ASSUME \/ \E k \in DeleteMenu : StartDelete(c, k)
                 \/ \E keys \in BatchMenu : StartDeleteBatch(c, keys)
          PROVE  call'[c].op # "get"
      <4>1. \E op \in {"delete", "delete_batch"} : \E keys :
              call' = [call EXCEPT ![c] = [op |-> op, keys |-> keys, wants |-> <<>>]]
        BY <3>4 DEF StartDelete, StartDeleteBatch, Begin
      <4> QED BY <1>1, <4>1 DEF ClientTypeOK
    <3>5. CASE NotifyDeleteKeys(c)
      BY <1>1, <3>5 DEF NotifyDeleteKeys, Goto, ClientTypeOK
    <3>6. CASE CallFails(c)
      BY <1>1, <3>6 DEF CallFails, Return, ClientTypeOK
    <3> QED BY <3>1, <3>2, <3>3, <3>4, <3>5, <3>6 DEF Acts, Deletes
  <2>3. parts' = parts => \A k : Fetched(c, k)' = Fetched(c, k)
    BY DEF Fetched
  <2>4. fetch' = fetch => \A k : Unfetched(c, k)' = Unfetched(c, k)
    BY DEF Unfetched
  <2> QED BY <1>3, <1>7, <2>1, <2>2, <2>3, <2>4 DEF FetchCovers
<1> QED BY <1>4, <1>5, <1>6, <1>7

LEMMA InitCall == Init => CallInv
<1> SUFFICES ASSUME Init PROVE CallInv
  OBVIOUS
<1>1. CallsMatch
  BY DEF Init, CallsMatch
<1>2. InsertionOrder
  <2>1. \A k \in Key : Holders(k) = {} /\ older[k] = {}
    BY DEF Init, ControllerInit, Holders, Indexed
  <2> QED BY <2>1 DEF InsertionOrder
<1> QED BY <1>1, <1>2, InitType, InitMenu DEF CallInv

LEMMA NextCall == CallInv /\ [Next]_vars => CallInv'
<1> SUFFICES ASSUME CallInv, [Next]_vars PROVE CallInv'
  OBVIOUS
<1>1. TypeInv'
  BY NextType DEF CallInv
<1>2. CASE UNCHANGED vars
  <2>1. UNCHANGED <<index, older, store, pc, call, reqs, branch>>
    BY <1>2 DEF vars, controllerVars, clientVars
  <2>2. MenuInv'
    BY <2>1 DEF CallInv, MenuInv, BatchesFromMenu, IndexFromMenu, StoreFromMenu,
                Indexed, Stored
  <2>3. CallsMatch' /\ OneKeyDeletes'
    BY <2>1 DEF CallInv, CallsMatch, KeysOf, OneKeyDeletes
  <2>4. InsertionOrder'
    <3>1. \A k : Holders(k)' = Holders(k)
      BY <2>1 DEF Holders, Indexed
    <3> QED BY <2>1, <3>1 DEF CallInv, InsertionOrder
  <2> QED BY <1>1, <2>2, <2>3, <2>4 DEF CallInv
<1>3. ASSUME NEW c \in Client, Acts(c) PROVE CallInv'
  BY <1>1, <1>3, OneKeyStep, MenuStep, CallsMatchStep, InsertionStep
  DEF CallInv, TypeInv
<1> QED BY <1>2, <1>3, NextIsOneAct

LEMMA InitRead == Init => ReadInv
<1> SUFFICES ASSUME Init PROVE FetchCovers /\ GetIsComplete
  BY InitCall DEF ReadInv
<1> QED BY DEF Init, NoCall, FetchCovers, GetIsComplete

LEMMA NextRead ==
  ASSUME ShardingsCover
  PROVE  ReadInv /\ [Next]_vars => ReadInv'
<1> SUFFICES ASSUME ReadInv, [Next]_vars PROVE ReadInv'
  OBVIOUS
<1>1. CallInv'
  BY NextCall DEF ReadInv
<1>2. CASE UNCHANGED vars
  <2>1. UNCHANGED <<pc, call, outcome, fetch, parts>>
    BY <1>2 DEF vars, clientVars
  <2>2. FetchCovers' /\ GetIsComplete'
    BY <2>1 DEF ReadInv, FetchCovers, Fetched, Unfetched, GetIsComplete
  <2> QED BY <1>1, <2>2 DEF ReadInv
<1>3. ASSUME NEW c \in Client, Acts(c) PROVE ReadInv'
  BY <1>1, <1>3, ReadStep DEF ReadInv, CallInv
<1> QED BY <1>2, <1>3, NextIsOneAct

(***************************************************************************)
(* A get that returns brings every cell it was asked for, whatever fails   *)
(* and whatever callers do at the same time, as long as the slices put     *)
(* under a key leave no hole when they fill the mesh they name: locate     *)
(* only counts coordinates, and it is the callers' shardings that turn all *)
(* coordinates into all cells.                                             *)
(***************************************************************************)
THEOREM GetBringsAll ==
  ASSUME ShardingsCover
  PROVE  Spec => []GetIsComplete
<1>1. ReadInv => GetIsComplete
  BY DEF ReadInv
<1> QED BY <1>1, InitRead, NextRead, PTL DEF Spec

-----------------------------------------------------------------------------
(* A key that readers can locate stays locatable *)

LEMMA OneMeshVisited ==
  ASSUME OneMesh, IndexFromMenu, NEW k \in Key
  PROVE  /\ Cardinality({ s.mesh_shape : s \in VisitedSlices(k) }) \in {0, 1}
         /\ \A s, t \in VisitedSlices(k) : s.mesh_shape = t.mesh_shape
         /\ \A s \in VisitedSlices(k) : s.coordinates \in s.mesh_shape
<1> DEFINE S == VisitedSlices(k)
           expected == { s.mesh_shape : s \in S }
<1>1. S \subseteq SlicesPut(k)
  BY VisitedSlicesPut
<1>2. \A s, t \in S : s.mesh_shape = t.mesh_shape
  BY <1>1 DEF OneMesh
<1>3. \A s \in S : s.coordinates \in s.mesh_shape
  BY <1>1, SliceAssumption DEF SlicesPut
<1> HIDE DEF S
<1>4. CASE S = {}
  <2>1. expected = {}
    BY <1>4
  <2>2. Cardinality(expected) = 0
    BY <2>1, FS_EmptySet
  <2> QED BY <1>2, <1>3, <2>2 DEF S
<1>5. CASE S # {}
  <2>1. PICK m : expected = {m}
    <3>1. PICK s \in S : TRUE
      BY <1>5
    <3>2. expected = {s.mesh_shape}
      BY <1>2, <3>1
    <3> QED BY <3>2
  <2>2. Cardinality(expected) = 1
    BY <2>1, FS_Singleton
  <2> QED BY <1>2, <1>3, <2>2 DEF S
<1> QED BY <1>4, <1>5

LEMMA OneMeshLocates ==
  ASSUME OneMesh, IndexFromMenu, NEW k \in Key
  PROVE  /\ Locate(k, TRUE) # "AssertionError"
         /\ Holders(k) # {} /\ HasWhole(k) => Locate(k, TRUE) = "ok"
         /\ Holders(k) # {} /\ { s.mesh_shape : s \in VisitedSlices(k) }
                                 = {{ s.coordinates : s \in VisitedSlices(k) }}
              => Locate(k, TRUE) = "ok"
<1>1. ~(Cardinality({ s.mesh_shape : s \in VisitedSlices(k) }) > 1)
  BY OneMeshVisited
<1>2. CommitState(k) \in {"committed", "partial"}
  BY <1>1 DEF CommitState
<1>3. Locate(k, TRUE) # "AssertionError"
  BY <1>2 DEF Locate
<1>4. ASSUME HasWhole(k) PROVE CommitState(k) = "committed"
  BY <1>1, <1>4 DEF CommitState
<1>5. ASSUME { s.mesh_shape : s \in VisitedSlices(k) }
               = {{ s.coordinates : s \in VisitedSlices(k) }}
      PROVE  CommitState(k) = "committed"
  BY <1>1, <1>5 DEF CommitState
<1> QED BY <1>3, <1>4, <1>5 DEF Locate

(* What one mesh for each key makes of locate. *)
Fills(slices) ==
  { s.mesh_shape : s \in slices } = {{ s.coordinates : s \in slices }}

MeshInv ==
  \A k \in Key :
    /\ Locate(k, TRUE) # "AssertionError"
    /\ Holders(k) # {} /\ (HasWhole(k) \/ Fills(VisitedSlices(k)))
         => Locate(k, TRUE) = "ok"
    /\ \A s, t \in VisitedSlices(k) : s.mesh_shape = t.mesh_shape
    /\ \A s \in VisitedSlices(k) : s.coordinates \in s.mesh_shape

LEMMA OneMeshInv ==
  ASSUME OneMesh
  PROVE  CallInv => MeshInv
<1> SUFFICES ASSUME CallInv, NEW k \in Key
             PROVE  /\ Locate(k, TRUE) # "AssertionError"
                    /\ Holders(k) # {} /\ (HasWhole(k) \/ Fills(VisitedSlices(k)))
                         => Locate(k, TRUE) = "ok"
                    /\ \A s, t \in VisitedSlices(k) : s.mesh_shape = t.mesh_shape
                    /\ \A s \in VisitedSlices(k) : s.coordinates \in s.mesh_shape
  BY DEF MeshInv
<1>1. IndexFromMenu
  BY DEF CallInv, MenuInv
<1> QED BY <1>1, OneMeshLocates, OneMeshVisited DEF Fills

(***************************************************************************)
(* As long as all slices of a key are put from one mesh, locating it never *)
(* fails the assertion "Inconsistent mesh shapes in stored slices":        *)
(* putting it from another mesh, too, is the only way there.               *)
(***************************************************************************)
THEOREM OneMeshAgrees ==
  ASSUME OneMesh
  PROVE  Spec => []MeshesAgree
<1>1. MeshInv => MeshesAgree
  BY DEF MeshInv, MeshesAgree
<1> QED BY <1>1, OneMeshInv, InitCall, NextCall, PTL DEF Spec

(* What is not being deleted is only added to. *)
LEMMA IndexGrows ==
  ASSUME CallInv, NEW c \in Client, Acts(c), NEW k \in Key,
         ~DeleteRunning(c, k), NEW v \in Volume, Indexed(k, v)
  PROVE  /\ Indexed(k, v)'
         /\ index'[k][v].object_type = index[k][v].object_type
         /\ index[k][v].tensor_slices \subseteq index'[k][v].tensor_slices
<1>1. TypeInv /\ OneKeyDeletes /\ IndexFromMenu
  BY DEF CallInv, MenuInv
<1>2. k \notin branch[c][v].keys
  BY DEF DeleteRunning
<1>3. CASE index'[k][v] = index[k][v]
  BY <1>3 DEF Indexed
<1>4. ASSUME NEW r, NotifyAccepts(r, v), r.key = k,
             index'[k][v] = Merge(index[k][v], r)
      PROVE  /\ Indexed(k, v)'
             /\ index'[k][v].object_type = index[k][v].object_type
             /\ index[k][v].tensor_slices \subseteq index'[k][v].tensor_slices
  <2>1. /\ index'[k][v].object_type = index[k][v].object_type
        /\ index'[k][v].tensor_slices = index[k][v].tensor_slices \cup {r.slice}
    BY <1>4 DEF NotifyAccepts, Merge
  <2>2. index'[k][v].tensor_slices # NoInfo.tensor_slices
    BY <2>1 DEF NoInfo
  <2> QED BY <2>1, <2>2 DEF Indexed
<1> QED BY <1>1, <1>2, <1>3, <1>4, IndexChange

LEMMA LocatableStep ==
  ASSUME CallInv, MeshInv', NEW c \in Client, Acts(c),
         NEW k \in Key, ~DeleteRunning(c, k), Locate(k, TRUE) = "ok"
  PROVE  Locate(k, TRUE)' = "ok"
<1>1. Holders(k)' # {} /\ (HasWhole(k)' \/ Fills(VisitedSlices(k)'))
        => Locate(k, TRUE)' = "ok"
  BY DEF MeshInv, Fills
<1>2. \A v \in Holders(k) :
        /\ v \in Holders(k)'
        /\ index'[k][v].object_type = index[k][v].object_type
        /\ index[k][v].tensor_slices \subseteq index'[k][v].tensor_slices
  BY IndexGrows DEF Holders
<1>3. Holders(k) # {} /\ Holders(k)' # {}
  BY <1>2, LocateSucceeds
<1>4. CASE HasWhole(k)'
  BY <1>1, <1>3, <1>4
<1>5. CASE ~HasWhole(k)'
  <2> DEFINE S == VisitedSlices(k)
             T == VisitedSlices(k)'
  <2>1. ~HasWhole(k)
    BY <1>2, <1>5 DEF HasWhole, IsSliced
  <2>2. Visited(k) = Holders(k) /\ Visited(k)' = Holders(k)'
    BY <1>5, <2>1 DEF HasWhole, Visited, Older
  <2>3. S \subseteq T
    BY <1>2, <2>2 DEF VisitedSlices
  <2>4. Fills(S)
    BY <2>1, LocateSucceeds DEF Fills
  <2>5. /\ \A s, t \in T : s.mesh_shape = t.mesh_shape
        /\ \A s \in T : s.coordinates \in s.mesh_shape
    BY DEF MeshInv
  <2> HIDE DEF S, T
  <2>6. PICK s \in S : s.mesh_shape = { t.coordinates : t \in S }
    BY <2>4 DEF Fills
  <2>7. \A t \in T : t.mesh_shape = s.mesh_shape
    BY <2>3, <2>5
  <2>8. { t.coordinates : t \in T } = s.mesh_shape
    BY <2>3, <2>5, <2>6, <2>7
  <2>9. Fills(T)
    BY <2>3, <2>6, <2>7, <2>8 DEF Fills
  <2> QED BY <1>1, <1>3, <2>9 DEF T
<1> QED BY <1>4, <1>5

(***************************************************************************)
(* A committed key stays locatable until a delete of it runs: no put of    *)
(* another shard, no overwrite and no failed call makes it partial again,  *)
(* as long as all slices of a key are put from one mesh.                   *)
(***************************************************************************)
THEOREM CommittedStays ==
  ASSUME OneMesh
  PROVE  Spec => LocatableUntilDeleted
<1> DEFINE Kept == \A k \in Key :
              Locate(k, TRUE) = "ok" /\ Locate(k, TRUE)' # "ok"
                => \E c \in Client : DeleteRunning(c, k)
<1>1. CallInv /\ MeshInv' /\ [Next]_vars => [Kept]_vars
  <2> SUFFICES ASSUME CallInv, MeshInv', [Next]_vars, vars' # vars PROVE Kept
    OBVIOUS
  <2>1. PICK c \in Client : Acts(c)
    BY NextIsOneAct
  <2> QED BY <2>1, LocatableStep
<1>2. Spec => []CallInv
  BY InitCall, NextCall, PTL DEF Spec
<1>3. CallInv => MeshInv
  BY OneMeshInv
<1> QED BY <1>1, <1>2, <1>3, PTL DEF Spec, LocatableUntilDeleted

-----------------------------------------------------------------------------
(* What a get has located can be read *)

LEMMA FetchStep ==
  ASSUME CallInv, FetchFromMenu, NEW c \in Client, Acts(c)
  PROVE  FetchFromMenu'
<1>1. ClientTypeOK /\ TypeOK
  BY DEF CallInv, TypeInv, TypeOK
<1> SUFFICES ASSUME NEW d \in Client, NEW v \in Volume, NEW sub \in fetch'[d][v],
                    ~sub.sliced
             PROVE  \E r \in Menu(sub.key) : r.object_type # "TENSOR_SLICE"
  BY DEF FetchFromMenu
<1>2. CASE sub \in fetch[d][v]
  BY <1>2 DEF FetchFromMenu
<1>3. CASE sub \notin fetch[d][v]
  <2>1. d = c
    BY <1>1, <1>3, OthersRest DEF Rests
  <2>2. PICK wants \in GetMenu :
          StartGet(c, wants) /\ fetch' = [fetch EXCEPT ![c] = FetchPlan(wants)]
    <3>1. CASE Puts(c)
      BY <1>3, <2>1, <3>1 DEF Puts, StartPut, VolumePut, NotifyPut
    <3>2. CASE Deletes(c)
      BY <1>3, <2>1, <3>2 DEF Deletes, StartDelete, StartDeleteBatch,
         NotifyDeleteFrom, VolumeDelete, NotifyDeleteKeys, VolumeDeleteBatch, BranchFails
    <3>3. fetch' # [fetch EXCEPT ![c] = NoFetch]
      BY <1>1, <1>3, <2>1 DEF NoFetch, ClientTypeOK
    <3>4. CASE CallFails(c)
      BY <3>3, <3>4 DEF CallFails
    <3>5. ASSUME NEW w \in Volume, NEW subs \in SUBSET fetch[c][w], VolumeGet(c, w, subs)
          PROVE  FALSE
      <4>1. fetch' = [fetch EXCEPT ![c] = [fetch[c] EXCEPT ![w] = fetch[c][w] \ subs]]
        BY <3>3, <3>5 DEF VolumeGet
      <4> QED BY <1>1, <1>3, <2>1, <4>1 DEF ClientTypeOK
    <3>6. fetch' # fetch
      BY <1>3, <2>1
    <3> QED BY <3>1, <3>2, <3>4, <3>5, <3>6 DEF Acts, Reads, Exists, StartGet
  <2>3. PICK k \in DOMAIN wants : sub \in SubRequests(k, v, wants[k])
    BY <1>1, <2>1, <2>2 DEF FetchPlan, ClientTypeOK
  <2>4. k \in Key
    BY WantsAre
  <2>5. IsFirstWhole(k, v) /\ sub.key = k
    <3>1. IsFirstWhole(k, v)
      BY <2>3 DEF SubRequests
    <3>2. v \notin Visited(k)
      BY <3>1 DEF IsFirstWhole, Visited
    <3> DEFINE object == [key |-> k, sliced |-> FALSE, region |-> Cell]
               tensor == [key |-> k, sliced |-> wants[k].sliced, region |-> wants[k].region]
    <3>3. SubRequests(k, v, wants[k]) =
            { IF index[k][v].object_type = "OBJECT" THEN object ELSE tensor }
      BY <3>1, <3>2 DEF SubRequests
    <3>4. object.key = k /\ tensor.key = k
      OBVIOUS
    <3> HIDE DEF object, tensor
    <3> QED BY <2>3, <3>1, <3>3, <3>4
  <2>6. Indexed(k, v) /\ index[k][v].object_type # "TENSOR_SLICE"
    BY <2>5 DEF IsFirstWhole, IsSliced
  <2> QED BY <2>4, <2>5, <2>6 DEF CallInv, MenuInv, IndexFromMenu
<1> QED BY <1>2, <1>3

(* An entry that backs what the index lists can serve it. *)
LEMMA ListedIsServable ==
  ASSUME KeysKeepType, SlicesKeepPlace, CallInv, IndexedIsStored, FetchFromMenu,
         NEW c \in Client, NEW v \in Volume, NEW sub \in fetch[c][v],
         StillListed(sub.key, v, sub.region)
  PROVE  GetOutcome(v, sub) = "ok"
<1> DEFINE k == sub.key
           entry == store[v][k]
           info == index[k][v]
<1>1. k \in Key /\ sub.sliced \in BOOLEAN
  BY DEF CallInv, TypeInv, TypeOK, ClientTypeOK, SubRequest
<1>2. Indexed(k, v) /\ Backs(entry, info)
  BY <1>1 DEF StillListed, IndexedIsStored
<1>3. /\ info.tensor_slices # {}
      /\ \A s \in info.tensor_slices : \E r \in Menu(k) :
           r.object_type = info.object_type /\ r.slice = s
  BY <1>1, <1>2 DEF CallInv, MenuInv, IndexFromMenu
<1>4. info.object_type \in {"OBJECT", "TENSOR", "TENSOR_SLICE"}
  BY <1>3 DEF Menu, Request, ObjectType
<1>5. CASE info.object_type \in {"OBJECT", "TENSOR"}
  <2>1. entry.type \in {"OBJECT", "TENSOR"}
    BY <1>2, <1>5 DEF Backs
  <2> QED BY <2>1 DEF GetOutcome
<1>6. CASE info.object_type = "TENSOR_SLICE"
  <2>1. PICK s \in info.tensor_slices : sub.region \subseteq s.region
    BY <1>6 DEF StillListed, IsSliced
  <2>2. PICK r \in Menu(k) : r.object_type = "TENSOR_SLICE" /\ r.slice = s
    BY <1>3, <1>6, <2>1
  <2>3. sub.sliced
    BY <1>1, <2>2 DEF FetchFromMenu, KeysKeepType
  <2>4. entry.type = "SHARDS" /\ s.coordinates \in CoordinatesAt(entry)
    BY <1>2, <1>6, <2>1 DEF Backs
  <2>5. PICK i \in DOMAIN entry.shards : entry.shards[i].slice.coordinates = s.coordinates
    BY <2>4 DEF CoordinatesAt
  <2>6. entry.shards[i].slice \in SlicesPut(k) /\ s \in SlicesPut(k)
    BY <1>1, <2>2, <2>5, SliceOfMenu DEF CallInv, MenuInv, StoreFromMenu
  <2>7. entry.shards[i].slice = s
    BY <1>1, <2>5, <2>6 DEF SlicesKeepPlace
  <2>8. i \in Containing(entry, sub.region)
    BY <2>1, <2>5, <2>7 DEF Containing
  <2> QED BY <2>3, <2>4, <2>8 DEF GetOutcome
<1> QED BY <1>4, <1>5, <1>6

(***************************************************************************)
(* What locate_volumes promised a get, the volume still answers as long as *)
(* the controller lists it, whatever is put, deleted or failing between    *)
(* the two calls: if callers keep puts of a key apart from its deletes,    *)
(* and neither the kind of a key nor the slice of a rank ever changes.     *)
(***************************************************************************)
THEOREM LocatedServable ==
  ASSUME Discipline = "drained", KeysKeepType, SlicesKeepPlace
  PROVE  Spec => []LocatedIsServable
<1> DEFINE Inv == IndexInv /\ CallInv /\ FetchFromMenu
<1>1. Init => Inv
  <2>1. Init => FetchFromMenu
    BY DEF Init, NoFetch, FetchFromMenu
  <2> QED BY <2>1, InitIndex, InitCall
<1>2. Inv /\ [Next]_vars => Inv'
  <2> SUFFICES ASSUME Inv, [Next]_vars PROVE FetchFromMenu'
    BY NextIndex, NextCall
  <2>1. CASE UNCHANGED vars
    BY <2>1 DEF vars, clientVars, FetchFromMenu
  <2> QED BY <2>1, FetchStep, NextIsOneAct
<1>3. Inv => LocatedIsServable
  BY ListedIsServable DEF IndexInv, LocatedIsServable
<1> QED BY <1>1, <1>2, <1>3, PTL DEF Spec

-----------------------------------------------------------------------------
(* No entry is left behind *)

(* Every request of a menu has the type of what is stored and indexed. *)
LEMMA PutsFit ==
  ASSUME KeysKeepType, TypeInv, MenuInv, NEW c \in Client,
         pc[c] \in {"put", "notify"}, NEW i \in DOMAIN reqs[c], NEW v \in Volume
  PROVE  /\ NotifyAccepts(reqs[c][i], v)
         /\ ExtractExistingAccepts(store[v][reqs[c][i].key], reqs[c][i])
<1> DEFINE r == reqs[c][i]
           k == r.key
<1>1. r \in Request /\ k \in Key /\ r \in Menu(k)
  BY RequestOfMenu DEF MenuInv, BatchesFromMenu
<1>2. NotifyAccepts(r, v)
  <2> SUFFICES ASSUME Indexed(k, v) PROVE index[k][v].object_type = r.object_type
    BY DEF NotifyAccepts
  <2>1. PICK q \in Menu(k) : q.object_type = index[k][v].object_type
    BY <1>1 DEF MenuInv, IndexFromMenu
  <2> QED BY <1>1, <2>1 DEF KeysKeepType
<1>3. ExtractExistingAccepts(store[v][k], r)
  <2>1. CASE Stored(v, k)
    <3>1. PICK q \in Menu(k) : store[v][k].type = EntryOf(q.object_type)
      BY <1>1, <2>1 DEF MenuInv, StoreFromMenu
    <3>2. q.object_type = r.object_type
      BY <1>1, <3>1 DEF KeysKeepType
    <3> HIDE DEF r
    <3> QED BY <1>1, <3>1, <3>2
            DEF EntryOf, ExtractExistingAccepts, Request, ObjectType
  <2>2. CASE ~Stored(v, k)
    BY <2>2 DEF Stored, ExtractExistingAccepts
  <2> QED BY <2>1, <2>2
<1> QED BY <1>2, <1>3

(* A notification that is accepted as a whole indexes every key it names. *)
LEMMA NotifiedAll ==
  ASSUME KeysKeepType, TypeInv, MenuInv, NEW c \in Client, NotifyPut(c),
         NEW k \in KeysOf(reqs[c])
  PROVE  Indexed(k, Home[c])'
<1> DEFINE rs == reqs[c]
           v == Home[c]
           Hit == \E r \in Notified(rs, v) : r.key = k
           Req == CHOOSE r \in Notified(rs, v) : r.key = k
<1>1. v \in Volume /\ ControllerTypeOK
  BY MenuAssumption DEF TypeInv, TypeOK
<1>2. IsBatch(rs) /\ NotifyPutBatch(rs, v) /\ pc[c] = "notify"
  BY DEF NotifyPut, TypeInv, BatchInFlight
<1>3. PICK i \in DOMAIN rs : rs[i].key = k
  BY DEF KeysOf
<1>4. k \in Key
  BY <1>2, <1>3, ToRequest
<1>5. \A j \in DOMAIN rs : NotifyAccepts(rs[j], v)
  BY <1>1, <1>2, PutsFit
<1>6. \A j \in 1..i : j \in DOMAIN rs
  <2>1. rs \in Seq(Request)
    BY <1>2 DEF IsBatch
  <2>2. DOMAIN rs = 1..Len(rs) /\ Len(rs) \in Nat
    BY <2>1
  <2> QED BY <1>3, <2>2
<1>7. Hit
  BY <1>3, <1>5, <1>6 DEF Notified
<1>8. index'[k] = [index[k] EXCEPT ![v] = Merge(@, Req)]
  BY <1>2, <1>4, <1>7 DEF NotifyPutBatch
<1>9. index[k] \in [Volume -> StorageInfo \cup {NoInfo}]
  BY <1>1, <1>4 DEF ControllerTypeOK
<1> HIDE DEF Req, v, Hit
<1>10. index'[k][v] = Merge(index[k][v], Req)
  BY <1>1, <1>8, <1>9
<1>11. index'[k][v].tensor_slices # {}
  BY <1>10 DEF Merge
<1> QED BY <1>11 DEF Indexed, NoInfo, v

(* A put goes on to its end: nothing refuses it and nothing fails it. *)
LEMMA PutGoesOn ==
  ASSUME KeysKeepType, NoneLeftBehind, TypeInv, MenuInv,
         NEW c \in Client, Acts(c), pc[c] \in {"put", "notify"}
  PROVE  \/ NotifyPut(c)
         \/ pc'[c] \in {"put", "notify"} /\ reqs'[c] = reqs[c]
<1>1. ClientTypeOK /\ TypeOK /\ Home[c] \in Volume
      /\ pc \in [Client -> {"idle", "put", "notify", "fetch", "delete",
                            "notify_batch", "delete_batch"}]
  BY MenuAssumption DEF TypeInv, TypeOK, ClientTypeOK
<1>2. CASE VolumePut(c)
  <2>1. PutAccepts(Home[c], Chunk(c))
    <3>1. /\ Len(Chunk(c)) \in Nat /\ DOMAIN Chunk(c) = 1..Len(Chunk(c))
          /\ sent[c] + Len(Chunk(c)) <= Len(reqs[c])
          /\ \A i \in 1..Len(Chunk(c)) : Chunk(c)[i] = reqs[c][sent[c] + i]
      BY <1>2, ChunkIsBatch DEF VolumePut
    <3>2. sent[c] \in Nat /\ reqs[c] \in Seq(Request)
      BY <1>1 DEF ClientTypeOK
    <3>3. DOMAIN reqs[c] = 1..Len(reqs[c]) /\ Len(reqs[c]) \in Nat
      BY <3>2
    <3>4. ASSUME NEW i \in DOMAIN Chunk(c)
          PROVE  sent[c] + i \in DOMAIN reqs[c] /\ Chunk(c)[i] = reqs[c][sent[c] + i]
      BY <3>1, <3>2, <3>3
    <3>5. \A j \in DOMAIN reqs[c] :
            ExtractExistingAccepts(store[Home[c]][reqs[c][j].key], reqs[c][j])
      BY <1>1, PutsFit
    <3> QED BY <3>4, <3>5 DEF PutAccepts
  <2> QED BY <1>1, <1>2, <2>1 DEF VolumePut, Goto
<1>3. CASE Puts(c) /\ ~VolumePut(c)
  BY <1>3 DEF Puts, StartPut, Begin
<1>4. CASE Reads(c)
  BY <1>4 DEF Reads, StartGet, VolumeGet, Exists, Begin
<1>5. CASE Deletes(c)
  <2>1. CASE \/ \E k \in DeleteMenu : StartDelete(c, k)
             \/ \E keys \in BatchMenu : StartDeleteBatch(c, keys)
             \/ NotifyDeleteKeys(c)
    BY <2>1 DEF StartDelete, StartDeleteBatch, NotifyDeleteKeys, Begin
  <2>2. CASE \E v \in Volume : \/ NotifyDeleteFrom(c, v) \/ VolumeDelete(c, v)
                              \/ VolumeDeleteBatch(c, v) \/ BranchFails(c, v)
    BY <1>1, <2>2 DEF NotifyDeleteFrom, VolumeDelete, VolumeDeleteBatch,
                      BranchFails, BranchEnds, BranchRaises, Return
  <2> QED BY <1>5, <2>1, <2>2 DEF Deletes
<1>6. CASE CallFails(c)
  BY <1>6 DEF CallFails, NoneLeftBehind
<1> QED BY <1>2, <1>3, <1>4, <1>5, <1>6 DEF Acts

(* A delete in progress has just begun, or is the one that was in progress. *)
LEMMA DeleteCourse ==
  ASSUME TypeOK, NEW c \in Client, Acts(c),
         pc'[c] \in {"delete", "notify_batch", "delete_batch"}
  PROVE  \/ \E k \in DeleteMenu :
              StartDelete(c, k) /\ call'[c].keys = {k} /\ MayDelete({k})
              /\ pc'[c] = "delete"
         \/ \E keys \in BatchMenu :
              StartDeleteBatch(c, keys) /\ call'[c].keys = keys /\ MayDelete(keys)
              /\ pc'[c] = "notify_batch"
         \/ /\ NotifyDeleteKeys(c) /\ pc[c] = "notify_batch"
            /\ pc'[c] = "delete_batch" /\ call'[c] = call[c]
         \/ pc'[c] = pc[c] /\ call'[c] = call[c]
<1>1. /\ pc \in [Client -> {"idle", "put", "notify", "fetch", "delete",
                            "notify_batch", "delete_batch"}]
      /\ DOMAIN call = Client
  BY DEF TypeOK, ClientTypeOK
<1>2. CASE Puts(c)
  BY <1>1, <1>2 DEF Puts, StartPut, VolumePut, NotifyPut, Goto, Return
<1>3. CASE Reads(c)
  BY <1>1, <1>3 DEF Reads, StartGet, VolumeGet, Exists, Goto, Return
<1>4. CASE Deletes(c)
  <2>1. ASSUME NEW k \in DeleteMenu, StartDelete(c, k)
        PROVE  call'[c].keys = {k} /\ MayDelete({k}) /\ pc'[c] = "delete"
    BY <1>1, <2>1 DEF StartDelete, Begin, Goto, Return
  <2>2. ASSUME NEW keys \in BatchMenu, StartDeleteBatch(c, keys)
        PROVE  call'[c].keys = keys /\ MayDelete(keys) /\ pc'[c] = "notify_batch"
    BY <1>1, <2>2 DEF StartDeleteBatch, Begin, Goto, Return
  <2>3. CASE NotifyDeleteKeys(c)
    BY <1>1, <2>3 DEF NotifyDeleteKeys, Goto
  <2>4. CASE \E v \in Volume : \/ NotifyDeleteFrom(c, v) \/ VolumeDelete(c, v)
                              \/ VolumeDeleteBatch(c, v) \/ BranchFails(c, v)
    BY <1>1, <2>4 DEF NotifyDeleteFrom, VolumeDelete, VolumeDeleteBatch,
                      BranchFails, BranchEnds, BranchRaises, Return
  <2> QED BY <1>4, <2>1, <2>2, <2>3, <2>4 DEF Deletes
<1>5. CASE CallFails(c)
  BY <1>1, <1>5 DEF CallFails, Return
<1> QED BY <1>2, <1>3, <1>4, <1>5 DEF Acts

(* While a batch is located and not yet notified, its client does nothing  *)
(* else.                                                                   *)
LEMMA BatchCourse ==
  ASSUME TypeOK, BatchNotifiesFirst, NEW c \in Client, Acts(c),
         pc[c] = "notify_batch"
  PROVE  NotifyDeleteKeys(c) \/ CallFails(c)
<1>1. \A v \in Volume : branch[c][v].stage \in {"none", "located"}
  BY DEF BatchNotifiesFirst
<1>2. ~Puts(c) /\ ~Reads(c)
  BY DEF Puts, StartPut, VolumePut, NotifyPut, Reads, StartGet, VolumeGet,
         Exists, Begin
<1>3. ASSUME NEW v \in Volume
      PROVE  /\ ~NotifyDeleteFrom(c, v) /\ ~VolumeDelete(c, v)
             /\ ~VolumeDeleteBatch(c, v) /\ ~BranchFails(c, v)
  BY <1>1 DEF NotifyDeleteFrom, VolumeDelete, VolumeDeleteBatch, BranchFails,
              BranchPoints
<1>4. \A k : ~StartDelete(c, k) /\ ~StartDeleteBatch(c, k)
  BY DEF StartDelete, StartDeleteBatch, Begin
<1> QED BY <1>2, <1>3, <1>4 DEF Acts, Deletes

LEMMA BatchNotifiesFirstStep ==
  ASSUME TypeOK, BatchNotifiesFirst, NEW c \in Client, Acts(c)
  PROVE  BatchNotifiesFirst'
<1> SUFFICES ASSUME NEW d \in Client, pc'[d] = "notify_batch", NEW v \in Volume
             PROVE  branch'[d][v].stage \in {"none", "located"}
  BY DEF BatchNotifiesFirst
<1>1. /\ pc \in [Client -> {"idle", "put", "notify", "fetch", "delete",
                            "notify_batch", "delete_batch"}]
      /\ branch \in [Client -> [Volume -> Branch]]
  BY DEF TypeOK, ClientTypeOK
<1>2. CASE d # c
  BY <1>2, OthersRest DEF Rests, BatchNotifiesFirst
<1>3. ASSUME NEW keys, StartDeleteBatch(c, keys)
      PROVE  branch'[c][v].stage \in {"none", "located"}
  <2> DEFINE at(w) == { k \in keys : Indexed(k, w) }
  <2>1. branch' = [branch EXCEPT ![c] = [w \in Volume |->
          IF at(w) = {} THEN NoBranch ELSE [stage |-> "located", keys |-> at(w)]]]
    BY <1>3 DEF StartDeleteBatch
  <2> HIDE DEF at
  <2>2. \/ branch'[c][v] = NoBranch
        \/ branch'[c][v] = [stage |-> "located", keys |-> at(v)]
    BY <1>1, <2>1
  <2> QED BY <2>2 DEF NoBranch
<1>4. ASSUME pc[c] = "notify_batch" PROVE pc'[c] # "notify_batch"
  BY <1>1, <1>4, BatchCourse DEF NotifyDeleteKeys, CallFails, Goto, Return
<1> QED BY <1>2, <1>3, <1>4, DeleteCourse

(* The callers' promise keeps puts and deletes of a key apart. *)
LEMMA CallsApartStep ==
  ASSUME Discipline = "drained", TypeInv, CallsApart, NEW c \in Client, Acts(c)
  PROVE  CallsApart'
<1>1. TypeOK /\ DOMAIN reqs = Client
  BY DEF TypeInv, TypeOK, ClientTypeOK
<1> SUFFICES ASSUME NEW d \in Client, NEW e \in Client, NEW k \in Key,
                    Putting(d, k)', DeleteCalled(e, k)'
             PROVE  FALSE
  BY DEF CallsApart
<1>2. /\ pc'[d] \in {"put", "notify"} /\ k \in KeysOf(reqs'[d])
      /\ pc'[e] \in {"delete", "notify_batch", "delete_batch"}
      /\ k \in call'[e].keys
      /\ d # e
  BY DEF Putting, KeysOf, DeleteCalled
<1>3. CASE c # d /\ c # e
  <2>1. Putting(d, k) /\ DeleteCalled(e, k)
    BY <1>1, <1>2, <1>3, OthersRest DEF Rests, Putting, DeleteCalled
  <2> QED BY <2>1 DEF CallsApart
<1>4. CASE c = d
  <2>1. DeleteCalled(e, k)
    BY <1>1, <1>2, <1>4, OthersRest DEF Rests, DeleteCalled
  <2>2. ~Putting(c, k)
    BY <1>4, <2>1 DEF CallsApart
  <2>3. PICK rs \in PutMenu[c] : StartPut(c, rs)
    BY <1>1, <1>2, <1>4, <2>2, PutCourse DEF Putting
  <2>4. reqs'[c] = rs /\ MayPut(KeysOf(rs))
    BY <1>1, <2>3 DEF StartPut
  <2> QED BY <1>2, <1>4, <2>1, <2>4 DEF MayPut
<1>5. CASE c = e
  <2>1. Putting(d, k)
    BY <1>1, <1>2, <1>5, OthersRest DEF Rests, Putting
  <2>2. ~DeleteCalled(c, k)
    BY <1>5, <2>1 DEF CallsApart
  <2>3. MayDelete(call'[c].keys)
    BY <1>1, <1>2, <1>5, <2>2, DeleteCourse DEF DeleteCalled
  <2> QED BY <1>2, <1>5, <2>1, <2>3 DEF MayDelete
<1> QED BY <1>3, <1>4, <1>5

(* A coroutine that made the controller forget goes on until it deletes.   *)
LEMMA ForgottenGoesOn ==
  ASSUME NoneLeftBehind, TypeInv, OneKeyDeletes, BatchNotifiesFirst,
         NEW c \in Client, Acts(c), NEW v \in Volume, Forgotten(c, v),
         NEW k \in branch[c][v].keys
  PROVE  \/ Forgotten(c, v)' /\ k \in branch'[c][v].keys
         \/ ~Stored(v, k)'
<1>1. /\ branch \in [Client -> [Volume -> Branch]]
      /\ store \in [Volume -> [Key -> Entry]]
      /\ k \in Key
  BY DEF TypeInv, TypeOK, ClientTypeOK, VolumeTypeOK, Branch
<1>2. branch[c][v].stage \in {"delete", "delete_batch"}
  BY DEF Forgotten
<1>3. ~Quiet(c)
  BY <1>2 DEF Quiet, NoBranches, NoBranch
<1>4. CASE branch' = branch
  BY <1>4 DEF Forgotten
<1>5. CASE Puts(c) \/ Reads(c)
  BY <1>4, <1>5 DEF Puts, StartPut, VolumePut, NotifyPut, Reads, StartGet,
                    VolumeGet, Exists
<1>6. CASE CallFails(c)
  <2>1. pc[c] # "notify_batch"
    BY <1>2 DEF BatchNotifiesFirst
  <2> QED BY <1>4, <1>6, <2>1 DEF CallFails
<1>7. ASSUME NEW w \in Volume, NotifyDeleteFrom(c, w)
      PROVE  branch'[c][v] = branch[c][v]
  <2>1. w # v
    BY <1>2, <1>7 DEF NotifyDeleteFrom
  <2>2. \/ branch' = [branch EXCEPT ![c][w].stage = "delete"]
        \/ branch' = [branch EXCEPT ![c][w] = NoBranch]
    BY <1>7 DEF NotifyDeleteFrom, BranchRaises
  <2> QED BY <1>1, <2>1, <2>2
<1>8. ASSUME NEW w \in Volume,
             VolumeDelete(c, w) \/ VolumeDeleteBatch(c, w) \/ BranchFails(c, w)
      PROVE  branch'[c][v] = branch[c][v] \/ ~Stored(v, k)'
  <2>1. CASE w # v
    <3>1. branch' = [branch EXCEPT ![c][w] = NoBranch]
      BY <1>8 DEF VolumeDelete, VolumeDeleteBatch, BranchFails, BranchRaises,
                  BranchEnds
    <3> QED BY <1>1, <2>1, <3>1
  <2>2. CASE w = v /\ VolumeDelete(c, w)
    <3>1. k = DeletedKey(c, v)
      BY <2>2, TheDeletedKey DEF VolumeDelete
    <3>2. CASE DeleteSucceeds(v, k)
      <4>1. store' = [store EXCEPT ![v] =
              [x \in Key |-> IF x \in {k} THEN NoEntry ELSE store[v][x]]]
        BY <2>2, <3>1, <3>2 DEF VolumeDelete, DeleteKeys
      <4>2. store'[v][k] = NoEntry
        BY <1>1, <4>1
      <4> QED BY <4>2 DEF Stored, NoEntry
    <3>3. CASE ~DeleteSucceeds(v, k)
      BY <2>2, <3>1, <3>3 DEF VolumeDelete, DeleteSucceeds, Stored
    <3> QED BY <3>2, <3>3
  <2>3. CASE w = v /\ VolumeDeleteBatch(c, w)
    <3>1. store' = [store EXCEPT ![v] =
            [x \in Key |-> IF x \in branch[c][v].keys THEN NoEntry ELSE store[v][x]]]
      BY <2>3 DEF VolumeDeleteBatch, DeleteKeys
    <3>2. store'[v][k] = NoEntry
      BY <1>1, <3>1
    <3> QED BY <3>2 DEF Stored, NoEntry
  <2>4. CASE w = v /\ BranchFails(c, w)
    BY <1>2, <2>4 DEF BranchFails, NoneLeftBehind
  <2> QED BY <1>8, <2>1, <2>2, <2>3, <2>4
<1>9. CASE NotifyDeleteKeys(c)
  <2>1. branch[c][v] # NoBranch
    BY <1>2 DEF NoBranch
  <2>2. branch'[c][v] = [branch[c][v] EXCEPT !.stage = "delete_batch"]
    BY <1>1, <1>9, <2>1 DEF NotifyDeleteKeys
  <2>3. branch[c][v] \in Branch
    BY <1>1
  <2>4. branch'[c][v].stage = "delete_batch" /\ branch'[c][v].keys = branch[c][v].keys
    BY <2>2, <2>3 DEF Branch
  <2> QED BY <2>4 DEF Forgotten
<1>10. \A x : ~StartDelete(c, x) /\ ~StartDeleteBatch(c, x)
  BY <1>3 DEF StartDelete, StartDeleteBatch
<1> QED BY <1>5, <1>6, <1>7, <1>8, <1>9, <1>10 DEF Acts, Deletes, Forgotten

LEMMA OrphanStep ==
  ASSUME KeysKeepType, NoneLeftBehind, DeleteInv, NEW c \in Client, Acts(c)
  PROVE  OrphanHasOwner'
<1>1. TypeInv /\ TypeOK /\ OneKeyDeletes /\ MenuInv /\ BatchNotifiesFirst
  BY DEF DeleteInv, CallInv, TypeInv
<1> SUFFICES ASSUME NEW v \in Volume, NEW k \in Key, Stored(v, k)', ~Indexed(k, v)'
             PROVE  \/ \E d \in Client : Putting(d, k)' /\ Home[d] = v
                    \/ \E d \in Client : Forgotten(d, v)' /\ k \in branch'[d][v].keys
  BY DEF OrphanHasOwner, Putting, KeysOf, Forgotten
<1>2. CASE store'[v][k] # store[v][k]
  <2>1. store'[v][k] # NoEntry
    BY DEF Stored, NoEntry
  <2>2. /\ v = Home[c] /\ pc'[c] \in {"put", "notify"} /\ reqs' = reqs
        /\ \E i \in DOMAIN reqs[c] : reqs[c][i].key = k
    BY <1>1, <1>2, <2>1, StoreChange
  <2>3. Putting(c, k)'
    BY <2>2 DEF Putting, KeysOf
  <2> QED BY <2>2, <2>3
<1>3. CASE index'[k][v] # index[k][v]
  <2>1. index'[k][v] = NoInfo
    BY DEF Indexed
  <2>2. k \in branch[c][v].keys /\ branch[c][v] # NoBranch
    <3>1. \A r : Merge(index[k][v], r) # NoInfo
      BY DEF Merge, NoInfo
    <3>2. k \in branch[c][v].keys
      BY <1>1, <1>3, <2>1, <3>1, IndexChange
    <3> QED BY <3>2 DEF NoBranch
  <2>3. \/ NotifyDeleteKeys(c)
        \/ branch' = [branch EXCEPT ![c][v].stage = "delete"]
    <3>1. \A r : Merge(index[k][v], r) # NoInfo
      BY DEF Merge, NoInfo
    <3> QED BY <1>1, <1>3, <2>1, <3>1, IndexChange
  <2>4. branch \in [Client -> [Volume -> Branch]] /\ branch[c][v] \in Branch
    BY <1>1 DEF TypeOK, ClientTypeOK
  <2>5. \/ branch'[c][v] = [branch[c][v] EXCEPT !.stage = "delete"]
        \/ branch'[c][v] = [branch[c][v] EXCEPT !.stage = "delete_batch"]
    BY <2>2, <2>3, <2>4 DEF NotifyDeleteKeys
  <2>6. /\ branch'[c][v].stage \in {"delete", "delete_batch"}
        /\ branch'[c][v].keys = branch[c][v].keys
    BY <2>4, <2>5 DEF Branch
  <2> QED BY <2>2, <2>6 DEF Forgotten
<1>4. CASE store'[v][k] = store[v][k] /\ index'[k][v] = index[k][v]
  <2>1. Stored(v, k) /\ ~Indexed(k, v)
    BY <1>4 DEF Stored, Indexed
  <2>2. ASSUME NEW d \in Client, Putting(d, k), Home[d] = v PROVE Putting(d, k)'
    <3>1. CASE d # c
      BY <1>1, <2>2, <3>1, OthersRest DEF Rests, Putting, KeysOf
    <3>2. CASE d = c
      <4>1. ~NotifyPut(c)
        BY <1>1, <2>2, <3>2, NotifiedAll DEF Putting
      <4> QED BY <1>1, <2>2, <3>2, <4>1, PutGoesOn DEF Putting, KeysOf
    <3> QED BY <3>1, <3>2
  <2>3. ASSUME NEW d \in Client, Forgotten(d, v), k \in branch[d][v].keys
        PROVE  Forgotten(d, v)' /\ k \in branch'[d][v].keys
    <3>1. CASE d # c
      BY <1>1, <2>3, <3>1, OthersRest DEF Rests, Forgotten
    <3>2. CASE d = c
      BY <1>1, <2>3, <3>2, ForgottenGoesOn
    <3> QED BY <3>1, <3>2
  <2> QED BY <2>1, <2>2, <2>3 DEF DeleteInv, OrphanHasOwner
<1> QED BY <1>2, <1>3, <1>4

(* A delete in progress misses no volume that holds one of its keys.       *)
LEMMA ReachStep ==
  ASSUME DeleteInv, CallsApart', NEW c \in Client, Acts(c)
  PROVE  DeletesReachAll'
<1>1. /\ TypeInv /\ TypeOK /\ OneKeyDeletes
      /\ DOMAIN call = Client
      /\ branch \in [Client -> [Volume -> Branch]]
      /\ pc \in [Client -> {"idle", "put", "notify", "fetch", "delete",
                            "notify_batch", "delete_batch"}]
  BY DEF DeleteInv, CallInv, TypeInv, TypeOK, ClientTypeOK
<1> SUFFICES ASSUME NEW d \in Client, NEW k \in call'[d].keys, NEW v \in Volume,
                    Indexed(k, v)'
             PROVE  /\ pc'[d] = "delete" =>
                         /\ branch'[d][v].stage = "notify_delete"
                         /\ k \in branch'[d][v].keys
                    /\ pc'[d] = "notify_batch" => k \in branch'[d][v].keys
                    /\ pc'[d] # "delete_batch"
  BY DEF DeletesReachAll
<1> SUFFICES ASSUME pc'[d] \in {"delete", "notify_batch", "delete_batch"}
             PROVE  /\ pc'[d] = "delete" =>
                         /\ branch'[d][v].stage = "notify_delete"
                         /\ k \in branch'[d][v].keys
                    /\ pc'[d] = "notify_batch" => k \in branch'[d][v].keys
                    /\ pc'[d] # "delete_batch"
  OBVIOUS
<1>2. k \in Key
  <2>1. call' \in [Client -> [op : Ops, keys : SUBSET Key, wants : Wants]]
    <3>1. [Next]_vars
      BY DEF Acts, Puts, Reads, Deletes, Next, Work
    <3>2. TypeInv'
      BY <1>1, <3>1, NextType
    <3> QED BY <3>2 DEF TypeInv, TypeOK, ClientTypeOK
  <2> QED BY <2>1
<1>3. index'[k][v] = index[k][v] /\ Indexed(k, v)
  <2>1. index'[k][v] # NoInfo
    BY DEF Indexed
  <2>2. ASSUME NotifyPut(c), NEW i \in DOMAIN reqs[c], reqs[c][i].key = k
        PROVE  FALSE
    <3>1. pc[c] = "notify" /\ pc'[c] = "idle" /\ Putting(c, k)
      BY <1>1, <2>2 DEF NotifyPut, Return, Putting, KeysOf
    <3>2. DeleteCalled(d, k)
      BY <1>1, <3>1, OthersRest DEF Rests, DeleteCalled
    <3> QED BY <1>2, <3>1, <3>2 DEF DeleteInv, CallsApart
  <2>3. index'[k][v] = index[k][v]
    BY <1>1, <1>2, <2>1, <2>2, IndexChange
  <2> QED BY <2>1, <2>3 DEF Indexed
<1>4. DeletesReachAll /\ BatchNotifiesFirst
  BY DEF DeleteInv
<1>5. CASE d # c
  BY <1>1, <1>3, <1>4, <1>5, OthersRest DEF Rests, DeletesReachAll
<1>6. ASSUME d = c, NEW x \in DeleteMenu, StartDelete(c, x),
             call'[c].keys = {x}, pc'[c] = "delete"
      PROVE  branch'[c][v].stage = "notify_delete" /\ k \in branch'[c][v].keys
  <2>1. k = x
    BY <1>6
  <2>2. branch' = [branch EXCEPT ![c] = [w \in Volume |->
          IF Indexed(x, w) THEN [stage |-> "notify_delete", keys |-> {x}]
                           ELSE NoBranch]]
    <3>1. pc' # [pc EXCEPT ![c] = "idle"]
      BY <1>1, <1>6
    <3> QED BY <1>6, <3>1 DEF StartDelete, Return
  <2>3. branch'[c][v] = [stage |-> "notify_delete", keys |-> {x}]
    BY <1>1, <1>3, <2>1, <2>2
  <2> QED BY <2>1, <2>3
<1>7. ASSUME d = c, NEW keys \in BatchMenu, StartDeleteBatch(c, keys),
             call'[c].keys = keys
      PROVE  k \in branch'[c][v].keys
  <2> DEFINE at(w) == { x \in keys : Indexed(x, w) }
  <2>1. branch' = [branch EXCEPT ![c] = [w \in Volume |->
          IF at(w) = {} THEN NoBranch ELSE [stage |-> "located", keys |-> at(w)]]]
    BY <1>7 DEF StartDeleteBatch
  <2>2. k \in at(v)
    BY <1>3, <1>7
  <2> HIDE DEF at
  <2>3. branch'[c][v] = [stage |-> "located", keys |-> at(v)]
    BY <1>1, <2>1, <2>2
  <2> QED BY <2>2, <2>3
<1>8. ASSUME d = c, NotifyDeleteKeys(c), pc[c] = "notify_batch", call'[c] = call[c]
      PROVE  FALSE
  <2>1. k \in branch[c][v].keys
    BY <1>3, <1>4, <1>8 DEF DeletesReachAll
  <2>2. index'[k][v] = NoInfo
    BY <1>2, <1>8, <2>1 DEF NotifyDeleteKeys, NotifyDeleteBatch
  <2> QED BY <2>2 DEF Indexed
<1>9. CASE d = c /\ pc'[c] = pc[c] /\ call'[c] = call[c]
  <2>1. pc[c] # "delete_batch"
    BY <1>3, <1>4, <1>9 DEF DeletesReachAll
  <2>2. pc[c] # "notify_batch"
    BY <1>1, <1>4, <1>9, BatchCourse DEF NotifyDeleteKeys, CallFails, Goto, Return
  <2>3. /\ pc[c] = "delete" /\ branch[c][v].stage = "notify_delete"
        /\ k \in branch[c][v].keys
    BY <1>3, <1>4, <1>9, <2>1, <2>2 DEF DeletesReachAll
  <2>4. branch'[c][v] = branch[c][v]
    <3>1. ~CallFails(c) /\ ~Puts(c) /\ ~Reads(c)
      BY <1>9, <2>3 DEF CallFails, CallPoints, Puts, StartPut, VolumePut, NotifyPut,
         Reads, StartGet, VolumeGet, Exists, Begin
    <3>2. /\ \A x : ~StartDelete(c, x) /\ ~StartDeleteBatch(c, x)
          /\ ~NotifyDeleteKeys(c)
      BY <2>3 DEF StartDelete, StartDeleteBatch, Begin, NotifyDeleteKeys
    <3>3. \A error : ~Return(c, error)
      BY <1>1, <1>9, <2>3 DEF Return
    <3>4. ASSUME NEW w \in Volume, NotifyDeleteFrom(c, w)
          PROVE  branch'[c][v] = branch[c][v]
      <4>1. /\ NotifyDelete(DeletedKey(c, w), w)
            /\ branch' = [branch EXCEPT ![c][w].stage = "delete"]
        BY <2>3, <3>3, <3>4 DEF NotifyDeleteFrom, BranchRaises
      <4>2. CASE w = v
        <5>1. DeletedKey(c, w) = k
          BY <1>1, <2>3, <4>2, TheDeletedKey
        <5>2. index'[k][v] = NoInfo
          BY <1>1, <1>2, <4>1, <4>2, <5>1
             DEF NotifyDelete, TypeOK, ControllerTypeOK
        <5> QED BY <5>2 DEF Indexed
      <4> QED BY <1>1, <4>1, <4>2
    <3>5. ASSUME NEW w \in Volume, VolumeDelete(c, w) \/ VolumeDeleteBatch(c, w)
          PROVE  branch'[c][v] = branch[c][v]
      <4>1. w # v
        BY <2>3, <3>5 DEF VolumeDelete, VolumeDeleteBatch
      <4>2. branch' = [branch EXCEPT ![c][w] = NoBranch]
        BY <3>5 DEF VolumeDelete, VolumeDeleteBatch, BranchEnds, BranchRaises
      <4> QED BY <1>1, <4>1, <4>2
    <3>6. \A w \in Volume : ~BranchFails(c, w)
      BY <2>3, <3>3 DEF BranchFails, BranchRaises
    <3> QED BY <3>1, <3>2, <3>4, <3>5, <3>6 DEF Acts, Deletes
  <2> QED BY <1>9, <2>3, <2>4
<1> QED BY <1>1, <1>5, <1>6, <1>7, <1>8, <1>9, DeleteCourse

LEMMA InitDeletes == Init => DeleteInv
<1> SUFFICES ASSUME Init PROVE DeleteInv
  OBVIOUS
<1>1. /\ \A v \in Volume : \A k \in Key : store[v][k] = NoEntry
      /\ \A c \in Client : pc[c] = "idle" /\ branch[c] = NoBranches
  BY DEF Init, VolumeInit
<1>2. OrphanHasOwner
  BY <1>1 DEF OrphanHasOwner, Stored, NoEntry
<1>3. CallsApart /\ DeletesReachAll /\ BatchNotifiesFirst
  BY <1>1 DEF CallsApart, Putting, DeletesReachAll, BatchNotifiesFirst
<1> QED BY <1>2, <1>3, InitIndex, InitCall DEF DeleteInv

LEMMA NextDeletes ==
  ASSUME Discipline = "drained", KeysKeepType, NoneLeftBehind
  PROVE  DeleteInv /\ [Next]_vars => DeleteInv'
<1> SUFFICES ASSUME DeleteInv, [Next]_vars PROVE DeleteInv'
  OBVIOUS
<1>1. IndexInv' /\ CallInv'
  BY NextIndex, NextCall DEF DeleteInv
<1>2. CASE UNCHANGED vars
  <2>1. UNCHANGED <<index, store, pc, call, reqs, branch>>
    BY <1>2 DEF vars, controllerVars, clientVars
  <2>2. OrphanHasOwner'
    BY <2>1 DEF DeleteInv, OrphanHasOwner, Stored, Indexed, Putting, KeysOf,
                Forgotten
  <2>3. CallsApart'
    BY <2>1 DEF DeleteInv, CallsApart, Putting, KeysOf, DeleteCalled
  <2>4. DeletesReachAll' /\ BatchNotifiesFirst'
    BY <2>1 DEF DeleteInv, DeletesReachAll, Indexed, BatchNotifiesFirst
  <2> QED BY <1>1, <2>2, <2>3, <2>4 DEF DeleteInv
<1>3. ASSUME NEW c \in Client, Acts(c) PROVE DeleteInv'
  <2>1. TypeInv /\ TypeOK /\ CallsApart /\ BatchNotifiesFirst
    BY DEF DeleteInv, CallInv, TypeInv
  <2>2. CallsApart'
    BY <1>3, <2>1, CallsApartStep
  <2>3. BatchNotifiesFirst'
    BY <1>3, <2>1, BatchNotifiesFirstStep
  <2>4. OrphanHasOwner'
    BY <1>3, OrphanStep
  <2>5. DeletesReachAll'
    BY <1>3, <2>2, ReachStep
  <2> QED BY <1>1, <2>2, <2>3, <2>4, <2>5 DEF DeleteInv
<1> QED BY <1>2, <1>3, NextIsOneAct

(***************************************************************************)
(* No orphan: when no put and no delete of a key is in progress, a volume  *)
(* holds the key exactly if the controller says so.  Callers keep puts of  *)
(* a key apart from its deletes and put it as one kind of entry, and       *)
(* neither a put nor the second half of a delete is cut short.             *)
(***************************************************************************)
THEOREM NoOrphans ==
  ASSUME Discipline = "drained", KeysKeepType, NoneLeftBehind
  PROVE  Spec => []QuiescentAgreement
<1>1. DeleteInv => QuiescentAgreement
  <2> SUFFICES ASSUME DeleteInv, NEW k \in Key, NEW v \in Volume,
                      \A c \in Client : ~Putting(c, k) /\ ~DeleteRunning(c, k)
               PROVE  Stored(v, k) <=> Indexed(k, v)
    BY DEF QuiescentAgreement
  <2>1. Stored(v, k) => Indexed(k, v)
    BY DEF DeleteInv, OrphanHasOwner, DeleteRunning
  <2>2. ASSUME Indexed(k, v) PROVE Stored(v, k)
    <3>1. Backs(store[v][k], index[k][v])
      BY <2>2 DEF DeleteInv, IndexInv, IndexedIsStored
    <3>2. \E s : s \in index[k][v].tensor_slices
      BY <2>2 DEF DeleteInv, CallInv, MenuInv, IndexFromMenu
    <3>3. index[k][v].object_type \in ObjectType
      <4>1. PICK r \in Menu(k) : r.object_type = index[k][v].object_type
        BY <2>2, <3>2 DEF DeleteInv, CallInv, MenuInv, IndexFromMenu
      <4> QED BY <4>1 DEF Menu, Request
    <3> QED BY <3>1, <3>3 DEF Backs, ObjectType, Stored
  <2> QED BY <2>1, <2>2
<1> QED BY <1>1, InitDeletes, NextDeletes, PTL DEF Spec

(* The client of a delete that has returned has left nothing behind.       *)
LEMMA DeleteReturns ==
  ASSUME Discipline = "drained", DeleteInv, DeleteInv', NEW c \in Client, Acts(c),
         pc'[c] = "idle", outcome'[c] = "ok",
         call'[c].op \in {"delete", "delete_batch"},
         pc[c] # "idle" \/ call[c] # call'[c]
  PROVE  /\ \A k \in call'[c].keys : \A v \in Volume : ~Indexed(k, v)'
         /\ \A k \in call'[c].keys : \A d \in Client : ~Putting(d, k)'
<1>1. /\ TypeInv /\ TypeOK /\ OneKeyDeletes /\ CallsMatch
      /\ DeletesReachAll /\ CallsApart
      /\ DOMAIN call = Client /\ outcome \in [Client -> Outcomes]
      /\ branch \in [Client -> [Volume -> Branch]]
      /\ pc \in [Client -> {"idle", "put", "notify", "fetch", "delete",
                            "notify_batch", "delete_batch"}]
  BY DEF DeleteInv, CallInv, TypeInv, TypeOK, ClientTypeOK
<1>2. \A k : \A d \in Client : Putting(d, k)' => d # c /\ Putting(d, k)
  BY <1>1, OthersRest DEF Rests, Putting, KeysOf
<1>3. CASE Puts(c)
  BY <1>1, <1>3 DEF Puts, StartPut, VolumePut, NotifyPut, Goto, Return, CallsMatch
<1>4. CASE Reads(c)
  <2>1. ASSUME NEW wants \in GetMenu, StartGet(c, wants) PROVE FALSE
    <3>1. call'[c] = [op |-> "get", keys |-> DOMAIN wants, wants |-> wants]
      BY <1>1, <2>1 DEF StartGet, Begin
    <3> QED BY <3>1
  <2>2. ASSUME NEW k \in Key, Exists(c, k) PROVE FALSE
    <3>1. call'[c] = [op |-> "exists", keys |-> {k}, wants |-> <<>>]
      BY <1>1, <2>2 DEF Exists, Begin
    <3> QED BY <3>1
  <2>3. ASSUME NEW v \in Volume, NEW subs, VolumeGet(c, v, subs) PROVE FALSE
    BY <1>1, <2>3 DEF VolumeGet, CallsMatch
  <2> QED BY <1>4, <2>1, <2>2, <2>3 DEF Reads
<1>5. CASE CallFails(c)
  BY <1>1, <1>5 DEF CallFails, Return
<1>6. ASSUME NEW k, StartDelete(c, k) PROVE FALSE
  BY <1>1, <1>6 DEF StartDelete, Goto, Return
<1>7. ASSUME NEW keys \in BatchMenu, StartDeleteBatch(c, keys)
      PROVE  /\ \A k \in call'[c].keys : \A v \in Volume : ~Indexed(k, v)'
             /\ \A k \in call'[c].keys : \A d \in Client : ~Putting(d, k)'
  <2> DEFINE at(w) == { k \in keys : Indexed(k, w) }
             found == [w \in Volume |->
                         IF at(w) = {} THEN NoBranch
                         ELSE [stage |-> "located", keys |-> at(w)]]
  <2>1. call'[c].keys = keys /\ MayDelete(keys) /\ UNCHANGED controllerVars
    BY <1>1, <1>7 DEF StartDeleteBatch, Begin
  <2>2. found = NoBranches
    BY <1>1, <1>7 DEF StartDeleteBatch, Goto
  <2>3. ASSUME NEW w \in Volume PROVE at(w) = {}
    <3>1. found[w] = NoBranch
      BY <2>2, <2>3 DEF NoBranches
    <3> HIDE DEF at
    <3>2. at(w) # {} => found[w].stage = "located"
      BY <2>3
    <3> QED BY <3>1, <3>2 DEF NoBranch
  <2>4. \A k \in keys : \A v \in Volume : ~Indexed(k, v)'
    BY <2>1, <2>3 DEF controllerVars, Indexed
  <2>5. \A k \in keys : \A d \in Client : ~Putting(d, k)
    BY <2>1 DEF MayDelete
  <2> QED BY <1>2, <2>1, <2>4, <2>5
<1>8. CASE NotifyDeleteKeys(c)
  BY <1>1, <1>8 DEF NotifyDeleteKeys, Goto
<1>9. ASSUME NEW w \in Volume, \/ NotifyDeleteFrom(c, w) \/ BranchFails(c, w)
      PROVE  FALSE
  <2>1. call' = call /\ pc[c] # "idle"
    BY <1>9 DEF NotifyDeleteFrom, BranchFails
  <2> QED BY <1>1, <1>9, <2>1 DEF NotifyDeleteFrom, BranchFails, BranchRaises, Return
<1>10. ASSUME NEW w \in Volume, VolumeDelete(c, w) \/ VolumeDeleteBatch(c, w)
       PROVE  /\ \A k \in call'[c].keys : \A v \in Volume : ~Indexed(k, v)'
              /\ \A k \in call'[c].keys : \A d \in Client : ~Putting(d, k)'
  <2>1. /\ call' = call /\ pc[c] # "idle" /\ UNCHANGED controllerVars
        /\ branch[c][w].stage \in {"delete", "delete_batch"}
    BY <1>10 DEF VolumeDelete, VolumeDeleteBatch
  <2>2. /\ pc[c] \in {"delete", "delete_batch"}
        /\ branch' = [branch EXCEPT ![c][w] = NoBranch]
        /\ branch'[c] = NoBranches
    BY <1>1, <1>10, <2>1 DEF VolumeDelete, VolumeDeleteBatch, BranchEnds,
                             BranchRaises, Return
  <2>3. ASSUME NEW k \in call[c].keys, NEW v \in Volume, Indexed(k, v)
        PROVE  FALSE
    <3>1. pc[c] = "delete" /\ branch[c][v].stage = "notify_delete"
      BY <1>1, <2>2, <2>3 DEF DeletesReachAll
    <3>2. v # w
      BY <2>1, <3>1
    <3>3. branch'[c][v] = branch[c][v]
      BY <1>1, <2>2, <3>2
    <3> QED BY <2>2, <3>1, <3>3 DEF NoBranches, NoBranch
  <2>4. \A k \in call[c].keys : k \in Key /\ DeleteCalled(c, k)
    <3>1. call[c] \in [op : Ops, keys : SUBSET Key, wants : Wants]
      BY <1>1 DEF TypeOK, ClientTypeOK
    <3> QED BY <2>2, <3>1 DEF DeleteCalled
  <2>5. \A k \in call[c].keys : \A d \in Client : ~Putting(d, k)
    BY <1>1, <2>4 DEF CallsApart
  <2> QED BY <1>2, <2>1, <2>3, <2>5 DEF controllerVars, Indexed
<1> QED BY <1>3, <1>4, <1>5, <1>6, <1>7, <1>8, <1>9, <1>10 DEF Acts, Deletes

(***************************************************************************)
(* A delete or delete_batch that returns has removed its keys from the     *)
(* index, and what is left of them on a volume is about to be deleted by   *)
(* a coroutine of another delete.  The conditions are those of NoOrphans.  *)
(***************************************************************************)
THEOREM DeletesAreFinal ==
  ASSUME Discipline = "drained", KeysKeepType, NoneLeftBehind
  PROVE  Spec => DeleteIsFinal
<1> DEFINE Final ==
      \A c \in Client :
       (/\ pc'[c] = "idle" /\ outcome'[c] = "ok"
        /\ call'[c].op \in {"delete", "delete_batch"}
        /\ pc[c] # "idle" \/ call[c] # call'[c])
         => \A k \in call'[c].keys : \A v \in Volume :
              /\ ~Indexed(k, v)'
              /\ Stored(v, k)' => \E d \in Client : k \in branch'[d][v].keys
<1>1. DeleteInv /\ DeleteInv' /\ [Next]_vars => [Final]_vars
  <2> SUFFICES ASSUME DeleteInv, DeleteInv', [Next]_vars, vars' # vars PROVE Final
    OBVIOUS
  <2>1. PICK e \in Client : Acts(e)
    BY NextIsOneAct
  <2> SUFFICES ASSUME NEW c \in Client,
                      pc'[c] = "idle", outcome'[c] = "ok",
                      call'[c].op \in {"delete", "delete_batch"},
                      pc[c] # "idle" \/ call[c] # call'[c],
                      NEW k \in call'[c].keys, NEW v \in Volume
               PROVE  /\ ~Indexed(k, v)'
                      /\ Stored(v, k)' =>
                           \E d \in Client : k \in branch'[d][v].keys
    OBVIOUS
  <2>2. e = c
    BY <2>1, OthersRest DEF Rests, DeleteInv, CallInv, TypeInv
  <2>3. ~Indexed(k, v)' /\ \A d \in Client : ~Putting(d, k)'
    BY <2>1, <2>2, DeleteReturns
  <2>4. k \in Key
    <3>1. call'[c] \in [op : Ops, keys : SUBSET Key, wants : Wants]
      BY DEF DeleteInv, CallInv, TypeInv, TypeOK, ClientTypeOK
    <3> QED BY <3>1
  <2>5. OrphanHasOwner'
    BY DEF DeleteInv
  <2> QED BY <2>3, <2>4, <2>5 DEF OrphanHasOwner
<1> QED BY <1>1, InitDeletes, NextDeletes, PTL DEF Spec, DeleteIsFinal

-----------------------------------------------------------------------------
(* Every slice of a key is one register *)

(* Some client puts this slice of the key through this volume. *)
PutAt(v, k, s) ==
  \E c \in Client : \E rs \in PutMenu[c] : \E i \in DOMAIN rs :
    Home[c] = v /\ rs[i].key = k /\ rs[i].slice = s

(* Each slice of a key is put through one volume. *)
OnePlace ==
  \A k \in Key : \A s \in Slice \cup {NoSlice} : \A u, v \in Volume :
    PutAt(u, k, s) /\ PutAt(v, k, s) => u = v

(* What an entry holds was put where it is; a coordinate has one shard. *)
InPlace(v, k, entry) ==
  /\ entry.type \in {"OBJECT", "TENSOR"} =>
       PutAt(v, k, NoSlice) /\ entry.data \in Value
  /\ \A i \in DOMAIN entry.shards : PutAt(v, k, entry.shards[i].slice)
  /\ \A i, j \in DOMAIN entry.shards :
       entry.shards[i].slice.coordinates = entry.shards[j].slice.coordinates
         => i = j

StoredAtPlace == \A v \in Volume : \A k \in Key : InPlace(v, k, store[v][k])

ListedAtPlace ==
  \A k \in Key : \A v \in Volume : \A s \in index[k][v].tensor_slices :
    PutAt(v, k, s)

(* A get still fetches what it asked for. *)
FetchAsked ==
  \A c \in Client : pc[c] = "fetch" =>
    /\ call[c].keys = DOMAIN call[c].wants
    /\ \A v \in Volume : \A sub \in fetch[c][v] :
         /\ sub.key \in DOMAIN call[c].wants
         /\ sub.region \in Atomic!Regions(call[c].wants[sub.key])

PlaceInv == StoredAtPlace /\ ListedAtPlace /\ FetchAsked

AtomicInv == IndexInv /\ ReadInv /\ PlaceInv

(* Nothing is stored, listed or fetched at first. *)
LEMMA InitPlace == Init => PlaceInv
<1> SUFFICES ASSUME Init PROVE PlaceInv
  OBVIOUS
<1>1. StoredAtPlace
  BY DEF Init, VolumeInit, NoEntry, StoredAtPlace, InPlace
<1>2. ListedAtPlace
  BY DEF Init, ControllerInit, NoInfo, ListedAtPlace
<1>3. FetchAsked
  BY DEF Init, FetchAsked
<1> QED BY <1>1, <1>2, <1>3 DEF PlaceInv

(* A put leaves one shard per coordinate, put at this volume. *)
LEMMA StoreEntryInPlace ==
  ASSUME NEW v \in Volume, NEW k \in Key, NEW entry \in Entry, NEW r \in Request,
         InPlace(v, k, entry), PutAt(v, k, r.slice)
  PROVE  InPlace(v, k, StoreEntry(entry, r))
<1>1. CASE r.object_type \in {"OBJECT", "TENSOR"}
  <2>1. r.slice = NoSlice /\ r.data \in Value
    BY <1>1 DEF Request
  <2> QED BY <1>1, <2>1 DEF StoreEntry, InPlace
<1>2. CASE r.object_type = "TENSOR_SLICE"
  <2> DEFINE shard == [slice |-> r.slice, data |-> r.data]
             at == { i \in DOMAIN entry.shards :
                       entry.shards[i].slice.coordinates = r.slice.coordinates }
             new == StoreShard(entry, r)
  <2>1. r.slice \in Slice /\ shard \in Shard
    BY <1>2 DEF Request, Shard
  <2>2. entry.shards \in Seq(Shard)
    BY DEF Entry
  <2>3. new.type = "SHARDS" /\ StoreEntry(entry, r) = new
    BY <1>2 DEF StoreShard, StoreEntry
  <2>4. \A i, j \in DOMAIN entry.shards :
          entry.shards[i].slice.coordinates = entry.shards[j].slice.coordinates
            => i = j
    BY DEF InPlace
  <2>5. \A i \in DOMAIN entry.shards : PutAt(v, k, entry.shards[i].slice)
    BY DEF InPlace
  <2>6. CASE at = {}
    <3>1. new.shards = Append(entry.shards, shard)
      BY <2>6 DEF StoreShard
    <3>2. /\ DOMAIN new.shards = DOMAIN entry.shards \cup {Len(entry.shards) + 1}
          /\ \A i \in DOMAIN entry.shards : new.shards[i] = entry.shards[i]
          /\ new.shards[Len(entry.shards) + 1] = shard
      BY <2>1, <2>2, <3>1
    <3>3. \A i \in DOMAIN entry.shards :
            entry.shards[i].slice.coordinates # shard.slice.coordinates
      BY <2>6
    <3>4. shard.slice = r.slice
      OBVIOUS
    <3> HIDE DEF new, shard, at
    <3>5. \A i \in DOMAIN new.shards : PutAt(v, k, new.shards[i].slice)
      BY <2>5, <3>2, <3>4
    <3>6. \A i, j \in DOMAIN new.shards :
            new.shards[i].slice.coordinates = new.shards[j].slice.coordinates
              => i = j
      BY <2>4, <3>2, <3>3
    <3> QED BY <2>3, <3>5, <3>6 DEF InPlace
  <2>7. CASE at # {}
    <3>1. new.shards = [i \in DOMAIN entry.shards |->
                          IF i \in at THEN shard ELSE entry.shards[i]]
      BY <2>7 DEF StoreShard
    <3>2. \A i \in DOMAIN entry.shards :
            /\ i \in at => new.shards[i].slice = r.slice
            /\ i \notin at => new.shards[i].slice = entry.shards[i].slice
      BY <3>1
    <3>3. \A i \in DOMAIN entry.shards :
            new.shards[i].slice.coordinates = entry.shards[i].slice.coordinates
      BY <3>2
    <3>4. DOMAIN new.shards = DOMAIN entry.shards
      BY <3>1
    <3> HIDE DEF new, shard, at
    <3>5. \A i \in DOMAIN new.shards : PutAt(v, k, new.shards[i].slice)
      BY <2>5, <3>2, <3>4
    <3>6. \A i, j \in DOMAIN new.shards :
            new.shards[i].slice.coordinates = new.shards[j].slice.coordinates
              => i = j
      BY <2>4, <3>3, <3>4
    <3> QED BY <2>3, <3>5, <3>6 DEF InPlace
  <2> QED BY <2>6, <2>7
<1> QED BY <1>1, <1>2 DEF Request, ObjectType

(* Every step leaves each volume with what was put through it. *)
LEMMA StoredAtPlaceStep ==
  ASSUME CallInv, StoredAtPlace, NEW c \in Client, Acts(c)
  PROVE  StoredAtPlace'
<1> SUFFICES ASSUME NEW v \in Volume, NEW k \in Key
             PROVE  InPlace(v, k, store'[v][k])
  BY DEF StoredAtPlace
<1>1. InPlace(v, k, store[v][k])
  BY DEF StoredAtPlace
<1>2. CASE store'[v][k] = store[v][k]
  BY <1>1, <1>2
<1>3. CASE store'[v][k] = NoEntry
  BY <1>3 DEF NoEntry, InPlace
<1>4. CASE /\ v = Home[c] /\ pc[c] = "put"
           /\ \E i \in DOMAIN reqs[c] :
                /\ reqs[c][i].key = k
                /\ store'[v][k] = StoreEntry(store[v][k], reqs[c][i])
  <2>1. PICK i \in DOMAIN reqs[c] :
          reqs[c][i].key = k /\ store'[v][k] = StoreEntry(store[v][k], reqs[c][i])
    BY <1>4
  <2>2. reqs[c] \in PutMenu[c]
    BY <1>4 DEF CallInv, MenuInv, BatchesFromMenu
  <2>3. PutAt(v, k, reqs[c][i].slice)
    BY <1>4, <2>1, <2>2 DEF PutAt
  <2>4. reqs[c][i] \in Request
    BY <2>2, RequestOfMenu
  <2>5. store[v][k] \in Entry
    BY DEF CallInv, TypeInv, TypeOK, VolumeTypeOK
  <2> QED BY <1>1, <2>1, <2>3, <2>4, <2>5, StoreEntryInPlace
<1> QED BY <1>2, <1>3, <1>4, StoreChange DEF CallInv

(* What a notification lists was put through the volume it names. *)
LEMMA ListedAtPlaceStep ==
  ASSUME CallInv, ListedAtPlace, NEW c \in Client, Acts(c)
  PROVE  ListedAtPlace'
<1> SUFFICES ASSUME NEW k \in Key, NEW v \in Volume,
                    NEW s \in index'[k][v].tensor_slices
             PROVE  PutAt(v, k, s)
  BY DEF ListedAtPlace
<1>1. CASE index'[k][v] = index[k][v]
  BY <1>1 DEF ListedAtPlace
<1>2. CASE index'[k][v] = NoInfo
  BY <1>2 DEF NoInfo
<1>3. CASE /\ v = Home[c] /\ NotifyPut(c)
           /\ \E i \in DOMAIN reqs[c] :
                /\ reqs[c][i].key = k
                /\ index'[k][v] = Merge(index[k][v], reqs[c][i])
  <2>1. PICK i \in DOMAIN reqs[c] :
          reqs[c][i].key = k /\ index'[k][v] = Merge(index[k][v], reqs[c][i])
    BY <1>3
  <2>2. reqs[c] \in PutMenu[c]
    BY <1>3 DEF CallInv, MenuInv, BatchesFromMenu, NotifyPut
  <2>3. s \in index[k][v].tensor_slices \/ s = reqs[c][i].slice
    BY <2>1 DEF Merge
  <2> QED BY <1>3, <2>1, <2>2, <2>3 DEF PutAt, ListedAtPlace
<1> QED BY <1>1, <1>2, <1>3, IndexChange DEF CallInv

(* What a get asks of one key and volume. *)
LEMMA SubRequestsAsk ==
  ASSUME IndexFromMenu, NEW k \in Key, NEW v \in Volume, NEW want \in Want,
         ~want.sliced => want.region = Cell, NEW sub \in SubRequests(k, v, want)
  PROVE  sub.key = k /\ sub.region \in Atomic!Regions(want)
<1> DEFINE object == [key |-> k, sliced |-> FALSE, region |-> Cell]
           tensor == [key |-> k, sliced |-> want.sliced, region |-> want.region]
<1>1. CASE IsFirstWhole(k, v)
  <2>1. SubRequests(k, v, want) =
          { IF index[k][v].object_type = "OBJECT" THEN object ELSE tensor }
    <3>1. v \notin Visited(k)
      BY <1>1 DEF IsFirstWhole, Visited
    <3> QED BY <1>1, <3>1 DEF SubRequests
  <2>2. /\ object.key = k /\ tensor.key = k
        /\ object.region = Cell /\ tensor.region = want.region
    OBVIOUS
  <2>3. Cell \in Atomic!Regions(want)
    BY DEF Atomic!Regions
  <2>4. want.region \in Atomic!Regions(want)
    <3>1. Cell \cap want.region = want.region
      BY DEF Want
    <3>2. Atomic!Box(NoSlice) = Cell
      BY DEF Atomic!Box
    <3> QED BY <3>1, <3>2 DEF Atomic!Regions, Atomic!Slot
  <2> HIDE DEF object, tensor
  <2> QED BY <2>1, <2>2, <2>3, <2>4
<1>2. CASE ~IsFirstWhole(k, v)
  <2>1. PICK s \in index[k][v].tensor_slices :
          /\ v \in Visited(k)
          /\ sub = [key |-> k, sliced |-> TRUE, region |-> s.region \cap want.region]
    BY <1>2 DEF SubRequests
  <2>2. s \in SlicesPut(k)
    BY <2>1, VisitedSlicesPut DEF VisitedSlices
  <2>3. s \in Slice /\ s # NoSlice
    BY <2>2, SliceAssumption DEF SlicesPut
  <2>4. Atomic!Box(s) = s.region
    BY <2>3 DEF Atomic!Box
  <2>5. s.region \cap want.region \in Atomic!Regions(want)
    BY <2>3, <2>4 DEF Atomic!Regions, Atomic!Slot
  <2> QED BY <2>1, <2>5
<1> QED BY <1>1, <1>2

(* A get that goes on asks for less, one that starts asks for its wants. *)
LEMMA FetchAskedStep ==
  ASSUME CallInv, FetchAsked, NEW c \in Client, Acts(c)
  PROVE  FetchAsked'
<1>1. TypeOK /\ ClientTypeOK
  BY DEF CallInv, TypeInv, TypeOK
<1>2. ASSUME NEW d \in Client, d # c, pc'[d] = "fetch"
      PROVE  /\ call'[d].keys = DOMAIN call'[d].wants
             /\ \A v \in Volume : \A sub \in fetch'[d][v] :
                  /\ sub.key \in DOMAIN call'[d].wants
                  /\ sub.region \in Atomic!Regions(call'[d].wants[sub.key])
  <2>1. Rests(d)
    BY <1>1, <1>2, OthersRest
  <2> QED BY <1>2, <2>1 DEF Rests, FetchAsked
<1>3. ASSUME pc'[c] = "fetch"
      PROVE  /\ call'[c].keys = DOMAIN call'[c].wants
             /\ \A v \in Volume : \A sub \in fetch'[c][v] :
                  /\ sub.key \in DOMAIN call'[c].wants
                  /\ sub.region \in Atomic!Regions(call'[c].wants[sub.key])
  <2>1. CASE Puts(c)
    BY <1>1, <1>3, <2>1
    DEF Puts, StartPut, VolumePut, NotifyPut, Goto, Return, ClientTypeOK
  <2>2. CASE Deletes(c)
    <3>1. CASE \/ \E k \in DeleteMenu : StartDelete(c, k)
               \/ \E keys \in BatchMenu : StartDeleteBatch(c, keys)
               \/ NotifyDeleteKeys(c)
      BY <1>1, <1>3, <3>1
      DEF StartDelete, StartDeleteBatch, NotifyDeleteKeys, Goto, Return, ClientTypeOK
    <3>2. CASE \/ \E v \in Volume : NotifyDeleteFrom(c, v)
               \/ \E v \in Volume : VolumeDelete(c, v)
               \/ \E v \in Volume : VolumeDeleteBatch(c, v)
               \/ \E v \in Volume : BranchFails(c, v)
      <4>1. pc[c] = "fetch" /\ call' = call /\ fetch' = fetch
        BY <1>1, <1>3, <3>2
        DEF NotifyDeleteFrom, VolumeDelete, VolumeDeleteBatch, BranchFails,
            BranchEnds, BranchRaises, Return, ClientTypeOK
      <4> QED BY <4>1 DEF FetchAsked
    <3> QED BY <2>2, <3>1, <3>2 DEF Deletes
  <2>3. CASE CallFails(c) \/ \E k \in Key : Exists(c, k)
    BY <1>1, <1>3, <2>3 DEF CallFails, Exists, Return, ClientTypeOK
  <2>4. ASSUME NEW wants \in GetMenu, StartGet(c, wants)
        PROVE  /\ call'[c].keys = DOMAIN call'[c].wants
               /\ \A v \in Volume : \A sub \in fetch'[c][v] :
                    /\ sub.key \in DOMAIN call'[c].wants
                    /\ sub.region \in Atomic!Regions(call'[c].wants[sub.key])
    <3>1. call'[c].wants = wants /\ call'[c].keys = DOMAIN wants
      BY <1>1, <2>4 DEF StartGet, Begin, ClientTypeOK
    <3>2. fetch'[c] = FetchPlan(wants)
      BY <1>1, <1>3, <2>4 DEF StartGet, Return, ClientTypeOK
    <3>3. ASSUME NEW v \in Volume, NEW sub \in FetchPlan(wants)[v]
          PROVE  /\ sub.key \in DOMAIN wants
                 /\ sub.region \in Atomic!Regions(wants[sub.key])
      <4>1. PICK k \in DOMAIN wants : sub \in SubRequests(k, v, wants[k])
        BY <3>3 DEF FetchPlan
      <4>2. /\ k \in Key /\ wants[k] \in Want
            /\ ~wants[k].sliced => wants[k].region = Cell
        BY WantsAre, MenuAssumption
      <4>3. sub.key = k /\ sub.region \in Atomic!Regions(wants[k])
        BY <4>1, <4>2, SubRequestsAsk DEF CallInv, MenuInv
      <4> QED BY <4>3
    <3> QED BY <3>1, <3>2, <3>3
  <2>5. ASSUME NEW v \in Volume, NEW subs \in SUBSET fetch[c][v], VolumeGet(c, v, subs)
        PROVE  /\ call'[c].keys = DOMAIN call'[c].wants
               /\ \A u \in Volume : \A sub \in fetch'[c][u] :
                    /\ sub.key \in DOMAIN call'[c].wants
                    /\ sub.region \in Atomic!Regions(call'[c].wants[sub.key])
    <3>1. pc[c] = "fetch" /\ call' = call
      BY <2>5 DEF VolumeGet
    <3>2. \A u \in Volume : fetch'[c][u] \subseteq fetch[c][u]
      <4>1. \/ fetch' = [fetch EXCEPT ![c] = NoFetch]
            \/ fetch' = [fetch EXCEPT
                 ![c] = [fetch[c] EXCEPT ![v] = fetch[c][v] \ subs]]
        BY <2>5 DEF VolumeGet
      <4>2. fetch[c] \in [Volume -> SUBSET SubRequest] /\ c \in DOMAIN fetch
        BY <1>1 DEF ClientTypeOK
      <4>3. fetch'[c] \in {NoFetch, [fetch[c] EXCEPT ![v] = fetch[c][v] \ subs]}
        BY <4>1, <4>2
      <4> QED BY <4>2, <4>3 DEF NoFetch
    <3> QED BY <3>1, <3>2 DEF FetchAsked
  <2> QED BY <2>1, <2>2, <2>3, <2>4, <2>5 DEF Acts, Reads
<1> QED BY <1>2, <1>3 DEF FetchAsked

(* PlaceInv is inductive. *)
LEMMA NextPlace == CallInv /\ PlaceInv /\ [Next]_vars => PlaceInv'
<1> SUFFICES ASSUME CallInv, PlaceInv, [Next]_vars PROVE PlaceInv'
  OBVIOUS
<1>1. CASE UNCHANGED vars
  BY <1>1 DEF vars, controllerVars, clientVars, PlaceInv, StoredAtPlace,
     ListedAtPlace, FetchAsked
<1>2. CASE \E c \in Client : Acts(c)
  BY <1>2, StoredAtPlaceStep, ListedAtPlaceStep, FetchAskedStep DEF PlaceInv
<1> QED BY <1>1, <1>2, NextIsOneAct

(* What an entry holds of a slice is one datum, put through its volume. *)
LEMMA DataInType ==
  ASSUME NEW v \in Volume, NEW k \in Key, NEW entry \in Entry,
         InPlace(v, k, entry), NEW s \in Slice \cup {NoSlice},
         NEW d \in DataIn(entry, s)
  PROVE  d \in Value /\ PutAt(v, k, s) /\ DataIn(entry, s) = {d}
<1>1. CASE s = NoSlice
  <2>1. entry.type \in {"OBJECT", "TENSOR"} /\ DataIn(entry, s) = {entry.data}
    BY <1>1 DEF DataIn
  <2> QED BY <1>1, <2>1 DEF InPlace
<1>2. CASE s # NoSlice
  <2>1. DataIn(entry, s) =
          { entry.shards[i].data :
              i \in { j \in DOMAIN entry.shards : entry.shards[j].slice = s } }
    BY <1>2 DEF DataIn
  <2>2. PICK i \in DOMAIN entry.shards :
          entry.shards[i].slice = s /\ d = entry.shards[i].data
    BY <2>1
  <2>3. \A j \in DOMAIN entry.shards : entry.shards[j].slice = s => j = i
    BY <2>2 DEF InPlace
  <2>4. entry.shards[i] \in Shard
    BY <2>2 DEF Entry
  <2>5. d \in Value /\ PutAt(v, k, s)
    BY <2>2, <2>4 DEF Shard, InPlace
  <2> QED BY <2>1, <2>2, <2>3, <2>5
<1> QED BY <1>1, <1>2

(* The register of a slice is what the one volume that has it holds. *)
LEMMA PlacedData ==
  ASSUME OnePlace, VolumeTypeOK, StoredAtPlace,
         NEW v \in Volume, NEW k \in Key, NEW s \in Slice \cup {NoSlice},
         NEW d \in DataIn(store[v][k], s)
  PROVE  /\ Register(k, s) = d /\ d # NoValue
         /\ DataIn(store[v][k], s) = {d}
         /\ \A u \in Volume : u # v => DataIn(store[u][k], s) = {}
<1>1. \A u \in Volume : store[u][k] \in Entry /\ InPlace(u, k, store[u][k])
  BY DEF VolumeTypeOK, StoredAtPlace
<1>2. d \in Value /\ PutAt(v, k, s) /\ DataIn(store[v][k], s) = {d}
  BY <1>1, DataInType
<1>3. ASSUME NEW u \in Volume, u # v, NEW e \in DataIn(store[u][k], s)
      PROVE  FALSE
  BY <1>1, <1>2, <1>3, DataInType DEF OnePlace
<1>4. Held(k, s) = {d}
  BY <1>2, <1>3 DEF Held
<1> QED BY <1>2, <1>3, <1>4, NoValueAssumption DEF Register

(* A register is empty if no volume holds anything of its slice. *)
LEMMA NoPlacedData ==
  ASSUME NEW k, NEW s, \A v \in Volume : DataIn(store[v][k], s) = {}
  PROVE  Register(k, s) = NoValue
<1>1. Held(k, s) = {}
  BY DEF Held
<1> QED BY <1>1 DEF Register

(* A put replaces what the entry holds of its slice, and nothing else. *)
LEMMA PutData ==
  ASSUME KeysKeepType, SlicesKeepPlace, NEW k \in Key, NEW entry \in Entry,
         NEW r \in Menu(k), NEW s \in Slice \cup {NoSlice},
         entry.type # "NONE" =>
           \E q \in Menu(k) : entry.type = EntryOf(q.object_type),
         \A i \in DOMAIN entry.shards : entry.shards[i].slice \in SlicesPut(k)
  PROVE  /\ s = r.slice => DataIn(StoreEntry(entry, r), s) = {r.data}
         /\ s # r.slice => DataIn(StoreEntry(entry, r), s) = DataIn(entry, s)
<1> DEFINE new == StoreEntry(entry, r)
<1>1. r \in Request
  BY DEF Menu
<1>2. \A q \in Menu(k) : q.object_type = r.object_type
  BY DEF KeysKeepType
<1>3. CASE r.object_type \in {"OBJECT", "TENSOR"}
  <2>1. r.slice = NoSlice
    BY <1>1, <1>3 DEF Request
  <2>2. new.type = r.object_type /\ new.data = r.data /\ new.shards = <<>>
    BY <1>3 DEF StoreEntry
  <2>3. CASE s = NoSlice
    BY <1>3, <2>1, <2>2, <2>3 DEF DataIn
  <2>4. CASE s # NoSlice
    <3>1. \A i \in DOMAIN entry.shards : FALSE
      BY <1>2, <1>3 DEF SlicesPut
    <3>2. DataIn(entry, s) = {}
      BY <2>4, <3>1 DEF DataIn
    <3>3. DataIn(new, s) = {}
      BY <2>2, <2>4 DEF DataIn
    <3> QED BY <2>1, <2>4, <3>2, <3>3
  <2> QED BY <2>3, <2>4
<1>4. CASE r.object_type = "TENSOR_SLICE"
  <2> DEFINE shard == [slice |-> r.slice, data |-> r.data]
             at == { i \in DOMAIN entry.shards :
                       entry.shards[i].slice.coordinates = r.slice.coordinates }
             Of(shards) == { shards[i].data :
                               i \in { j \in DOMAIN shards : shards[j].slice = s } }
  <2>1. r.slice \in Slice /\ r.slice # NoSlice /\ shard \in Shard
    BY <1>1, <1>4 DEF Request, Shard
  <2>2. new = StoreShard(entry, r) /\ new.type = "SHARDS"
    BY <1>4 DEF StoreEntry, StoreShard
  <2>3. CASE s = NoSlice
    <3>1. entry.type \notin {"OBJECT", "TENSOR"}
      BY <1>2, <1>4 DEF EntryOf
    <3>2. DataIn(entry, s) = {} /\ DataIn(new, s) = {}
      BY <2>2, <2>3, <3>1 DEF DataIn
    <3> QED BY <2>1, <2>3, <3>2
  <2>4. CASE s # NoSlice
    <3>1. DataIn(entry, s) = Of(entry.shards) /\ DataIn(new, s) = Of(new.shards)
      BY <2>4 DEF DataIn
    <3>2. \A i \in at : entry.shards[i].slice = r.slice
      BY <1>4, SliceOfMenu DEF SlicesKeepPlace
    <3>3. \A i \in DOMAIN entry.shards : entry.shards[i].slice = r.slice => i \in at
      OBVIOUS
    <3>4. entry.shards \in Seq(Shard)
      BY DEF Entry
    <3>5. shard.slice = r.slice /\ shard.data = r.data
      OBVIOUS
    <3>6. ASSUME at = {}
          PROVE  /\ s = r.slice => Of(new.shards) = {r.data}
                 /\ s # r.slice => Of(new.shards) = Of(entry.shards)
      <4>1. new.shards = Append(entry.shards, shard)
        BY <2>2, <3>6 DEF StoreShard
      <4>2. /\ DOMAIN new.shards = DOMAIN entry.shards \cup {Len(entry.shards) + 1}
            /\ \A i \in DOMAIN entry.shards : new.shards[i] = entry.shards[i]
            /\ new.shards[Len(entry.shards) + 1] = shard
        BY <2>1, <3>4, <4>1
      <4>3. Len(entry.shards) + 1 \notin DOMAIN entry.shards
        BY <3>4
      <4> HIDE DEF new, shard, at
      <4>4. ASSUME s = r.slice
            PROVE  { j \in DOMAIN new.shards : new.shards[j].slice = s }
                     = {Len(entry.shards) + 1}
        BY <3>3, <3>5, <3>6, <4>2, <4>4
      <4>5. ASSUME s # r.slice
            PROVE  { j \in DOMAIN new.shards : new.shards[j].slice = s }
                     = { j \in DOMAIN entry.shards : entry.shards[j].slice = s }
        BY <3>5, <4>2, <4>3, <4>5
      <4> QED BY <3>5, <4>2, <4>4, <4>5
    <3>7. ASSUME at # {}
          PROVE  /\ s = r.slice => Of(new.shards) = {r.data}
                 /\ s # r.slice => Of(new.shards) = Of(entry.shards)
      <4>1. new.shards = [i \in DOMAIN entry.shards |->
                            IF i \in at THEN shard ELSE entry.shards[i]]
        BY <2>2, <3>7 DEF StoreShard
      <4>2. at \subseteq DOMAIN entry.shards
        OBVIOUS
      <4> HIDE DEF new, shard, at
      <4>3. s = r.slice => Of(new.shards) = {r.data}
        BY <3>2, <3>3, <3>5, <3>7, <4>1, <4>2
      <4>4. ASSUME s # r.slice PROVE Of(new.shards) = Of(entry.shards)
        <5>1. { j \in DOMAIN new.shards : new.shards[j].slice = s }
                = { j \in DOMAIN entry.shards : entry.shards[j].slice = s }
          BY <3>2, <3>5, <4>1, <4>4
        <5>2. \A j \in DOMAIN entry.shards :
                entry.shards[j].slice = s => new.shards[j] = entry.shards[j]
          BY <3>2, <4>1, <4>4
        <5> QED BY <5>1, <5>2
      <4> QED BY <4>3, <4>4
    <3> QED BY <3>1, <3>6, <3>7
  <2> QED BY <2>3, <2>4
<1> QED BY <1>1, <1>3, <1>4 DEF Request, ObjectType

(* What a step of one client leaves of the registers as it is. *)
LEMMA AtomicFrame ==
  ASSUME TypeOK, NEW c \in Client, Acts(c)
  PROVE  /\ Calls' = [Calls EXCEPT ![c] = CallOf(c)']
         /\ Deletions' = [Deletions EXCEPT ![c] = Deleting(c)']
         /\ Calls[c] = CallOf(c) /\ Deletions[c] = Deleting(c)
         /\ index' = index => Listings' = Listings
         /\ store' = store => Registers' = Registers
         /\ branch' = branch => Deletions' = Deletions
<1>1. ASSUME NEW d \in Client, d # c
      PROVE  CallOf(d)' = CallOf(d) /\ Deleting(d)' = Deleting(d)
  <2>1. Rests(d)
    BY <1>1, OthersRest
  <2>2. CallOf(d)' = CallOf(d)
    BY <2>1 DEF Rests, CallOf
  <2>3. Deleting(d)' = Deleting(d)
    BY <2>1 DEF Rests, Deleting
  <2> QED BY <2>2, <2>3
<1>2. Calls' = [Calls EXCEPT ![c] = CallOf(c)']
  BY <1>1 DEF Calls
<1>3. Deletions' = [Deletions EXCEPT ![c] = Deleting(c)']
  BY <1>1 DEF Deletions
<1>4. index' = index => Listings' = Listings
  BY DEF Listings, ListedSlices
<1>5. store' = store => Registers' = Registers
  BY DEF Registers, Register, Held
<1>6. branch' = branch => Deletions' = Deletions
  BY DEF Deletions, Deleting
<1> QED BY <1>2, <1>3, <1>4, <1>5, <1>6 DEF Calls, Deletions

(* A call that raises, or gives way to one that reads nothing. *)
LEMMA EndsImplemented ==
  ASSUME TypeOK, NEW c \in Client, Acts(c), UNCHANGED <<index, store, branch>>,
         CallOf(c)' = [op |-> "none"]
  PROVE  Atomic!Ends(c)
BY AtomicFrame DEF Atomic!Ends, Atomic!Becomes, Atomic!NoCall

(* A client between calls may start one. *)
LEMMA IdleIsFree ==
  ASSUME NEW c \in Client, pc[c] = "idle"
  PROVE  Atomic!Free(c)
BY DEF Atomic!Free, Calls, CallOf

(* What CallOf says of a call that is under way or over. *)
LEMMA CallIs ==
  ASSUME NEW c \in Client
  PROVE  /\ pc[c] \in {"put", "notify"} =>
              CallOf(c) = [op |-> "put",
                           left |-> Items(reqs[c], sent[c] + 1 .. Len(reqs[c])),
                           done |-> Items(reqs[c], 1 .. sent[c])]
         /\ pc[c] = "fetch" =>
              CallOf(c) = [op |-> "get", wants |-> call[c].wants, parts |-> parts[c]]
         /\ pc[c] \in {"delete", "notify_batch", "delete_batch"} =>
              CallOf(c) = [op |-> "none"]
         /\ pc[c] = "idle" /\ outcome[c] # "ok" => CallOf(c) = [op |-> "none"]
         /\ pc[c] = "idle" /\ call[c].op \notin {"put", "get"} =>
              CallOf(c) = [op |-> "none"]
         /\ pc[c] = "idle" /\ outcome[c] = "ok" /\ call[c].op = "put" =>
              CallOf(c) = [op |-> "stored"]
         /\ pc[c] = "idle" /\ outcome[c] = "ok" /\ call[c].op = "get" =>
              CallOf(c) = [op |-> "got", wants |-> call[c].wants, parts |-> parts[c]]
BY DEF CallOf

-----------------------------------------------------------------------------
(* A put writes registers *)

(* Building the requests of a batch starts the put of its items. *)
LEMMA StartPutImplemented ==
  ASSUME TypeOK, NEW c \in Client, Acts(c), NEW rs \in PutMenu[c], StartPut(c, rs)
  PROVE  Atomic!StartPut(c, Items(rs, DOMAIN rs))
<1>1. /\ pc[c] = "idle" /\ pc'[c] = "put" /\ reqs'[c] = rs /\ sent'[c] = 0
      /\ UNCHANGED <<index, store, branch>>
  BY DEF StartPut, Begin, Goto, controllerVars, TypeOK, ClientTypeOK
<1>2. rs \in Seq(Request)
  BY MenuAssumption DEF IsBatch
<1>3. DOMAIN rs = 0 + 1 .. Len(rs) /\ 1 .. 0 = {}
  BY <1>2
<1>4. CallOf(c)' = [op |-> "put", left |-> Items(rs, DOMAIN rs), done |-> {}]
  <2>1. CallOf(c)' = [op |-> "put",
                      left |-> Items(reqs'[c], sent'[c] + 1 .. Len(reqs'[c])),
                      done |-> Items(reqs'[c], 1 .. sent'[c])]
    BY <1>1 DEF CallOf, Items
  <2>2. Items(rs, 1 .. 0) = {}
    BY <1>3 DEF Items
  <2> QED BY <1>1, <1>3, <2>1, <2>2
<1>5. Items(rs, DOMAIN rs) \in ItemMenu[c]
  BY DEF ItemMenu
<1> QED BY <1>1, <1>4, <1>5, AtomicFrame, IdleIsFree
        DEF Atomic!StartPut, Atomic!Becomes

(* The requests of a batch are told apart by their keys. *)
LEMMA ItemsApart ==
  ASSUME NEW rs, IsBatch(rs), NEW i \in DOMAIN rs, NEW j \in DOMAIN rs,
         Item(rs[i]) = Item(rs[j])
  PROVE  i = j
<1>1. rs[i].key = rs[j].key
  BY DEF Item
<1> QED BY <1>1 DEF IsBatch

(* Sending more of a batch moves its items from left to done. *)
LEMMA ItemsSplit ==
  ASSUME NEW rs, IsBatch(rs), NEW m \in Nat, NEW n \in m .. Len(rs)
  PROVE  /\ Items(rs, m + 1 .. n) \subseteq Items(rs, m + 1 .. Len(rs))
         /\ Items(rs, n + 1 .. Len(rs))
              = Items(rs, m + 1 .. Len(rs)) \ Items(rs, m + 1 .. n)
         /\ Items(rs, 1 .. n) = Items(rs, 1 .. m) \cup Items(rs, m + 1 .. n)
<1>1. rs \in Seq(Request) /\ Len(rs) \in Nat /\ DOMAIN rs = 1 .. Len(rs)
  BY DEF IsBatch
<1>2. m + 1 .. Len(rs) = (m + 1 .. n) \cup (n + 1 .. Len(rs))
  BY <1>1
<1>3. 1 .. n = (1 .. m) \cup (m + 1 .. n)
  BY <1>1
<1>4. \A I, J : Items(rs, I \cup J) = Items(rs, I) \cup Items(rs, J)
  BY DEF Items
<1>5. Items(rs, m + 1 .. n) \cap Items(rs, n + 1 .. Len(rs)) = {}
  <2> SUFFICES ASSUME NEW i \in m + 1 .. n, NEW j \in n + 1 .. Len(rs),
                      Item(rs[i]) = Item(rs[j])
               PROVE  FALSE
    BY DEF Items
  <2>1. i \in DOMAIN rs /\ j \in DOMAIN rs /\ i # j
    BY <1>1
  <2> QED BY <2>1, ItemsApart
<1>6. /\ Items(rs, m + 1 .. Len(rs))
           = Items(rs, m + 1 .. n) \cup Items(rs, n + 1 .. Len(rs))
      /\ Items(rs, 1 .. n) = Items(rs, 1 .. m) \cup Items(rs, m + 1 .. n)
  BY <1>2, <1>3, <1>4
<1>7. \A A, B, C : A = B \cup C /\ B \cap C = {} => B \subseteq A /\ C = A \ B
  OBVIOUS
<1> QED BY <1>5, <1>6, <1>7, Zenon

(* A register changes only with what a volume holds of its slice. *)
LEMMA SameRegister ==
  ASSUME NEW k, NEW s,
         \A v \in Volume : DataIn(store'[v][k], s) = DataIn(store[v][k], s)
  PROVE  Register(k, s)' = Register(k, s)
<1>1. Held(k, s)' = Held(k, s)
  BY DEF Held
<1> QED BY <1>1 DEF Register

(* What one call of volume.put does to the register of a slice. *)
LEMMA PutRegister ==
  ASSUME OnePlace, KeysKeepType, SlicesKeepPlace, CallInv, StoredAtPlace,
         NEW c \in Client, pc[c] = "put", PutVolume(Home[c], Chunk(c)),
         NEW k \in Key, NEW s \in Slice \cup {NoSlice}
  PROVE  \/ /\ Register(k, s)' = Register(k, s)
            /\ \A i \in DOMAIN Chunk(c) : Chunk(c)[i].key = k => Chunk(c)[i].slice # s
         \/ \E i \in DOMAIN Chunk(c) :
              /\ Chunk(c)[i].key = k /\ Chunk(c)[i].slice = s
              /\ Register(k, s)' = Chunk(c)[i].data
<1> DEFINE home == Home[c]
<1>1. TypeInv /\ VolumeTypeOK /\ home \in Volume
  BY MenuAssumption DEF CallInv, TypeInv, TypeOK
<1>2. /\ IsBatch(Chunk(c)) /\ DOMAIN Chunk(c) = 1 .. Len(Chunk(c))
      /\ Len(Chunk(c)) \in Nat /\ sent[c] + Len(Chunk(c)) <= Len(reqs[c])
      /\ \A i \in DOMAIN Chunk(c) : Chunk(c)[i] = reqs[c][sent[c] + i]
  BY <1>1, ChunkIsBatch
<1>3. /\ \A w \in Volume :
           w # home \/ k \notin KeysOf(Chunk(c)) => store'[w][k] = store[w][k]
      /\ \A i \in DOMAIN Chunk(c) : Chunk(c)[i].key = k =>
           store'[home][k] = StoreEntry(store[home][k], Chunk(c)[i])
  BY <1>1, <1>2, PutVolumeEffect
<1>4. CASE k \notin KeysOf(Chunk(c))
  <2>1. Register(k, s)' = Register(k, s)
    BY <1>3, <1>4, SameRegister
  <2> QED BY <1>4, <2>1 DEF KeysOf
<1>5. CASE k \in KeysOf(Chunk(c))
  <2>1. PICK i \in DOMAIN Chunk(c) : Chunk(c)[i].key = k
    BY <1>5 DEF KeysOf
  <2>2. PICK r : r = Chunk(c)[i]
    OBVIOUS
  <2>3. reqs[c] \in PutMenu[c]
    BY DEF CallInv, MenuInv, BatchesFromMenu
  <2>4. r \in Menu(k) /\ PutAt(home, k, r.slice)
    <3>1. sent[c] \in Nat /\ reqs[c] \in Seq(Request)
      BY <1>1 DEF TypeInv, TypeOK, ClientTypeOK
    <3>2. sent[c] + i \in DOMAIN reqs[c] /\ r = reqs[c][sent[c] + i]
      BY <1>2, <2>2, <3>1
    <3>3. r \in Menu(k)
      BY <2>1, <2>2, <2>3, <3>2, RequestOfMenu
    <3> QED BY <2>1, <2>2, <2>3, <3>2, <3>3 DEF PutAt
  <2>5. PICK entry : entry = store[home][k]
    OBVIOUS
  <2>6. /\ entry \in Entry
        /\ entry.type # "NONE" =>
             \E q \in Menu(k) : entry.type = EntryOf(q.object_type)
        /\ \A j \in DOMAIN entry.shards : entry.shards[j].slice \in SlicesPut(k)
    BY <1>1, <2>5 DEF VolumeTypeOK, CallInv, MenuInv, StoreFromMenu, Stored
  <2>7. /\ store'[home][k] = StoreEntry(entry, r)
        /\ \A w \in Volume : w # home => store'[w][k] = store[w][k]
    BY <1>3, <2>1, <2>2, <2>5
  <2>8. /\ s = r.slice => DataIn(store'[home][k], s) = {r.data}
        /\ s # r.slice => DataIn(store'[home][k], s) = DataIn(store[home][k], s)
    BY <2>4, <2>5, <2>6, <2>7, PutData
  <2>9. CASE s = r.slice
    <3>1. ASSUME NEW w \in Volume, w # home, NEW d \in DataIn(store[w][k], s)
          PROVE  FALSE
      <4>1. store[w][k] \in Entry /\ InPlace(w, k, store[w][k])
        BY <1>1 DEF VolumeTypeOK, StoredAtPlace
      <4>2. PutAt(w, k, s)
        BY <3>1, <4>1, DataInType
      <4> QED BY <1>1, <2>4, <2>9, <3>1, <4>2 DEF OnePlace
    <3>2. Held(k, s)' = {r.data}
      BY <1>1, <2>7, <2>8, <2>9, <3>1 DEF Held
    <3>3. Register(k, s)' = r.data
      BY <3>2 DEF Register
    <3> QED BY <2>1, <2>2, <2>9, <3>3
  <2>10. CASE s # r.slice
    <3>1. \A w \in Volume : DataIn(store'[w][k], s) = DataIn(store[w][k], s)
      BY <2>7, <2>8, <2>10
    <3>2. Register(k, s)' = Register(k, s)
      BY <3>1, SameRegister
    <3>3. \A j \in DOMAIN Chunk(c) : Chunk(c)[j].key = k => j = i
      BY <1>2, <2>1 DEF IsBatch
    <3> QED BY <2>2, <2>10, <3>2, <3>3
  <2> QED BY <2>9, <2>10
<1> QED BY <1>4, <1>5

(* A call of volume.put writes the registers of the requests it carries. *)
LEMMA VolumePutImplemented ==
  ASSUME OnePlace, KeysKeepType, SlicesKeepPlace, CallInv, StoredAtPlace,
         NEW c \in Client, Acts(c), VolumePut(c), PutAccepts(Home[c], Chunk(c))
  PROVE  /\ Calls[c].op = "put"
         /\ \E items \in SUBSET Calls[c].left : Atomic!Write(c, items)
<1> DEFINE size == Len(Chunk(c))
<1> PICK next : next = sent[c] + size
  OBVIOUS
<1> DEFINE items == Items(reqs[c], sent[c] + 1 .. next)
<1>1. TypeInv /\ TypeOK /\ ClientTypeOK
  BY DEF CallInv, TypeInv, TypeOK
<1>2. /\ pc[c] = "put" /\ PutVolume(Home[c], Chunk(c))
      /\ pc'[c] \in {"put", "notify"} /\ reqs' = reqs
      /\ sent' = [sent EXCEPT ![c] = @ + size]
      /\ UNCHANGED <<index, branch>>
  BY <1>1 DEF VolumePut, Goto, ClientTypeOK, controllerVars
<1>3. /\ DOMAIN Chunk(c) = 1 .. size /\ size \in Nat
      /\ sent[c] + size <= Len(reqs[c])
      /\ \A i \in DOMAIN Chunk(c) : Chunk(c)[i] = reqs[c][sent[c] + i]
  BY <1>1, <1>2, ChunkIsBatch
<1>4. /\ sent[c] \in Nat /\ sent'[c] = next /\ IsBatch(reqs[c])
      /\ next \in sent[c] .. Len(reqs[c])
  <2>1. /\ sent[c] \in Nat /\ sent'[c] = next /\ IsBatch(reqs[c])
        /\ Len(reqs[c]) \in Nat
    BY <1>1, <1>2 DEF ClientTypeOK, TypeInv, BatchInFlight, IsBatch
  <2> QED BY <1>3, <2>1
<1>5. items = { Item(Chunk(c)[i]) : i \in DOMAIN Chunk(c) }
  <2>1. \A i \in DOMAIN Chunk(c) :
          /\ sent[c] + i \in sent[c] + 1 .. next
          /\ Item(Chunk(c)[i]) = Item(reqs[c][sent[c] + i])
    BY <1>3, <1>4
  <2>2. \A j \in sent[c] + 1 .. next :
          /\ j - sent[c] \in DOMAIN Chunk(c)
          /\ Item(reqs[c][j]) = Item(Chunk(c)[j - sent[c]])
    BY <1>3, <1>4
  <2> HIDE DEF size
  <2> QED BY <2>1, <2>2 DEF Items
<1>6. /\ Calls[c].op = "put"
      /\ Calls[c].left = Items(reqs[c], sent[c] + 1 .. Len(reqs[c]))
      /\ Calls[c].done = Items(reqs[c], 1 .. sent[c])
  BY <1>2, CallIs DEF Calls
<1>7. CallOf(c)' = [op |-> "put",
                    left |-> Items(reqs[c], next + 1 .. Len(reqs[c])),
                    done |-> Items(reqs[c], 1 .. next)]
  BY <1>2, <1>4 DEF CallOf, Items
<1>8. items \subseteq Calls[c].left
  BY <1>4, <1>6, ItemsSplit
<1>9. CallOf(c)' = [op |-> "put", left |-> Calls[c].left \ items,
                    done |-> Calls[c].done \cup items]
  <2>1. /\ Items(reqs[c], next + 1 .. Len(reqs[c])) = Calls[c].left \ items
        /\ Items(reqs[c], 1 .. next) = Calls[c].done \cup items
    BY <1>4, <1>6, ItemsSplit
  <2> QED BY <1>7, <2>1
<1>10. Registers' = [k \in Key |-> [s \in Slice \cup {NoSlice} |->
         IF Atomic!Written(items, k, s) = {} THEN Registers[k][s]
         ELSE (CHOOSE i \in Atomic!Written(items, k, s) : TRUE).data]]
  <2> SUFFICES ASSUME NEW k \in Key, NEW s \in Slice \cup {NoSlice}
               PROVE  Register(k, s)' =
                 IF Atomic!Written(items, k, s) = {} THEN Register(k, s)
                 ELSE (CHOOSE i \in Atomic!Written(items, k, s) : TRUE).data
    BY DEF Registers
  <2> HIDE DEF items, size
  <2>1. \A i \in items : \E j \in DOMAIN Chunk(c) :
          /\ i.key = Chunk(c)[j].key /\ i.slice = Chunk(c)[j].slice
          /\ i.data = Chunk(c)[j].data
    BY <1>5 DEF Item
  <2>2. \A j \in DOMAIN Chunk(c) :
          /\ Item(Chunk(c)[j]) \in items
          /\ Item(Chunk(c)[j]).key = Chunk(c)[j].key
          /\ Item(Chunk(c)[j]).slice = Chunk(c)[j].slice
    BY <1>5 DEF Item
  <2>3. \A i, j \in DOMAIN Chunk(c) : Chunk(c)[i].key = Chunk(c)[j].key => i = j
    BY <1>1, <1>2, ChunkIsBatch DEF IsBatch
  <2>4. CASE /\ Register(k, s)' = Register(k, s)
             /\ \A i \in DOMAIN Chunk(c) :
                  Chunk(c)[i].key = k => Chunk(c)[i].slice # s
    <3>1. Atomic!Written(items, k, s) = {}
      BY <2>1, <2>4 DEF Atomic!Written
    <3> QED BY <2>4, <3>1
  <2>5. CASE \E i \in DOMAIN Chunk(c) :
               /\ Chunk(c)[i].key = k /\ Chunk(c)[i].slice = s
               /\ Register(k, s)' = Chunk(c)[i].data
    <3>1. PICK i \in DOMAIN Chunk(c) :
               /\ Chunk(c)[i].key = k /\ Chunk(c)[i].slice = s
               /\ Register(k, s)' = Chunk(c)[i].data
      BY <2>5
    <3>2. Atomic!Written(items, k, s) # {}
      BY <2>2, <3>1 DEF Atomic!Written
    <3>3. \A j \in Atomic!Written(items, k, s) : j.data = Chunk(c)[i].data
      BY <2>1, <2>3, <3>1 DEF Atomic!Written
    <3> QED BY <3>1, <3>2, <3>3
  <2> QED BY <1>2, <2>4, <2>5, PutRegister
<1>11. Atomic!Write(c, items)
  <2>1. Calls' = [Calls EXCEPT ![c] = CallOf(c)'] /\ Listings' = Listings
        /\ Deletions' = Deletions
    BY <1>1, <1>2, AtomicFrame
  <2> HIDE DEF items
  <2> QED BY <1>6, <1>9, <1>10, <2>1
          DEF Atomic!Write, Atomic!Becomes, Atomic!Slot
<1> QED BY <1>6, <1>8, <1>11

(* A notification that is accepted as a whole adds every slice it names. *)
LEMMA NotifyPutExact ==
  ASSUME ControllerTypeOK, NEW v \in Volume, NEW rs, IsBatch(rs),
         NotifyPutBatch(rs, v), NotifyPutSucceeds(rs, v), NEW k \in Key
  PROVE  /\ \A w \in Volume :
              w # v \/ k \notin KeysOf(rs) => index'[k][w] = index[k][w]
         /\ \A i \in DOMAIN rs : rs[i].key = k =>
              index'[k][v] = Merge(index[k][v], rs[i])
<1>1. \A w \in Volume :
        w # v \/ k \notin KeysOf(rs) => index'[k][w] = index[k][w]
  BY NotifyPutEffect DEF KeysOf
<1>2. ASSUME NEW i \in DOMAIN rs, rs[i].key = k
      PROVE  index'[k][v] = Merge(index[k][v], rs[i])
  <2> DEFINE Hit == \E r \in Notified(rs, v) : r.key = k
             Req == CHOOSE r \in Notified(rs, v) : r.key = k
  <2>1. \A j \in 1..i : j \in DOMAIN rs
    <3>1. rs \in Seq(Request)
      BY DEF IsBatch
    <3>2. DOMAIN rs = 1..Len(rs) /\ Len(rs) \in Nat
      BY <3>1
    <3> QED BY <3>2
  <2>2. rs[i] \in Notified(rs, v)
    BY <2>1 DEF Notified, NotifyPutSucceeds
  <2>3. \A r \in Notified(rs, v) : r.key = k => r = rs[i]
    BY <1>2 DEF Notified, IsBatch
  <2>4. Hit /\ Req = rs[i]
    BY <1>2, <2>2, <2>3
  <2>5. index'[k] = [index[k] EXCEPT ![v] = Merge(@, Req)]
    BY <2>4 DEF NotifyPutBatch
  <2>6. index[k] \in [Volume -> StorageInfo \cup {NoInfo}]
    BY DEF ControllerTypeOK
  <2> HIDE DEF Req, Hit
  <2> QED BY <2>4, <2>5, <2>6
<1> QED BY <1>1, <1>2

(* notify_put_batch lists what the put has written, and ends the put. *)
LEMMA NotifyPutImplemented ==
  ASSUME OnePlace, KeysKeepType, SlicesKeepPlace, IndexInv, CallInv, StoredAtPlace,
         NEW c \in Client, Acts(c), NotifyPut(c)
  PROVE  Atomic!FinishPut(c)
<1> PICK rs : rs = reqs[c]
  OBVIOUS
<1> PICK home : home = Home[c]
  OBVIOUS
<1> DEFINE done == Items(rs, DOMAIN rs)
<1>1. TypeOK /\ ClientTypeOK /\ ControllerTypeOK /\ VolumeTypeOK /\ home \in Volume
  BY MenuAssumption DEF CallInv, TypeInv, TypeOK
<1>2. /\ pc[c] = "notify" /\ IsBatch(rs) /\ NotifyPutBatch(rs, home)
      /\ sent[c] = Len(rs) /\ rs \in PutMenu[c]
      /\ UNCHANGED <<store, branch>>
  BY DEF NotifyPut, CallInv, MenuInv, BatchesFromMenu, TypeInv, BatchInFlight
<1>3. rs \in Seq(Request) /\ Len(rs) \in Nat /\ DOMAIN rs = 1 .. Len(rs)
  BY <1>2 DEF IsBatch
<1>4. NotifyPutSucceeds(rs, home)
  BY <1>1, <1>2, PutsFit DEF NotifyPutSucceeds, CallInv
<1>5. /\ Calls[c].op = "put" /\ Calls[c].left = {} /\ Calls[c].done = done
  <2>1. Len(rs) + 1 .. Len(rs) = {}
    BY <1>3
  <2> QED BY <1>2, <1>3, <2>1, CallIs DEF Calls, Items
<1>6. CallOf(c)' = [op |-> "stored"]
  <2>1. /\ pc'[c] = "idle" /\ outcome'[c] = "ok" /\ call' = call
    BY <1>1, <1>2, <1>4 DEF NotifyPut, Return, ClientTypeOK
  <2>2. call[c].op = "put"
    BY <1>2 DEF CallInv, CallsMatch
  <2> QED BY <2>1, <2>2 DEF CallOf
<1>7. \A i \in done : Registers[i.key][i.slice] # NoValue
  <2> SUFFICES ASSUME NEW i \in DOMAIN rs
               PROVE  Registers[rs[i].key][rs[i].slice] # NoValue
    BY DEF Items, Item
  <2> PICK r : r = rs[i]
    OBVIOUS
  <2>1. r \in Request /\ r.key \in Key /\ r \in Menu(r.key)
    BY <1>2, RequestOfMenu
  <2>2. Backs(store[home][r.key], InfoOf(r))
    BY <1>2, <1>3 DEF IndexInv, PutIsStored
  <2>3. PICK entry : entry = store[home][r.key]
    OBVIOUS
  <2>4. \E d : d \in DataIn(entry, r.slice)
    <3>1. CASE r.object_type \in {"OBJECT", "TENSOR"}
      <4>1. r.slice = NoSlice
        BY <2>1, <3>1 DEF Request
      <4>2. entry.type \in {"OBJECT", "TENSOR"}
        BY <2>2, <2>3, <3>1 DEF Backs, InfoOf
      <4> QED BY <4>1, <4>2 DEF DataIn
    <3>2. CASE r.object_type = "TENSOR_SLICE"
      <4>1. r.slice \in SlicesPut(r.key) /\ r.slice # NoSlice
        BY <2>1, <3>2, SliceOfMenu DEF Request
      <4>2. r.slice.coordinates \in CoordinatesAt(entry)
        BY <2>2, <2>3, <3>2 DEF Backs, InfoOf
      <4>3. PICK j \in DOMAIN entry.shards :
              entry.shards[j].slice.coordinates = r.slice.coordinates
        BY <4>2 DEF CoordinatesAt
      <4>4. entry.shards[j].slice \in SlicesPut(r.key)
        BY <1>1, <2>1, <2>3 DEF CallInv, MenuInv, StoreFromMenu
      <4>5. entry.shards[j].slice = r.slice
        BY <2>1, <4>1, <4>3, <4>4 DEF SlicesKeepPlace
      <4> QED BY <4>1, <4>5 DEF DataIn
    <3> QED BY <2>1, <3>1, <3>2 DEF Request, ObjectType
  <2>5. r.slice \in Slice \cup {NoSlice}
    BY <2>1 DEF Request
  <2>6. Register(r.key, r.slice) # NoValue
    <3>1. PICK k \in Key : k = r.key
      BY <2>1
    <3>2. PICK s \in Slice \cup {NoSlice} : s = r.slice
      BY <2>5
    <3>3. PICK d \in DataIn(store[home][k], s) : TRUE
      BY <2>3, <2>4, <3>1, <3>2
    <3>4. Register(k, s) # NoValue
      BY <1>1, PlacedData
    <3> QED BY <3>1, <3>2, <3>4
  <2> QED BY <2>1, <2>5, <2>6 DEF Registers
<1>8. Listings' = [k \in Key |->
        Listings[k] \cup { i.slice : i \in { j \in done : j.key = k } }]
  <2> SUFFICES ASSUME NEW k \in Key
               PROVE  ListedSlices(k)' = ListedSlices(k)
                        \cup { i.slice : i \in { j \in done : j.key = k } }
    BY DEF Listings
  <2>1. { i.slice : i \in { j \in done : j.key = k } }
          = { rs[i].slice : i \in { j \in DOMAIN rs : rs[j].key = k } }
    <3>1. \A r : Item(r).key = r.key /\ Item(r).slice = r.slice
      BY DEF Item
    <3>2. done = { Item(rs[i]) : i \in DOMAIN rs }
      BY DEF Items
    <3> HIDE DEF done
    <3> QED BY <3>1, <3>2
  <2>2. /\ \A w \in Volume :
             w # home \/ k \notin KeysOf(rs) => index'[k][w] = index[k][w]
        /\ \A i \in DOMAIN rs : rs[i].key = k =>
             index'[k][home] = Merge(index[k][home], rs[i])
    BY <1>1, <1>2, <1>4, NotifyPutExact
  <2>3. CASE k \notin KeysOf(rs)
    BY <2>1, <2>2, <2>3 DEF ListedSlices, KeysOf
  <2>4. CASE k \in KeysOf(rs)
    <3>1. PICK i \in DOMAIN rs : rs[i].key = k
      BY <2>4 DEF KeysOf
    <3>2. { rs[j].slice : j \in { n \in DOMAIN rs : rs[n].key = k } } = {rs[i].slice}
      BY <1>2, <3>1 DEF IsBatch
    <3>3. index'[k][home].tensor_slices
            = index[k][home].tensor_slices \cup {rs[i].slice}
      <4>1. \A info, r :
              Merge(info, r).tensor_slices = info.tensor_slices \cup {r.slice}
        BY DEF Merge
      <4> QED BY <2>2, <3>1, <4>1
    <3>4. ListedSlices(k)' = ListedSlices(k) \cup {rs[i].slice}
      BY <1>1, <2>2, <3>3 DEF ListedSlices
    <3> QED BY <2>1, <3>2, <3>4
  <2> QED BY <2>3, <2>4
<1>9. /\ Calls' = [Calls EXCEPT ![c] = CallOf(c)'] /\ Deletions' = Deletions
      /\ Registers' = Registers
  BY <1>1, <1>2, AtomicFrame
<1> HIDE DEF done
<1> QED BY <1>5, <1>6, <1>7, <1>8, <1>9 DEF Atomic!FinishPut, Atomic!Becomes

-----------------------------------------------------------------------------
(* A get reads registers *)

(* What the controller lets a reader have is committed. *)
LEMMA LocatedCommitted ==
  ASSUME IndexFromMenu, NEW k \in Key, Locate(k, TRUE) = "ok"
  PROVE  Atomic!Committed(k)
<1>1. Listings[k] = ListedSlices(k)
  BY DEF Listings
<1>2. CASE HasWhole(k)
  <2>1. PICK v \in Volume : Indexed(k, v) /\ ~IsSliced(k, v)
    BY <1>2 DEF HasWhole, Holders
  <2>2. PICK s \in index[k][v].tensor_slices : \E r \in Menu(k) :
          r.object_type = index[k][v].object_type /\ r.slice = s
    BY <2>1 DEF IndexFromMenu
  <2>3. s = NoSlice
    BY <2>1, <2>2 DEF Menu, Request, IsSliced
  <2> QED BY <1>1, <2>3 DEF ListedSlices, Atomic!Committed
<1>3. CASE ~HasWhole(k)
  <2> PICK S : S = ListedSlices(k)
    OBVIOUS
  <2>1. S = VisitedSlices(k)
    <3>1. \A v \in Volume : v \in Visited(k) <=> Indexed(k, v)
      BY <1>3 DEF HasWhole, Visited, Holders, Older
    <3>2. \A v \in Volume : ~Indexed(k, v) => index[k][v].tensor_slices = {}
      BY DEF Indexed, NoInfo
    <3>3. Visited(k) \subseteq Volume
      BY DEF Visited, Holders
    <3> QED BY <3>1, <3>2, <3>3 DEF ListedSlices, VisitedSlices
  <2> PICK mesh : mesh = { s.coordinates : s \in S }
    OBVIOUS
  <2>2. { s.mesh_shape : s \in S } = {mesh}
    BY <1>3, <2>1, LocateSucceeds
  <2>3. \A s \in S : s.mesh_shape = mesh
    BY <2>2
  <2> QED BY <1>1, <2>2, <2>3 DEF Atomic!Committed
<1> QED BY <1>2, <1>3

(* A get starts if all its keys are located, and else raises. *)
LEMMA StartGetImplemented ==
  ASSUME CallInv, NEW c \in Client, Acts(c), NEW wants \in GetMenu, StartGet(c, wants)
  PROVE  Atomic!StartGet(c, wants) \/ Atomic!Ends(c)
<1>1. TypeOK /\ ClientTypeOK
  BY DEF CallInv, TypeInv, TypeOK
<1>2. /\ pc[c] = "idle" /\ UNCHANGED <<index, store, branch>>
      /\ call'[c].wants = wants /\ parts'[c] = {}
  BY <1>1 DEF StartGet, Begin, controllerVars, ClientTypeOK
<1>3. CASE pc'[c] = "fetch"
  <2>1. \A k \in DOMAIN wants : Locate(k, TRUE) = "ok"
    BY <1>1, <1>3 DEF StartGet, Return, ClientTypeOK
  <2>2. \A k \in DOMAIN wants : Atomic!Committed(k)
    BY <2>1, WantsAre, LocatedCommitted DEF CallInv, MenuInv
  <2>3. CallOf(c)' = [op |-> "get", wants |-> wants, parts |-> {}]
    BY <1>2, <1>3 DEF CallOf
  <2> QED BY <1>1, <1>2, <2>2, <2>3, AtomicFrame, IdleIsFree
          DEF Atomic!StartGet, Atomic!Becomes
<1>4. CASE pc'[c] # "fetch"
  <2>1. pc'[c] = "idle" /\ outcome'[c] # "ok"
    BY <1>1, <1>4 DEF StartGet, Return, Goto, ClientTypeOK
  <2>2. CallOf(c)' = [op |-> "none"]
    BY <2>1 DEF CallOf
  <2> QED BY <1>1, <1>2, <2>2, EndsImplemented
<1> QED BY <1>3, <1>4

(* What a volume answers is what a register holds. *)
LEMMA PartIsAnswer ==
  ASSUME OnePlace, VolumeTypeOK, StoredAtPlace,
         NEW v \in Volume, NEW sub \in SubRequest, GetOutcome(v, sub) = "ok",
         NEW wants, sub.key \in DOMAIN wants,
         sub.region \in Atomic!Regions(wants[sub.key])
  PROVE  GetPart(v, sub) \in Atomic!Pieces(wants)
<1> PICK k \in Key : k = sub.key
  BY DEF SubRequest
<1> PICK entry \in Entry : entry = store[v][k]
  BY DEF VolumeTypeOK
<1>1. sub.region \subseteq Cell
  BY DEF SubRequest
<1>2. ASSUME NEW s \in Slice \cup {NoSlice}, NEW d \in DataIn(store[v][k], s),
             sub.region \subseteq Atomic!Box(s),
             GetPart(v, sub) = [key |-> k, region |-> sub.region, data |-> d]
      PROVE  GetPart(v, sub) \in Atomic!Pieces(wants)
  <2>1. Register(k, s) = d /\ d # NoValue
    BY PlacedData
  <2>2. Registers[k][s] = d
    BY <2>1 DEF Registers
  <2>3. GetPart(v, sub) \in Atomic!Answers(k, s, wants[k])
    BY <1>2, <2>1, <2>2 DEF Atomic!Answers
  <2> QED BY <2>3 DEF Atomic!Pieces, Atomic!Slot
<1>3. CASE entry.type \in {"OBJECT", "TENSOR"}
  <2>1. entry.data \in DataIn(store[v][k], NoSlice)
    BY <1>3 DEF DataIn
  <2>2. Atomic!Box(NoSlice) = Cell
    BY DEF Atomic!Box
  <2>3. GetPart(v, sub) = [key |-> k, region |-> sub.region, data |-> entry.data]
    BY <1>3 DEF GetPart
  <2> QED BY <1>1, <1>2, <2>1, <2>2, <2>3
<1>4. CASE entry.type = "SHARDS"
  <2>1. Containing(entry, sub.region) # {}
    BY <1>4 DEF GetOutcome
  <2>2. PICK i \in DOMAIN entry.shards :
          /\ i = FirstContaining(entry, sub.region)
          /\ i \in Containing(entry, sub.region)
    BY <2>1, FirstContainingType
  <2>3. entry.shards[i] \in Shard
    BY DEF Entry
  <2>4. PICK s \in Slice : s = entry.shards[i].slice /\ s # NoSlice
    BY <2>3, SliceAssumption DEF Shard
  <2>5. entry.shards[i].data \in DataIn(store[v][k], s)
    BY <2>4 DEF DataIn
  <2>6. sub.region \subseteq Atomic!Box(s)
    BY <2>2, <2>4 DEF Containing, Atomic!Box
  <2>7. GetPart(v, sub) =
          [key |-> k, region |-> sub.region, data |-> entry.shards[i].data]
    BY <1>4, <2>2 DEF GetPart
  <2> QED BY <1>2, <2>5, <2>6, <2>7
<1>5. entry.type # "NONE"
  BY DEF GetOutcome
<1> QED BY <1>3, <1>4, <1>5 DEF Entry

(* What one volume answers is read from registers, or the get raises. *)
LEMMA VolumeGetImplemented ==
  ASSUME OnePlace, CallInv, PlaceInv, GetIsComplete',
         NEW c \in Client, Acts(c), NEW v \in Volume, NEW subs \in SUBSET fetch[c][v],
         VolumeGet(c, v, subs)
  PROVE  Atomic!Read(c) \/ Atomic!Ends(c)
<1> PICK wants : wants = call[c].wants
  OBVIOUS
<1> PICK got : got = parts[c] \cup { GetPart(v, sub) : sub \in subs }
  OBVIOUS
<1>1. TypeOK /\ ClientTypeOK /\ VolumeTypeOK
  BY DEF CallInv, TypeInv, TypeOK
<1>2. /\ pc[c] = "fetch" /\ call' = call
      /\ UNCHANGED <<index, store, branch>>
  BY DEF VolumeGet, controllerVars
<1>3. call[c].op = "get" /\ call[c].keys = DOMAIN wants
  BY <1>2 DEF CallInv, CallsMatch, PlaceInv, FetchAsked
<1>4. Calls[c] = [op |-> "get", wants |-> wants, parts |-> parts[c]]
  BY <1>2, CallIs DEF Calls
<1>5. CASE \A sub \in subs : GetOutcome(v, sub) = "ok"
  <2>1. parts'[c] = got
    BY <1>1, <1>5 DEF VolumeGet, ClientTypeOK
  <2>2. PICK new : new = got \ parts[c]
    OBVIOUS
  <2>3. new \in SUBSET (Atomic!Pieces(wants) \ parts[c]) /\ parts[c] \cup new = got
    <3>1. ASSUME NEW sub \in subs
          PROVE  GetPart(v, sub) \in Atomic!Pieces(wants)
      <4>1. sub \in SubRequest
        BY <1>1 DEF ClientTypeOK
      <4>2. /\ sub.key \in DOMAIN wants
            /\ sub.region \in Atomic!Regions(wants[sub.key])
        BY <1>2 DEF PlaceInv, FetchAsked
      <4> QED BY <1>1, <1>5, <4>1, <4>2, PartIsAnswer DEF PlaceInv
    <3> QED BY <2>2, <3>1
  <2>4. \/ pc'[c] = "fetch"
        \/ pc'[c] = "idle" /\ outcome'[c] = "ok"
        \/ pc'[c] = "idle" /\ outcome'[c] = "RuntimeError"
    BY <1>1, <1>5 DEF VolumeGet, Goto, Return, Assembled, ClientTypeOK
  <2>5. /\ Calls' = [Calls EXCEPT ![c] = CallOf(c)'] /\ Deletions' = Deletions
        /\ Registers' = Registers /\ Listings' = Listings
    BY <1>1, <1>2, AtomicFrame
  <2>6. ASSUME NEW op \in {"get", "got"}, op = "got" => Atomic!Covers(got, wants),
               Atomic!Becomes(c, [op |-> op, wants |-> wants, parts |-> got])
        PROVE  Atomic!Read(c)
    <3>1. Calls[c].op = "get" /\ Calls[c].wants = wants /\ Calls[c].parts = parts[c]
      BY <1>4
    <3> QED BY <2>3, <2>5, <2>6, <3>1, Zenon DEF Atomic!Read
  <2>7. CASE pc'[c] = "fetch"
    <3>1. CallOf(c)' = [op |-> "get", wants |-> wants, parts |-> got]
      BY <1>2, <2>1, <2>7 DEF CallOf
    <3> QED BY <2>5, <2>6, <3>1 DEF Atomic!Becomes
  <2>8. CASE pc'[c] = "idle" /\ outcome'[c] = "ok"
    <3>1. CallOf(c)' = [op |-> "got", wants |-> wants, parts |-> got]
      BY <1>2, <1>3, <2>1, <2>8 DEF CallOf
    <3>2. Atomic!Covers(got, wants)
      BY <1>2, <1>3, <2>1, <2>8 DEF GetIsComplete, Atomic!Covers
    <3> QED BY <2>5, <2>6, <3>1, <3>2 DEF Atomic!Becomes
  <2>9. CASE pc'[c] = "idle" /\ outcome'[c] = "RuntimeError"
    <3>1. CallOf(c)' = [op |-> "none"]
      BY <2>9 DEF CallOf
    <3> QED BY <1>1, <1>2, <3>1, EndsImplemented
  <2> QED BY <2>4, <2>7, <2>8, <2>9
<1>6. CASE ~ \A sub \in subs : GetOutcome(v, sub) = "ok"
  <2>1. pc'[c] = "idle" /\ outcome'[c] # "ok"
    BY <1>1, <1>6 DEF VolumeGet, Return, ClientTypeOK
  <2>2. CallOf(c)' = [op |-> "none"]
    BY <2>1 DEF CallOf
  <2> QED BY <1>1, <1>2, <2>2, EndsImplemented
<1> QED BY <1>5, <1>6

-----------------------------------------------------------------------------
(* A delete unlists, then erases *)

(* Locating what to delete starts the delete. *)
LEMMA StartDeletingImplemented ==
  ASSUME CallInv, TypeOK', NEW c \in Client, Acts(c),
         \/ \E k \in DeleteMenu : StartDelete(c, k)
         \/ \E keys \in BatchMenu : StartDeleteBatch(c, keys)
  PROVE  \E keys \in SUBSET Key : Atomic!StartDelete(c, keys)
<1>1. TypeOK /\ ClientTypeOK
  BY DEF CallInv, TypeInv, TypeOK
<1>2. /\ pc[c] = "idle" /\ branch[c] = NoBranches
      /\ UNCHANGED <<index, store>>
      /\ call'[c].op \in {"delete", "delete_batch"}
      /\ pc'[c] \in {"delete", "notify_batch", "delete_batch", "idle"}
  <2>1. /\ pc[c] = "idle" /\ branch[c] = NoBranches
        /\ UNCHANGED <<index, store>>
    BY DEF StartDelete, StartDeleteBatch, Begin, Quiet, controllerVars
  <2>2. call'[c].op \in {"delete", "delete_batch"}
    <3>1. \E op \in {"delete", "delete_batch"} : \E ks \in SUBSET Key :
            call' = [call EXCEPT ![c] = [op |-> op, keys |-> ks, wants |-> <<>>]]
      BY MenuAssumption DEF StartDelete, StartDeleteBatch, Begin
    <3> QED BY <1>1, <3>1 DEF ClientTypeOK
  <2>3. pc'[c] \in {"delete", "notify_batch", "delete_batch", "idle"}
    BY <1>1 DEF StartDelete, StartDeleteBatch, Goto, Return, ClientTypeOK
  <2> QED BY <2>1, <2>2, <2>3
<1>3. CallOf(c)' = [op |-> "none"]
  BY <1>2 DEF CallOf
<1>4. Deletions[c] = {}
  BY <1>2 DEF Deletions, Deleting, NoBranches, NoBranch
<1>5. Deleting(c)' \in SUBSET Key
  BY DEF Deleting, TypeOK, ClientTypeOK, Branch
<1>6. Atomic!StartDelete(c, Deleting(c)')
  BY <1>1, <1>2, <1>3, <1>4, AtomicFrame, IdleIsFree
  DEF Atomic!StartDelete, Atomic!Becomes, Atomic!NoCall
<1> QED BY <1>5, <1>6

(* Slices are unlisted of keys that the client is deleting only. *)
LEMMA UnlistImplemented ==
  ASSUME TypeOK, NEW c \in Client, Acts(c), store' = store,
         CallOf(c)' = CallOf(c), Deleting(c)' = Deleting(c),
         \A k \in Key : \A v \in Volume :
           \/ index'[k][v] = index[k][v]
           \/ index'[k][v] = NoInfo /\ k \in Deleting(c)
  PROVE  \E gone \in SUBSET Atomic!Listed(c) : Atomic!Unlist(c, gone)
<1> DEFINE gone == { p \in Atomic!Listed(c) : p[2] \notin Listings'[p[1]] }
<1>1. \A k \in Key : \A v \in Volume :
        index[k][v].tensor_slices \subseteq Slice \cup {NoSlice}
  BY DEF TypeOK, ControllerTypeOK, StorageInfo, NoInfo
<1>2. ASSUME NEW k \in Key
      PROVE  Listings'[k] = { s \in Listings[k] : <<k, s>> \notin gone }
  <2>1. \A s : s \in Listings[k] <=>
          \E v \in Volume : s \in index[k][v].tensor_slices
    BY DEF Listings, ListedSlices
  <2>2. \A s : s \in Listings'[k] <=>
          \E v \in Volume : s \in index'[k][v].tensor_slices
    BY DEF Listings, ListedSlices
  <2>3. Listings'[k] \subseteq Listings[k]
    BY <2>1, <2>2 DEF NoInfo
  <2>4. ASSUME NEW s \in Listings[k], s \notin Listings'[k]
        PROVE  <<k, s>> \in gone
    <3>1. PICK v \in Volume : s \in index[k][v].tensor_slices
      BY <2>1
    <3>2. k \in Deleting(c) /\ s \in Slice \cup {NoSlice}
      BY <1>1, <2>2, <2>4, <3>1
    <3>3. <<k, s>> \in Atomic!Listed(c)
      BY <3>2 DEF Atomic!Listed, Atomic!Slot, Deletions
    <3> QED BY <2>4, <3>3
  <2>5. ASSUME NEW s \in Listings'[k] PROVE <<k, s>> \notin gone
    BY <2>5
  <2> HIDE DEF gone
  <2> QED BY <2>3, <2>4, <2>5
<1>3. /\ Registers' = Registers
      /\ Calls' = [Calls EXCEPT ![c] = Calls[c]]
      /\ Deletions' = [Deletions EXCEPT ![c] = Deletions[c]]
  BY AtomicFrame
<1>4. Calls' = Calls /\ Deletions' = Deletions
  BY <1>3 DEF Calls, Deletions
<1>5. gone \in SUBSET Atomic!Listed(c)
  OBVIOUS
<1> HIDE DEF gone
<1>6. Listings' = [k \in Key |-> { s \in Listings[k] : <<k, s>> \notin gone }]
  BY <1>2 DEF Listings
<1> QED BY <1>3, <1>4, <1>5, <1>6 DEF Atomic!Unlist

(* Registers are emptied of keys that the client is deleting, if unlisted. *)
LEMMA EraseImplemented ==
  ASSUME OnePlace, TypeOK, StoredAtPlace, ListedAtPlace,
         NEW c \in Client, Acts(c), index' = index,
         CallOf(c)' = CallOf(c), Deleting(c)' \subseteq Deleting(c),
         \A v \in Volume : \A k \in Key :
           \/ store'[v][k] = store[v][k]
           \/ store'[v][k] = NoEntry /\ k \in Deleting(c) /\ ~Indexed(k, v)
  PROVE  \E gone \in SUBSET Atomic!Unlisted(c) : \E rest \in SUBSET Deletions[c] :
           Atomic!Erase(c, gone, rest)
<1> DEFINE gone == { p \in Atomic!Unlisted(c) : Registers'[p[1]][p[2]] = NoValue }
<1>1. VolumeTypeOK
  BY DEF TypeOK
<1>2. ASSUME NEW k \in Key, NEW s \in Slice \cup {NoSlice}
      PROVE  Register(k, s)' = IF <<k, s>> \in gone THEN NoValue ELSE Register(k, s)
  <2>1. Registers[k][s] = Register(k, s) /\ Registers'[k][s] = Register(k, s)'
    BY DEF Registers
  <2>2. CASE Register(k, s)' = Register(k, s)
    BY <2>1, <2>2
  <2>3. CASE \A u \in Volume : DataIn(store'[u][k], s) = DataIn(store[u][k], s)
    BY <2>2, <2>3, SameRegister
  <2>4. ASSUME NEW v \in Volume, DataIn(store'[v][k], s) # DataIn(store[v][k], s)
        PROVE  Register(k, s)' = IF <<k, s>> \in gone THEN NoValue ELSE Register(k, s)
    <3>1. store'[v][k] = NoEntry /\ k \in Deleting(c) /\ ~Indexed(k, v)
      BY <2>4
    <3>2. DataIn(NoEntry, s) = {}
      BY DEF NoEntry, DataIn
    <3>3. PICK d : d \in DataIn(store[v][k], s)
      BY <2>4, <3>1, <3>2
    <3>4. /\ Register(k, s) # NoValue
          /\ \A u \in Volume : u # v => DataIn(store[u][k], s) = {}
      BY <1>1, <3>3, PlacedData
    <3>5. Register(k, s)' = NoValue
      <4>1. \A u \in Volume : DataIn(store'[u][k], s) = {}
        BY <3>1, <3>2, <3>4
      <4>2. Held(k, s)' = {}
        BY <4>1 DEF Held
      <4> QED BY <4>2 DEF Register
    <3>6. s \notin Listings[k]
      <4>1. PutAt(v, k, s)
        <5>1. store[v][k] \in Entry /\ InPlace(v, k, store[v][k])
          BY <1>1 DEF VolumeTypeOK, StoredAtPlace
        <5> QED BY <3>3, <5>1, DataInType
      <4> SUFFICES ASSUME NEW u \in Volume, s \in index[k][u].tensor_slices
                   PROVE  FALSE
        BY DEF Listings, ListedSlices
      <4>2. u = v
        BY <4>1 DEF ListedAtPlace, OnePlace
      <4> QED BY <3>1, <4>2 DEF Indexed, NoInfo
    <3>7. <<k, s>> \in Atomic!Unlisted(c)
      BY <2>1, <3>1, <3>4, <3>6 DEF Atomic!Unlisted, Atomic!Slot, Deletions
    <3> QED BY <2>1, <3>5, <3>7
  <2> QED BY <2>3, <2>4
<1>3. Registers' = [k \in Key |-> [s \in Atomic!Slot |->
        IF <<k, s>> \in gone THEN NoValue ELSE Registers[k][s]]]
  <2> HIDE DEF gone
  <2> QED BY <1>2 DEF Registers, Atomic!Slot
<1>4. gone \in SUBSET Atomic!Unlisted(c)
  OBVIOUS
<1>5. /\ Listings' = Listings
      /\ Calls' = [Calls EXCEPT ![c] = Calls[c]]
      /\ Deletions' = [Deletions EXCEPT ![c] = Deleting(c)']
      /\ Deleting(c)' \in SUBSET Deletions[c]
  BY AtomicFrame
<1>6. Calls' = Calls
  BY <1>5 DEF Calls
<1> HIDE DEF gone
<1>7. Atomic!Erase(c, gone, Deleting(c)')
  BY <1>3, <1>5, <1>6 DEF Atomic!Erase
<1> QED BY <1>4, <1>5, <1>7

(* A client that deletes nothing changes no register by either. *)
LEMMA UnlistIsNext ==
  ASSUME NEW c \in Client,
         \E gone \in SUBSET Atomic!Listed(c) : Atomic!Unlist(c, gone)
  PROVE  [Atomic!Next]_(Atomic!vars)
<1> PICK gone \in SUBSET Atomic!Listed(c) : Atomic!Unlist(c, gone)
  OBVIOUS
<1>1. CASE Deletions[c] # {}
  BY <1>1 DEF Atomic!Next
<1>2. CASE Deletions[c] = {}
  <2>1. gone = {}
    BY <1>2 DEF Atomic!Listed
  <2>2. Listings' = [k \in Key |-> { s \in Listings[k] : <<k, s>> \notin gone }]
    BY DEF Atomic!Unlist
  <2>3. \A k \in Key : { s \in Listings[k] : <<k, s>> \notin gone } = Listings[k]
    BY <2>1
  <2>4. Listings' = [k \in Key |-> Listings[k]]
    BY <2>2, <2>3
  <2>5. Listings' = Listings
    BY <2>4 DEF Listings
  <2> QED BY <2>5 DEF Atomic!Unlist, Atomic!vars
<1> QED BY <1>1, <1>2

(* To erase is a step of the registers, if only a stutter. *)
LEMMA EraseIsNext ==
  ASSUME NEW c \in Client,
         \E gone \in SUBSET Atomic!Unlisted(c) : \E rest \in SUBSET Deletions[c] :
           Atomic!Erase(c, gone, rest)
  PROVE  [Atomic!Next]_(Atomic!vars)
<1> PICK gone \in SUBSET Atomic!Unlisted(c), rest \in SUBSET Deletions[c] :
           Atomic!Erase(c, gone, rest)
  OBVIOUS
<1>1. CASE Deletions[c] # {}
  BY <1>1 DEF Atomic!Next
<1>2. CASE Deletions[c] = {}
  <2>1. gone = {} /\ rest = {}
    BY <1>2 DEF Atomic!Unlisted
  <2>2. Registers' = [k \in Key |-> [s \in Atomic!Slot |->
          IF <<k, s>> \in gone THEN NoValue ELSE Registers[k][s]]]
    BY DEF Atomic!Erase
  <2>3. Registers' = [k \in Key |-> [s \in Atomic!Slot |-> Registers[k][s]]]
    BY <2>1, <2>2
  <2>4. Registers' = Registers
    BY <2>3 DEF Registers, Atomic!Slot
  <2>5. Deletions' = [Deletions EXCEPT ![c] = Deletions[c]]
    BY <1>2, <2>1 DEF Atomic!Erase
  <2>6. Deletions' = Deletions
    BY <2>5 DEF Deletions
  <2> QED BY <2>4, <2>6 DEF Atomic!Erase, Atomic!vars
<1> QED BY <1>1, <1>2

(* A delete that is under way, or in the background, is no put or get. *)
LEMMA DeletesAreSilent ==
  ASSUME TypeOK, CallsMatch, NEW c \in Client,
         \/ \E v \in Volume : NotifyDeleteFrom(c, v)
         \/ \E v \in Volume : VolumeDelete(c, v)
         \/ \E v \in Volume : VolumeDeleteBatch(c, v)
         \/ \E v \in Volume : BranchFails(c, v)
         \/ NotifyDeleteKeys(c)
  PROVE  CallOf(c)' = CallOf(c)
<1>1. call' = call /\ reqs' = reqs /\ sent' = sent /\ parts' = parts
  BY DEF NotifyDeleteFrom, VolumeDelete, VolumeDeleteBatch, BranchFails,
     NotifyDeleteKeys
<1>2. \/ pc' = pc /\ outcome' = outcome
      \/ pc[c] \in {"delete", "delete_batch"} /\ pc'[c] = "idle"
      \/ pc[c] = "notify_batch" /\ pc'[c] = "delete_batch"
  BY DEF NotifyDeleteFrom, VolumeDelete, VolumeDeleteBatch, BranchFails,
     NotifyDeleteKeys, BranchEnds, BranchRaises, Return, Goto, TypeOK, ClientTypeOK
<1>3. CASE pc' = pc /\ outcome' = outcome
  BY <1>1, <1>3 DEF CallOf
<1>4. CASE pc[c] \in {"delete", "delete_batch"} /\ pc'[c] = "idle"
  <2>1. call[c].op \in {"delete", "delete_batch"}
    BY <1>4 DEF CallsMatch
  <2> QED BY <1>1, <1>4, <2>1 DEF CallOf
<1>5. CASE pc[c] = "notify_batch" /\ pc'[c] = "delete_batch"
  BY <1>5 DEF CallOf
<1> QED BY <1>2, <1>3, <1>4, <1>5

(* A coroutine that ends leaves its delete fewer keys to work on. *)
LEMMA DeletesEnd ==
  ASSUME TypeOK, NEW c \in Client, NEW v \in Volume,
         branch' = [branch EXCEPT ![c][v] = NoBranch]
  PROVE  Deleting(c)' \subseteq Deleting(c)
<1>1. branch \in [Client -> [Volume -> Branch]]
  BY DEF TypeOK, ClientTypeOK
<1>2. \A u \in Volume : branch'[c][u] \in {branch[c][u], NoBranch}
  BY <1>1
<1>3. \A u \in Volume : branch'[c][u].keys \subseteq branch[c][u].keys
  BY <1>2 DEF NoBranch
<1> QED BY <1>3 DEF Deleting

(* A coroutine that goes on with its keys leaves its delete as it was. *)
LEMMA DeletesRename ==
  ASSUME NEW c \in Client,
         \A v \in Volume : branch'[c][v].keys = branch[c][v].keys
  PROVE  Deleting(c)' = Deleting(c)
BY DEF Deleting

(* A delete that only lets go of keys erases nothing. *)
LEMMA NothingErased ==
  ASSUME OnePlace, TypeOK, StoredAtPlace, ListedAtPlace,
         NEW c \in Client, Acts(c), index' = index, store' = store,
         CallOf(c)' = CallOf(c), Deleting(c)' \subseteq Deleting(c)
  PROVE  [Atomic!Next]_(Atomic!vars)
<1>1. \E gone \in SUBSET Atomic!Unlisted(c) : \E rest \in SUBSET Deletions[c] :
        Atomic!Erase(c, gone, rest)
  BY EraseImplemented
<1> QED BY <1>1, EraseIsNext

(* A volume that deletes what was forgotten erases what is not listed. *)
LEMMA ForgottenErased ==
  ASSUME OnePlace, IndexInv, CallInv, PlaceInv, NEW c \in Client, Acts(c),
         NEW v \in Volume, Forgotten(c, v), DeleteKeys(v, branch[c][v].keys),
         index' = index, branch' = [branch EXCEPT ![c][v] = NoBranch],
         CallOf(c)' = CallOf(c)
  PROVE  [Atomic!Next]_(Atomic!vars)
<1>1. TypeOK /\ VolumeTypeOK /\ StoredAtPlace /\ ListedAtPlace
  BY DEF CallInv, TypeInv, TypeOK, PlaceInv
<1>2. \A k \in branch[c][v].keys : k \in Deleting(c) /\ ~Indexed(k, v)
  BY DEF IndexInv, ForgottenFirst, Deleting
<1>3. \A u \in Volume : \A k \in Key :
        \/ store'[u][k] = store[u][k]
        \/ store'[u][k] = NoEntry /\ k \in Deleting(c) /\ ~Indexed(k, u)
  BY <1>1, <1>2 DEF DeleteKeys, VolumeTypeOK
<1>4. Deleting(c)' \subseteq Deleting(c)
  BY <1>1, DeletesEnd
<1>5. \E gone \in SUBSET Atomic!Unlisted(c) : \E rest \in SUBSET Deletions[c] :
        Atomic!Erase(c, gone, rest)
  BY <1>1, <1>3, <1>4, EraseImplemented
<1> QED BY <1>5, EraseIsNext

(* notify_delete unlists a key of the delete, or its coroutine ends. *)
LEMMA NotifyDeleteFromImplemented ==
  ASSUME OnePlace, CallInv, PlaceInv, NEW c \in Client, Acts(c),
         NEW v \in Volume, NotifyDeleteFrom(c, v)
  PROVE  [Atomic!Next]_(Atomic!vars)
<1> PICK k : k = DeletedKey(c, v)
  OBVIOUS
<1>1. /\ TypeOK /\ branch \in [Client -> [Volume -> Branch]]
      /\ index \in [Key -> [Volume -> StorageInfo \cup {NoInfo}]]
  BY DEF CallInv, TypeInv, TypeOK, ClientTypeOK, ControllerTypeOK
<1>2. k \in Key /\ branch[c][v].keys = {k}
  BY TheDeletedKey DEF NotifyDeleteFrom, CallInv
<1>3. CallOf(c)' = CallOf(c)
  BY <1>1, DeletesAreSilent DEF CallInv
<1>4. store' = store
  BY DEF NotifyDeleteFrom
<1>5. CASE NotifyDeleteSucceeds(k, v)
  <2>1. index' = [index EXCEPT ![k][v] = NoInfo]
    BY <1>5 DEF NotifyDeleteFrom, NotifyDelete
  <2>2. branch' = [branch EXCEPT ![c][v].stage = "delete"]
    BY <1>5 DEF NotifyDeleteFrom
  <2>3. \A u \in Volume : branch'[c][u].keys = branch[c][u].keys
    BY <1>1, <2>2 DEF Branch
  <2>4. Deleting(c)' = Deleting(c) /\ k \in Deleting(c)
    BY <1>2, <2>3, DeletesRename DEF Deleting
  <2>5. \A q \in Key : \A u \in Volume :
          \/ index'[q][u] = index[q][u]
          \/ index'[q][u] = NoInfo /\ q \in Deleting(c)
    BY <1>1, <1>2, <2>1, <2>4
  <2> QED BY <1>1, <1>3, <1>4, <2>4, <2>5, UnlistImplemented, UnlistIsNext
<1>6. CASE ~NotifyDeleteSucceeds(k, v)
  <2>1. index' = index /\ branch' = [branch EXCEPT ![c][v] = NoBranch]
    BY <1>6 DEF NotifyDeleteFrom, BranchRaises, controllerVars
  <2>2. Deleting(c)' \subseteq Deleting(c)
    BY <1>1, <2>1, DeletesEnd
  <2> QED BY <1>1, <1>3, <1>4, <2>1, <2>2, NothingErased DEF PlaceInv
<1> QED BY <1>5, <1>6

(* notify_delete_batch unlists keys of the delete. *)
LEMMA NotifyDeleteKeysImplemented ==
  ASSUME CallInv, NEW c \in Client, Acts(c), NotifyDeleteKeys(c)
  PROVE  [Atomic!Next]_(Atomic!vars)
<1>1. /\ TypeOK /\ branch \in [Client -> [Volume -> Branch]]
  BY DEF CallInv, TypeInv, TypeOK, ClientTypeOK
<1>2. CallOf(c)' = CallOf(c)
  BY <1>1, DeletesAreSilent DEF CallInv
<1>3. store' = store
  BY DEF NotifyDeleteKeys
<1>4. \A v \in Volume : branch'[c][v].keys = branch[c][v].keys
  <2>1. branch' = [branch EXCEPT ![c] = [v \in Volume |->
          IF branch[c][v] = NoBranch THEN NoBranch
          ELSE [branch[c][v] EXCEPT !.stage = "delete_batch"]]]
    BY DEF NotifyDeleteKeys
  <2>2. \A v \in Volume : branch'[c][v] =
          IF branch[c][v] = NoBranch THEN NoBranch
          ELSE [branch[c][v] EXCEPT !.stage = "delete_batch"]
    BY <1>1, <2>1
  <2>3. \A b \in Branch : [b EXCEPT !.stage = "delete_batch"].keys = b.keys
    BY DEF Branch
  <2> TAKE v \in Volume
  <2>4. branch[c][v] \in Branch
    BY <1>1
  <2>5. CASE branch[c][v] = NoBranch
    BY <2>2, <2>5
  <2>6. CASE branch[c][v] # NoBranch
    BY <2>2, <2>3, <2>4, <2>6
  <2> QED BY <2>5, <2>6
<1>5. Deleting(c)' = Deleting(c)
  BY <1>4, DeletesRename
<1>6. \A k \in Key : \A v \in Volume :
        \/ index'[k][v] = index[k][v]
        \/ index'[k][v] = NoInfo /\ k \in Deleting(c)
  BY DEF NotifyDeleteKeys, NotifyDeleteBatch, Deleting
<1> QED BY <1>1, <1>2, <1>3, <1>5, <1>6, UnlistImplemented, UnlistIsNext

(* Every step of a delete starts one, unlists or erases. *)
LEMMA DeletesImplemented ==
  ASSUME OnePlace, IndexInv, CallInv, PlaceInv, TypeOK',
         NEW c \in Client, Acts(c), Deletes(c)
  PROVE  [Atomic!Next]_(Atomic!vars)
<1>1. TypeOK
  BY DEF CallInv, TypeInv
<1>2. CASE \/ \E k \in DeleteMenu : StartDelete(c, k)
           \/ \E keys \in BatchMenu : StartDeleteBatch(c, keys)
  BY <1>2, StartDeletingImplemented DEF Atomic!Next
<1>3. ASSUME NEW v \in Volume, VolumeDelete(c, v)
      PROVE  [Atomic!Next]_(Atomic!vars)
  <2>1. CallOf(c)' = CallOf(c)
    BY <1>1, <1>3, DeletesAreSilent DEF CallInv
  <2>2. branch' = [branch EXCEPT ![c][v] = NoBranch] /\ index' = index
    BY <1>3 DEF VolumeDelete, BranchEnds, BranchRaises, controllerVars
  <2>3. Forgotten(c, v) /\ branch[c][v].keys = {DeletedKey(c, v)}
    BY <1>3, TheDeletedKey DEF VolumeDelete, Forgotten, CallInv
  <2>4. CASE DeleteKeys(v, branch[c][v].keys)
    BY <2>1, <2>2, <2>3, <2>4, ForgottenErased
  <2>5. CASE store' = store
    <3>1. Deleting(c)' \subseteq Deleting(c)
      BY <1>1, <2>2, DeletesEnd
    <3> QED BY <1>1, <2>1, <2>2, <2>5, <3>1, NothingErased DEF PlaceInv
  <2> QED BY <1>3, <2>3, <2>4, <2>5 DEF VolumeDelete
<1>4. ASSUME NEW v \in Volume, VolumeDeleteBatch(c, v)
      PROVE  [Atomic!Next]_(Atomic!vars)
  <2>1. CallOf(c)' = CallOf(c)
    BY <1>1, <1>4, DeletesAreSilent DEF CallInv
  <2>2. /\ branch' = [branch EXCEPT ![c][v] = NoBranch] /\ index' = index
        /\ Forgotten(c, v) /\ DeleteKeys(v, branch[c][v].keys)
    BY <1>4 DEF VolumeDeleteBatch, BranchEnds, controllerVars, Forgotten
  <2> QED BY <2>1, <2>2, ForgottenErased
<1>5. ASSUME NEW v \in Volume, BranchFails(c, v)
      PROVE  [Atomic!Next]_(Atomic!vars)
  <2>1. CallOf(c)' = CallOf(c)
    BY <1>1, <1>5, DeletesAreSilent DEF CallInv
  <2>2. /\ branch' = [branch EXCEPT ![c][v] = NoBranch]
        /\ index' = index /\ store' = store
    BY <1>5 DEF BranchFails, BranchRaises, controllerVars
  <2>3. Deleting(c)' \subseteq Deleting(c)
    BY <1>1, <2>2, DeletesEnd
  <2> QED BY <1>1, <2>1, <2>2, <2>3, NothingErased DEF PlaceInv
<1> QED BY <1>2, <1>3, <1>4, <1>5, NotifyDeleteFromImplemented,
           NotifyDeleteKeysImplemented
        DEF Deletes

(* A call that fails ends, or gives up a delete before it erased anything. *)
LEMMA CallFailsImplemented ==
  ASSUME OnePlace, CallInv, PlaceInv, NEW c \in Client, Acts(c), CallFails(c)
  PROVE  [Atomic!Next]_(Atomic!vars)
<1>1. /\ TypeOK /\ ClientTypeOK
  BY DEF CallInv, TypeInv, TypeOK
<1>2. pc'[c] = "idle" /\ outcome'[c] # "ok" /\ UNCHANGED <<index, store>>
  BY <1>1 DEF CallFails, Return, ClientTypeOK, controllerVars
<1>3. CallOf(c)' = [op |-> "none"]
  BY <1>2 DEF CallOf
<1>4. CASE pc[c] = "notify_batch"
  <2>1. CallOf(c)' = CallOf(c)
    BY <1>3, <1>4, CallIs
  <2>2. branch' = [branch EXCEPT ![c] = NoBranches]
    BY <1>4 DEF CallFails
  <2>3. \A v \in Volume : branch'[c][v].keys = {}
    BY <1>1, <2>2 DEF NoBranches, NoBranch, ClientTypeOK
  <2>4. Deleting(c)' \subseteq Deleting(c)
    BY <2>3 DEF Deleting
  <2> QED BY <1>1, <1>2, <2>1, <2>4, NothingErased DEF PlaceInv
<1>5. CASE pc[c] # "notify_batch"
  <2>1. branch' = branch
    BY <1>5 DEF CallFails
  <2> QED BY <1>1, <1>2, <1>3, <2>1, EndsImplemented DEF Atomic!Next
<1> QED BY <1>4, <1>5

(* Every step of the store is a step of its registers, or none. *)
LEMMA AtomicStep ==
  ASSUME OnePlace, KeysKeepType, SlicesKeepPlace
  PROVE  AtomicInv /\ TypeOK' /\ GetIsComplete' /\ [Next]_vars
           => [Atomic!Next]_(Atomic!vars)
<1> SUFFICES ASSUME AtomicInv, TypeOK', GetIsComplete', [Next]_vars
             PROVE  [Atomic!Next]_(Atomic!vars)
  OBVIOUS
<1>1. IndexInv /\ CallInv /\ PlaceInv /\ StoredAtPlace /\ TypeOK /\ ClientTypeOK
  BY DEF AtomicInv, ReadInv, CallInv, PlaceInv, TypeInv, TypeOK
<1>2. CASE UNCHANGED vars
  <2>1. UNCHANGED <<index, store, pc, call, outcome, reqs, sent, parts, branch>>
    BY <1>2 DEF vars, controllerVars, clientVars
  <2>2. Calls' = Calls /\ Deletions' = Deletions
    BY <2>1 DEF Calls, CallOf, Deletions, Deleting
  <2>3. Registers' = Registers /\ Listings' = Listings
    BY <2>1 DEF Registers, Register, Held, Listings, ListedSlices
  <2> QED BY <2>2, <2>3 DEF Atomic!vars
<1>3. ASSUME NEW c \in Client, Acts(c), Puts(c)
      PROVE  [Atomic!Next]_(Atomic!vars)
  <2>1. ASSUME NEW rs \in PutMenu[c], StartPut(c, rs)
        PROVE  [Atomic!Next]_(Atomic!vars)
    <3>1. Items(rs, DOMAIN rs) \in ItemMenu[c]
      BY DEF ItemMenu
    <3>2. Atomic!StartPut(c, Items(rs, DOMAIN rs))
      BY <1>1, <1>3, <2>1, StartPutImplemented
    <3> QED BY <3>1, <3>2 DEF Atomic!Next
  <2>2. CASE VolumePut(c) /\ PutAccepts(Home[c], Chunk(c))
    BY <1>1, <1>3, <2>2, VolumePutImplemented DEF Atomic!Next
  <2>3. CASE VolumePut(c) /\ ~PutAccepts(Home[c], Chunk(c))
    <3>1. /\ pc'[c] = "idle" /\ outcome'[c] # "ok"
          /\ UNCHANGED <<index, store, branch>>
      BY <1>1, <2>3 DEF VolumePut, Return, ClientTypeOK, controllerVars
    <3>2. CallOf(c)' = [op |-> "none"]
      BY <3>1 DEF CallOf
    <3> QED BY <1>1, <1>3, <3>1, <3>2, EndsImplemented DEF Atomic!Next
  <2>4. CASE NotifyPut(c)
    BY <1>1, <1>3, <2>4, NotifyPutImplemented DEF Atomic!Next
  <2> QED BY <1>3, <2>1, <2>2, <2>3, <2>4 DEF Puts
<1>4. ASSUME NEW c \in Client, Acts(c), Reads(c)
      PROVE  [Atomic!Next]_(Atomic!vars)
  <2>1. ASSUME NEW wants \in GetMenu, StartGet(c, wants)
        PROVE  [Atomic!Next]_(Atomic!vars)
    BY <1>1, <1>4, <2>1, StartGetImplemented DEF Atomic!Next
  <2>2. ASSUME NEW v \in Volume, NEW subs \in SUBSET fetch[c][v],
               VolumeGet(c, v, subs)
        PROVE  [Atomic!Next]_(Atomic!vars)
    BY <1>1, <1>4, <2>2, VolumeGetImplemented DEF Atomic!Next
  <2>3. ASSUME NEW k \in Key, Exists(c, k)
        PROVE  [Atomic!Next]_(Atomic!vars)
    <3>1. /\ pc'[c] = "idle" /\ call'[c].op = "exists"
          /\ UNCHANGED <<index, store, branch>>
      BY <1>1, <2>3 DEF Exists, Begin, Return, ClientTypeOK, controllerVars
    <3>2. CallOf(c)' = [op |-> "none"]
      BY <3>1 DEF CallOf
    <3> QED BY <1>1, <1>4, <3>1, <3>2, EndsImplemented DEF Atomic!Next
  <2> QED BY <1>4, <2>1, <2>2, <2>3 DEF Reads
<1>5. ASSUME NEW c \in Client, Acts(c), Deletes(c)
      PROVE  [Atomic!Next]_(Atomic!vars)
  BY <1>1, <1>5, DeletesImplemented
<1>6. ASSUME NEW c \in Client, Acts(c), CallFails(c)
      PROVE  [Atomic!Next]_(Atomic!vars)
  BY <1>1, <1>6, CallFailsImplemented
<1> QED BY <1>2, <1>3, <1>4, <1>5, <1>6, NextIsOneAct DEF Acts

(* An empty store has empty registers. *)
LEMMA AtomicInit == Init => Atomic!Init
<1> SUFFICES ASSUME Init PROVE Atomic!Init
  OBVIOUS
<1>1. Registers = [k \in Key |-> [s \in Atomic!Slot |-> NoValue]]
  <2>1. \A s : DataIn(NoEntry, s) = {}
    BY DEF DataIn, NoEntry
  <2>2. \A k \in Key : \A s : Register(k, s) = NoValue
    BY <2>1, NoPlacedData DEF Init, VolumeInit
  <2> QED BY <2>2 DEF Registers, Atomic!Slot
<1>2. Listings = [k \in Key |-> {}]
  BY DEF Init, ControllerInit, NoInfo, Listings, ListedSlices
<1>3. Calls = [c \in Client |-> [op |-> "none"]]
  BY DEF Init, Calls, CallOf
<1>4. Deletions = [c \in Client |-> {}]
  BY DEF Init, NoBranches, NoBranch, Deletions, Deleting
<1> QED BY <1>1, <1>2, <1>3, <1>4 DEF Atomic!Init, Atomic!NoCall

(***************************************************************************)
(* The store is a map of registers: whatever fails, a put that returns has *)
(* written each of its registers, a get that returns has read each of its  *)
(* parts as the last put of that slice left it, and a delete erases only   *)
(* what readers are no longer told of; as long as each slice of a key is   *)
(* put through one volume, and puts of a key are kept apart from deletes.  *)
(***************************************************************************)
THEOREM AtomicImplemented ==
  ASSUME Discipline = "drained", OnePlace, KeysKeepType, SlicesKeepPlace,
         ShardingsCover
  PROVE  Spec => AtomicSpec
<1>1. Init => AtomicInv /\ Atomic!Init
  BY InitIndex, InitRead, InitPlace, AtomicInit DEF AtomicInv
<1>2. AtomicInv /\ [Next]_vars => AtomicInv'
  <2>1. AtomicInv => IndexInv /\ ReadInv /\ CallInv /\ PlaceInv
    BY DEF AtomicInv, ReadInv
  <2>2. IndexInv' /\ ReadInv' /\ PlaceInv' => AtomicInv'
    BY DEF AtomicInv
  <2> QED BY <2>1, <2>2, NextIndex, NextRead, NextPlace
<1>3. AtomicInv => TypeOK /\ GetIsComplete
  BY DEF AtomicInv, IndexInv, TypeInv, ReadInv
<1>4. AtomicInv /\ TypeOK' /\ GetIsComplete' /\ [Next]_vars
        => [Atomic!Next]_(Atomic!vars)
  BY AtomicStep
<1> QED BY <1>1, <1>2, <1>3, <1>4, PTL DEF Spec, AtomicSpec, Atomic!Spec
=============================================================================
