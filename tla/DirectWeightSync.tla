-------------------------- MODULE DirectWeightSync --------------------------
(***************************************************************************)
(* put_state_dict and get_state_dict with direct_rdma=True.  The ranks of  *)
(* the trainer register memory, once per key, and store the handles as     *)
(* objects; a generator fetches the handles of all ranks once per key,     *)
(* builds its transfer plan once, and pulls by reading the memory of the   *)
(* ranks while they go on training.                                        *)
(*                                                                         *)
(* The weights of a rank are a version, the number of its optimizer steps; *)
(* an element of a tensor is its global index and the version it is of.    *)
(***************************************************************************)
EXTENDS TensorGeometry, Sequences

CONSTANTS
  WorldSize,     \* the ranks of the trainer are 0, 1, ...
  Policy,        \* the keys of its state dicts
  Shard,         \* Shard[k][r]: the slices by name that rank r has under k
  Cast,          \* the keys that are put with a transfer_dtype
  Generator,     \* the clients that pull
  Into,          \* Into[d]: the slices by name of the destination d
  Uses,          \* Uses[g]: the pairs of key and destination that g pulls
  OneUse,        \* whether a generator pulls one key into one destination
  MaxStep,       \* bound on the steps of the optimizer
  MaxRegister,   \* bound on the calls of register of a rank
  DirectFault,   \* "handles", "num_ranks", "lost", "fetch", "read"
  Orderly        \* whether trainer and generators take turns

Trainer == 0..(WorldSize - 1)
Names(k) == UNION { DOMAIN Shard[k][r] : r \in Trainer }

ASSUME DirectAssumption ==
  /\ WorldSize \in Nat \ {0}
  /\ Cast \subseteq Policy
  /\ \A g \in Generator : Uses[g] \subseteq Policy \X DOMAIN Into

VARIABLES
  weights,      \* the version of each rank's parameters
  buffers,      \* buffers[r]: what each call of register has allocated
  staging,      \* _staging: which buffer refresh casts a parameter into
  registered,   \* the keys in the cache of a rank's client
  putting,      \* where a rank's put_state_dict is, and for which key
  synced,       \* the version its last complete put of a key has made ready
  published,    \* in the store: the handles of each rank, 0 if none
  counted,      \* in the store: the keys that have a num_ranks
  getting,      \* where a generator's get_state_dict is
  known,        \* the handles in the cache of its client, <<>> if none
  transfers,    \* _plan, or NoPlan
  reads,        \* the RDMA reads under way, those of failed pulls as well
  received,     \* the version in the receive buffer of an operation
  target        \* the destination tensors

trainerVars == <<weights, buffers, staging, registered, putting, synced>>
tableVars == <<published, counted>>
generatorVars == <<getting, known, transfers, reads, received, target>>
directVars == <<trainerVars, tableVars, generatorVars>>

NoPlan == [made |-> FALSE, ops |-> {}]
Made(ops) == [made |-> TRUE, ops |-> ops]
None == -1
Blank == <<>>
NotPutting == [stage |-> "idle", key |-> "none"]

DirectInit ==
  /\ weights = [r \in Trainer |-> 0]
  /\ buffers = [r \in Trainer |-> <<>>]
  /\ staging = [r \in Trainer |-> <<>>]
  /\ registered = [r \in Trainer |-> {}]
  /\ putting = [r \in Trainer |-> NotPutting]
  /\ synced = [r \in Trainer |-> [k \in Policy |-> None]]
  /\ published = [k \in Policy |-> [r \in Trainer |-> 0]]
  /\ counted = {}
  /\ getting = [g \in Generator |->
       [stage |-> "idle", key |-> "none", into |-> "none", found |-> <<>>]]
  /\ known = [g \in Generator |-> [k \in Policy |-> <<>>]]
  /\ transfers = [g \in Generator |-> NoPlan]
  /\ reads = [g \in Generator |-> {}]
  /\ received = [g \in Generator |-> <<>>]
  /\ target = [d \in DOMAIN Into |-> [p \in DOMAIN Into[d] |->
       [j \in Index(Into[d][p].local_shape) |-> Blank]]]

-----------------------------------------------------------------------------
(* Turns.  The program leaves these to its callers. *)

Fetching == {"num_ranks", "rank"}
Pulling(g) == getting[g].stage \in Fetching \cup {"reads"}

(* No generator pulls, and no read of a failed pull is still under way. *)
NobodyReads == \A g \in Generator : ~Pulling(g) /\ reads[g] = {}

(* All ranks have made as many steps, and have put the key since. *)
InStep(k) ==
  \A r, s \in Trainer :
    /\ weights[r] = weights[s]
    /\ k \in registered[r] => synced[r][k] = weights[r]

-----------------------------------------------------------------------------
(* The trainer *)

OptimizerStep(r) ==
  /\ putting[r] = NotPutting /\ weights[r] < MaxStep
  /\ Orderly => NobodyReads
  /\ weights' = [weights EXCEPT ![r] = @ + 1]
  /\ UNCHANGED <<buffers, staging, registered, putting, synced, tableVars,
                 generatorVars>>

(* Variant: each put registers its memory. *)
RegisterEachTime(r, k) ==
  LET names == DOMAIN Shard[k][r]
  IN  /\ putting[r] = NotPutting
      /\ Len(buffers[r]) < MaxRegister
      /\ buffers' = [buffers EXCEPT ![r] =
                       Append(@, [p \in names |-> weights[r]])]
      /\ staging' = IF k \notin Cast THEN staging
                    ELSE [staging EXCEPT ![r] =
                            [p \in names \cup DOMAIN @ |->
                               IF p \in names THEN Len(buffers'[r]) ELSE @[p]]]
      /\ putting' = [putting EXCEPT ![r] = [stage |-> "handles", key |-> k]]
      /\ UNCHANGED <<weights, registered, synced, tableVars, generatorVars>>

(* _put_state_dict_direct_rdma, the first time: register *)
RegisterMemory(r, k) ==
  LET names == DOMAIN Shard[k][r]
  IN  /\ putting[r] = NotPutting /\ k \notin registered[r]
      /\ Len(buffers[r]) < MaxRegister
      /\ buffers' = [buffers EXCEPT ![r] =
                       Append(@, [p \in names |-> weights[r]])]
      /\ staging' = IF k \notin Cast THEN staging
                    ELSE [staging EXCEPT ![r] =
                            [p \in names \cup DOMAIN @ |->
                               IF p \in names THEN Len(buffers'[r]) ELSE @[p]]]
      /\ putting' = [putting EXCEPT ![r] = [stage |-> "handles", key |-> k]]
      /\ UNCHANGED <<weights, registered, synced, tableVars, generatorVars>>

(* put_state_dict returns. *)
PutReturns(r, k) ==
  /\ putting' = [putting EXCEPT ![r] = NotPutting]
  /\ registered' = [registered EXCEPT ![r] = @ \cup {k}]
  /\ synced' = [synced EXCEPT ![r][k] = weights[r]]

StoreHandles(r) ==
  LET k == putting[r].key
  IN  /\ putting[r].stage = "handles"
      /\ published' = [published EXCEPT ![k][r] = Len(buffers[r])]
      /\ IF r = 0
         THEN /\ putting' = [putting EXCEPT ![r].stage = "num_ranks"]
              /\ UNCHANGED <<registered, synced>>
         ELSE PutReturns(r, k)
      /\ UNCHANGED <<weights, buffers, staging, counted, generatorVars>>

StoreNumRanks(r) ==
  LET k == putting[r].key
  IN  /\ putting[r].stage = "num_ranks"
      /\ counted' = counted \cup {k}
      /\ PutReturns(r, k)
      /\ UNCHANGED <<weights, buffers, staging, published, generatorVars>>

(* store.put raises; with "lost" it has stored the value all the same. *)
StoreFails(r) ==
  LET k     == putting[r].key
      stage == putting[r].stage
  IN  /\ putting[r] # NotPutting
      /\ \E fault \in DirectFault \cap {stage, "lost"} :
           /\ published' = IF fault = "lost" /\ stage = "handles"
                           THEN [published EXCEPT ![k][r] = Len(buffers[r])]
                           ELSE published
           /\ counted' = IF fault = "lost" /\ stage = "num_ranks"
                         THEN counted \cup {k} ELSE counted
      /\ putting' = [putting EXCEPT ![r] = NotPutting]
      /\ UNCHANGED <<weights, buffers, staging, registered, synced,
                     generatorVars>>

(* Later: refresh, which casts into the staging buffers of all keys. *)
Refresh(r, k) ==
  /\ putting[r] = NotPutting /\ k \in registered[r]
  /\ Orderly => NobodyReads
  /\ buffers' = [buffers EXCEPT ![r] = [n \in DOMAIN @ |->
       [p \in DOMAIN @[n] |->
          IF p \in DOMAIN staging[r] /\ staging[r][p] = n
          THEN weights[r] ELSE @[n][p]]]]
  /\ synced' = [synced EXCEPT ![r][k] = weights[r]]
  /\ UNCHANGED <<weights, staging, registered, putting, tableVars,
                 generatorVars>>

-----------------------------------------------------------------------------
(* _build_plan *)

(* Of a handle: the piece of the destination that its shard can give. *)
Piece(k, r, d, p) == Intersection(Shard[k][r][p], Into[d][p])

Overlaps(k, r, d, p) ==
  /\ p \in DOMAIN Shard[k][r] \cap DOMAIN Into[d]
  /\ Intersects(Shard[k][r][p], Into[d][p])
  /\ \A dim \in Dims(Into[d][p]) : Piece(k, r, d, p).local_shape[dim] # 0

(* Replicas offer the same region; it is read from the first of them. *)
IsFirst(k, r, d, p) ==
  \A s \in 0..(r - 1) :
    Overlaps(k, s, d, p) => Piece(k, s, d, p) # Piece(k, r, d, p)

Operations(k, handles, d) ==
  { [rank |-> x[1], key |-> k, handle |-> handles[x[1] + 1], name |-> x[2],
     into |-> d] :
      x \in { y \in Trainer \X DOMAIN Into[d] :
                /\ Overlaps(k, y[1], d, y[2])
                /\ IsFirst(k, y[1], d, y[2]) } }

ShardOf(op) == Shard[op.key][op.rank][op.name]
Destination(op) == Into[op.into][op.name]

(* The shard is read straight into the parameter. *)
IsExact(op) ==
  /\ ShardOf(op).offsets = Destination(op).offsets
  /\ ShardOf(op).local_shape = Destination(op).local_shape

(* An element of the shard that a handle names. *)
Element(op, i, v) == <<[d \in DOMAIN i |-> ShardOf(op).offsets[d] + i[d]], v>>

(* Variant: the overlap is taken from the shard where the destination has it. *)
FromUnshifted(op, j) == j

(* The slices of the receive buffer and of the parameter that overlap. *)
From(op, j) ==
  [d \in DOMAIN j |-> j[d] + Destination(op).offsets[d] - ShardOf(op).offsets[d]]

InSlices(op, j) ==
  LET piece == Piece(op.key, op.rank, op.into, op.name)
  IN  \A d \in DOMAIN j :
        /\ piece.offsets[d] - Destination(op).offsets[d] <= j[d]
        /\ j[d] < End(piece, d) - Destination(op).offsets[d]

-----------------------------------------------------------------------------
(* The generator *)

(* All reads of the plan are issued; reads of failed pulls may be left. *)
Issue(g, ops) ==
  reads' = [reads EXCEPT ![g] =
    @ \cup [op : ops, version : {None}, left : {FALSE}]]

(* pull: the plan of the first call serves all of them. *)
Pull(g, k, handles, d) ==
  LET ops == IF transfers[g] = NoPlan THEN Operations(k, handles, d)
             ELSE transfers[g].ops
  IN  /\ transfers' = [transfers EXCEPT ![g] = Made(ops)]
      /\ Issue(g, ops)

(* _get_state_dict_direct_rdma *)
StartPull(g, k, d) ==
  /\ ~Pulling(g) /\ <<k, d>> \in Uses[g]
  /\ Orderly => InStep(k)
  /\ OneUse => \/ getting[g].stage = "idle"
               \/ getting[g].key = k /\ getting[g].into = d
  /\ IF known[g][k] # <<>>
     THEN /\ Pull(g, k, known[g][k], d)
          /\ getting' = [getting EXCEPT ![g] =
               [stage |-> "reads", key |-> k, into |-> d, found |-> <<>>]]
     ELSE /\ getting' = [getting EXCEPT ![g] =
               [stage |-> "num_ranks", key |-> k, into |-> d, found |-> <<>>]]
          /\ UNCHANGED <<transfers, reads>>
  /\ UNCHANGED <<trainerVars, tableVars, known, received, target>>

Raises(g) ==
  getting' = [getting EXCEPT ![g].stage = "raised", ![g].found = <<>>]

FetchNumRanks(g) ==
  /\ getting[g].stage = "num_ranks"
  /\ IF getting[g].key \in counted
     THEN getting' = [getting EXCEPT ![g].stage = "rank"]
     ELSE Raises(g)   \* KeyError
  /\ UNCHANGED <<trainerVars, tableVars, known, transfers, reads, received,
                 target>>

(* The handles of the next rank; with those of the last, pull begins. *)
FetchRank(g) ==
  LET k     == getting[g].key
      found == Append(getting[g].found, published[k][Len(getting[g].found)])
  IN  /\ getting[g].stage = "rank"
      /\ IF published[k][Len(getting[g].found)] = 0
         THEN Raises(g) /\ UNCHANGED <<known, transfers, reads>>   \* KeyError
         ELSE IF Len(found) < WorldSize
         THEN /\ getting' = [getting EXCEPT ![g].found = found]
              /\ UNCHANGED <<known, transfers, reads>>
         ELSE /\ known' = [known EXCEPT ![g][k] = found]
              /\ Pull(g, k, found, getting[g].into)
              /\ getting' = [getting EXCEPT ![g].stage = "reads",
                                            ![g].found = <<>>]
      /\ UNCHANGED <<trainerVars, tableVars, received, target>>

FetchFails(g) ==
  /\ "fetch" \in DirectFault /\ getting[g].stage \in Fetching
  /\ Raises(g)
  /\ UNCHANGED <<trainerVars, tableVars, known, transfers, reads, received,
                 target>>

(* The memory behind a handle: a staging buffer, or the parameter itself. *)
Memory(op) ==
  IF op.key \in Cast THEN buffers[op.rank][op.handle][op.name]
  ELSE weights[op.rank]

(* A read takes the bytes of the source, *)
ReadLeaves(g, read) ==
  /\ read \in reads[g] /\ read.version = None
  /\ reads' = [reads EXCEPT ![g] =
       (@ \ {read}) \cup {[read EXCEPT !.version = Memory(read.op)]}]
  /\ UNCHANGED <<trainerVars, tableVars, getting, known, transfers, received,
                 target>>

(* and writes them at the destination. *)
ReadLands(g, read) ==
  LET op == read.op
  IN  /\ read \in reads[g] /\ read.version # None
      /\ reads' = [reads EXCEPT ![g] = @ \ {read}]
      /\ IF IsExact(op)
         THEN /\ target' = [target EXCEPT ![op.into][op.name] =
                   [j \in DOMAIN @ |-> Element(op, j, read.version)]]
              /\ UNCHANGED received
         ELSE /\ received' = [received EXCEPT ![g] =
                   [o \in {op} \cup DOMAIN @ |->
                      IF o = op THEN read.version ELSE @[o]]]
              /\ UNCHANGED target
      /\ UNCHANGED <<trainerVars, tableVars, getting, known, transfers>>

(* gather raises at the first read that fails, and leaves the others. *)
ReadFails(g, read) ==
  /\ "read" \in DirectFault /\ read \in reads[g]
  /\ IF read.left
     THEN /\ reads' = [reads EXCEPT ![g] = @ \ {read}]
          /\ UNCHANGED getting
     ELSE /\ reads' = [reads EXCEPT ![g] =
               { [other EXCEPT !.left = TRUE] : other \in @ \ {read} }]
          /\ Raises(g)
  /\ UNCHANGED <<trainerVars, tableVars, known, transfers, received, target>>

(* The copies out of the receive buffers, as they are. *)
CopyOut(g) ==
  LET copied == { op \in transfers[g].ops : ~IsExact(op) }
      Taken(d, p, j) == { op \in copied \cap DOMAIN received[g] :
                            op.into = d /\ op.name = p /\ InSlices(op, j) }
  IN  target' = [d \in DOMAIN Into |-> [p \in DOMAIN Into[d] |->
        [j \in DOMAIN target[d][p] |->
           IF Taken(d, p, j) = {} THEN target[d][p][j]
           ELSE LET op == CHOOSE op \in Taken(d, p, j) : TRUE
                IN  Element(op, From(op, j), received[g][op])]]]

Returns(g) ==
  /\ CopyOut(g)
  /\ getting' = [getting EXCEPT ![g].stage = "returned"]
  /\ UNCHANGED <<trainerVars, tableVars, known, transfers, reads, received>>

(* Variant: the pull does not wait for its reads. *)
CopyEarly(g) == getting[g].stage = "reads" /\ Returns(g)

(* They follow the last of the reads. *)
Copy(g) ==
  /\ getting[g].stage = "reads"
  /\ \A read \in reads[g] : read.left
  /\ Returns(g)

-----------------------------------------------------------------------------

DirectNext ==
  \/ \E r \in Trainer :
       \/ OptimizerStep(r)
       \/ \E k \in Policy : RegisterMemory(r, k) \/ Refresh(r, k)
       \/ StoreHandles(r) \/ StoreNumRanks(r) \/ StoreFails(r)
  \/ \E g \in Generator :
       \/ \E k \in Policy, d \in DOMAIN Into : StartPull(g, k, d)
       \/ FetchNumRanks(g) \/ FetchRank(g) \/ FetchFails(g)
       \/ \E read \in reads[g] :
            ReadLeaves(g, read) \/ ReadLands(g, read) \/ ReadFails(g, read)
       \/ Copy(g)

DirectSpec == DirectInit /\ [][DirectNext]_directVars

-----------------------------------------------------------------------------
(* Properties *)

(***************************************************************************)
(* The handles that a client has cached are those of the memory that the   *)
(* ranks keep up to date: what refresh casts into is what a later pull of  *)
(* the client reads, as a pull never asks for the handles again.           *)
(***************************************************************************)
HandlesAreRefreshed ==
  \A g \in Generator : \A k \in Cast :
    known[g][k] # <<>> =>
      \A r \in Trainer : \A p \in DOMAIN Shard[k][r] :
        staging[r][p] = known[g][k][r + 1]

(***************************************************************************)
(* "Destination model state dict to write into (parameters are updated     *)
(* in-place)": a pull that returns has filled each parameter of the state  *)
(* dict it was given that the key has, every element in its place and of   *)
(* the weights that all ranks have put last.                               *)
(***************************************************************************)
PulledIsLatest ==
  [][\A g \in Generator :
       getting[g].stage = "reads" /\ getting'[g].stage = "returned" =>
         LET k == getting[g].key
             d == getting[g].into
         IN  \A p \in DOMAIN Into[d] \cap Names(k) :
               \A j \in Index(Into[d][p].local_shape) :
                 target'[d][p][j] =
                   <<[x \in DOMAIN j |-> Into[d][p].offsets[x] + j[x]],
                     weights[0]>>]_directVars

(***************************************************************************)
(* Once a pull has returned, no read that a failed pull left behind alters *)
(* its parameters: they stay as they are until the client pulls again.     *)
(***************************************************************************)
PulledStays ==
  [][\A g \in Generator :
       getting[g].stage = "returned" /\ getting'[g] = getting[g] =>
         target'[getting[g].into] = target[getting[g].into]]_directVars
=============================================================================
