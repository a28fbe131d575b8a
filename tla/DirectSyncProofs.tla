-------------------------- MODULE DirectSyncProofs --------------------------
(***************************************************************************)
(* Proofs about direct weight sync, for any number of ranks, generators,   *)
(* keys and registrations: the handles that a client keeps stay those of   *)
(* the memory that the ranks refresh, a pull that returns has brought the  *)
(* latest weights, and they stay until the client pulls again.             *)
(***************************************************************************)
EXTENDS StateDictSync, TensorGeometryProofs

USE DirectAssumption

(* The parameters of two keys that are cast have names of their own: a     *)
(* rank has one staging buffer for a name.                                 *)
NamesApart ==
  \A r \in Trainer : \A k, j \in Cast :
    k # j => DOMAIN Shard[k][r] \cap DOMAIN Shard[j][r] = {}

(* No call of store.put fails after it has stored the value. *)
RepliesArrive == "lost" \notin DirectFault

-----------------------------------------------------------------------------
(* The invariant *)

(* The memory of one call of register. *)
Parameters == UNION { {DOMAIN Shard[k][r] : r \in Trainer} : k \in Policy }
Buffer == UNION { [names -> Nat] : names \in Parameters }

TrainerType ==
  /\ weights \in [Trainer -> Nat]
  /\ buffers \in [Trainer -> Seq(Buffer)]
  /\ DOMAIN staging = Trainer
  /\ registered \in [Trainer -> SUBSET Policy]
  /\ putting \in [Trainer -> [stage : {"idle", "handles", "num_ranks"},
                              key : Policy \cup {"none"}]]
  /\ published \in [Policy -> [Trainer -> Nat]]
  /\ counted \in SUBSET Policy

GeneratorType ==
  /\ DOMAIN getting = Generator
  /\ \A g \in Generator :
       /\ DOMAIN getting[g] = {"stage", "key", "into", "found"}
       /\ getting[g] = [x \in DOMAIN getting[g] |-> getting[g][x]]
       /\ getting[g].found \in Seq(Nat)
  /\ known \in [Generator -> [Policy -> Seq(Nat)]]

(* refresh casts the parameters of the key into memory n of the rank. *)
Refreshes(k, r, n) ==
  k \in Cast => \A p \in DOMAIN Shard[k][r] :
                  p \in DOMAIN staging[r] /\ staging[r][p] = n

(* A rank that is putting a key has not registered it. *)
PutsFirst(r) ==
  LET k == putting[r].key
      n == Len(buffers[r])
  IN  /\ putting[r].stage # "idle" =>
           /\ k \in Policy \ registered[r]
           /\ n # 0 /\ Refreshes(k, r, n)
      /\ putting[r].stage = "num_ranks" => r = 0 /\ published[k][r] = n

(* What it has put for good are the handles of the memory it refreshes. *)
Publishes(r) ==
  \A k \in Policy :
    /\ k \in registered[r] =>
         published[k][r] # 0 /\ Refreshes(k, r, published[k][r])
    /\ r # 0 /\ published[k][r] # 0 => k \in registered[r]
    /\ r = 0 /\ k \in counted => k \in registered[r]

RankHolds(r) == PutsFirst(r) /\ Publishes(r)

(* A client has the handles that are published, and counted. *)
Holds(k, found) ==
  /\ k \in counted
  /\ \A i \in 1..Len(found) : found[i] # 0 /\ found[i] = published[k][i - 1]

GeneratorHolds(g) ==
  /\ getting[g].stage \in Fetching => getting[g].key \in Policy
  /\ getting[g].stage = "num_ranks" => getting[g].found = <<>>
  /\ getting[g].stage = "rank" =>
       /\ Holds(getting[g].key, getting[g].found)
       /\ Len(getting[g].found) < WorldSize
  /\ \A k \in Policy : known[g][k] # <<>> =>
       Holds(k, known[g][k]) /\ Len(known[g][k]) = WorldSize

DirectInv ==
  /\ TrainerType /\ GeneratorType
  /\ \A r \in Trainer : RankHolds(r)
  /\ \A g \in Generator : GeneratorHolds(g)

-----------------------------------------------------------------------------
(* The trainer *)

LEMMA RanksAreTrainers ==
  /\ 0 \in Trainer /\ Trainer \subseteq Nat
  /\ \A n \in Nat : n < WorldSize => n \in Trainer
  /\ \A r \in Trainer : r + 1 \in 1..WorldSize
  BY DEF Trainer

LEMMA DirectInitially == DirectInit => DirectInv
<1> SUFFICES ASSUME DirectInit PROVE DirectInv
  OBVIOUS
<1> USE DEF DirectInit
<1>1. TrainerType
  <2>1. <<>> \in Seq(Buffer)
    OBVIOUS
  <2> QED BY <2>1 DEF TrainerType, NotPutting
<1>2. GeneratorType
  <2>1. <<>> \in Seq(Nat)
    OBVIOUS
  <2>2. \A g \in Generator :
          getting[g] = [stage |-> "idle", key |-> "none", into |-> "none",
                        found |-> <<>>]
    OBVIOUS
  <2> QED BY <2>1, <2>2 DEF GeneratorType
<1>3. ASSUME NEW r \in Trainer PROVE RankHolds(r)
  BY <1>3 DEF RankHolds, PutsFirst, Publishes, NotPutting
<1>4. ASSUME NEW g \in Generator PROVE GeneratorHolds(g)
  BY <1>4 DEF GeneratorHolds, Fetching
<1> QED BY <1>1, <1>2, <1>3, <1>4 DEF DirectInv

(* What clients have of the handles stays, and so do the other ranks. *)
LEMMA RankStep ==
  ASSUME DirectInv, NEW r \in Trainer, TrainerType', RankHolds(r)',
         UNCHANGED generatorVars,
         counted \subseteq counted',
         r # 0 => counted' = counted,
         \A k \in counted : published[k][r] # 0 =>
           published'[k][r] = published[k][r],
         \A q \in Trainer \ {r} :
           /\ buffers'[q] = buffers[q] /\ staging'[q] = staging[q]
           /\ registered'[q] = registered[q] /\ putting'[q] = putting[q]
           /\ \A k \in Policy : published'[k][q] = published[k][q]
  PROVE  DirectInv'
<1>1. ASSUME NEW q \in Trainer PROVE RankHolds(q)'
  <2>1. CASE q = r
    BY <2>1
  <2>2. CASE q # r
    <3>1. RankHolds(q)
      BY DEF DirectInv
    <3>2. \A k, n : Refreshes(k, q, n) => Refreshes(k, q, n)'
      BY <2>2 DEF Refreshes
    <3>3. PutsFirst(q)'
      BY <2>2, <3>1, <3>2 DEF RankHolds, PutsFirst
    <3>4. Publishes(q)'
      BY <2>2, <3>1, <3>2 DEF RankHolds, Publishes
    <3> QED BY <3>3, <3>4 DEF RankHolds
  <2> QED BY <2>1, <2>2
<1>2. ASSUME NEW k \in Policy, NEW found \in Seq(Nat), Holds(k, found),
             Len(found) <= WorldSize
      PROVE  /\ k \in counted'
             /\ \A i \in 1..Len(found) :
                  found[i] # 0 /\ found[i] = published'[k][i - 1]
  <2>1. \A i \in 1..Len(found) : i - 1 \in Trainer
    BY <1>2 DEF Trainer
  <2>2. \A i \in 1..Len(found) : published'[k][i - 1] = published[k][i - 1]
    BY <1>2, <2>1 DEF Holds
  <2> QED BY <1>2, <2>2 DEF Holds
<1>3. ASSUME NEW g \in Generator PROVE GeneratorHolds(g)'
  <2>1. /\ GeneratorHolds(g) /\ getting[g].found \in Seq(Nat)
        /\ \A k \in Policy : known[g][k] \in Seq(Nat)
    BY DEF DirectInv, GeneratorType
  <2>2. getting' = getting /\ known' = known
    BY DEF generatorVars
  <2>3. ASSUME getting[g].stage = "rank"
        PROVE  Holds(getting[g].key, getting[g].found)'
    <3> DEFINE found == getting[g].found
               k     == getting[g].key
    <3>1. k \in Policy /\ Holds(k, found) /\ Len(found) < WorldSize
      BY <2>1, <2>3 DEF GeneratorHolds, Fetching
    <3>2. found \in Seq(Nat) /\ Len(found) <= WorldSize
      BY <2>1, <3>1
    <3> HIDE DEF found, k
    <3>3. /\ k \in counted'
          /\ \A i \in 1..Len(found) :
               found[i] # 0 /\ found[i] = published'[k][i - 1]
      BY <1>2, <3>1, <3>2
    <3> QED BY <2>2, <3>3 DEF Holds, found, k
  <2>4. ASSUME NEW k \in Policy, known[g][k] # <<>>
        PROVE  Holds(k, known[g][k])'
    <3> DEFINE found == known[g][k]
    <3>1. Holds(k, found) /\ Len(found) = WorldSize
      BY <2>1, <2>4 DEF GeneratorHolds
    <3>2. found \in Seq(Nat) /\ Len(found) <= WorldSize
      BY <2>1, <3>1
    <3> HIDE DEF found
    <3>3. /\ k \in counted'
          /\ \A i \in 1..Len(found) :
               found[i] # 0 /\ found[i] = published'[k][i - 1]
      BY <1>2, <3>1, <3>2
    <3> QED BY <2>2, <3>3 DEF Holds, found
  <2> QED BY <2>1, <2>2, <2>3, <2>4 DEF GeneratorHolds
<1>4. GeneratorType'
  BY DEF DirectInv, GeneratorType, generatorVars
<1> QED BY <1>1, <1>3, <1>4 DEF DirectInv

LEMMA OptimizerKeeps ==
  ASSUME DirectInv, NEW r \in Trainer, OptimizerStep(r)
  PROVE  DirectInv'
<1> USE DEF OptimizerStep, tableVars
<1>1. TrainerType'
  BY DEF DirectInv, TrainerType
<1>2. RankHolds(r)'
  BY DEF DirectInv, RankHolds, PutsFirst, Publishes, Refreshes
<1> QED BY <1>1, <1>2, RankStep

LEMMA MemoryIsBuffer ==
  ASSUME NEW r \in Trainer, NEW k \in Policy, NEW v \in Nat
  PROVE  [p \in DOMAIN Shard[k][r] |-> v] \in Buffer
<1>1. [p \in DOMAIN Shard[k][r] |-> v] \in [DOMAIN Shard[k][r] -> Nat]
  OBVIOUS
<1>2. DOMAIN Shard[k][r] \in Parameters
  BY DEF Parameters
<1> QED BY <1>1, <1>2 DEF Buffer

LEMMA RegisterKeeps ==
  ASSUME DirectInv, NamesApart, NEW r \in Trainer, NEW k \in Policy,
         RegisterMemory(r, k)
  PROVE  DirectInv'
<1> USE DEF RegisterMemory, tableVars
<1> DEFINE memory == [p \in DOMAIN Shard[k][r] |-> weights[r]]
           n      == Len(buffers[r]) + 1
<1>1. TrainerType /\ RankHolds(r)
  BY DEF DirectInv
<1>2. memory \in Buffer
  BY <1>1, MemoryIsBuffer DEF TrainerType
<1>3. /\ buffers' = [buffers EXCEPT ![r] = Append(@, memory)]
      /\ k \notin registered[r]
      /\ putting' = [putting EXCEPT ![r] = [stage |-> "handles", key |-> k]]
  OBVIOUS
<1>4. /\ Append(buffers[r], memory) \in Seq(Buffer)
      /\ Len(Append(buffers[r], memory)) = n /\ n \in Nat /\ n # 0
  <2> HIDE DEF memory
  <2> QED BY <1>1, <1>2 DEF TrainerType
<1> HIDE DEF memory, n
<1>5. buffers' \in [Trainer -> Seq(Buffer)] /\ Len(buffers'[r]) = n
  BY <1>1, <1>3, <1>4 DEF TrainerType
<1>6. /\ DOMAIN staging' = Trainer
      /\ \A q \in Trainer \ {r} : staging'[q] = staging[q]
  BY <1>1 DEF TrainerType
<1>7. TrainerType'
  <2>1. putting' \in [Trainer -> [stage : {"idle", "handles", "num_ranks"},
                                 key : Policy \cup {"none"}]]
    BY <1>1, <1>3 DEF TrainerType
  <2> QED BY <1>1, <1>5, <1>6, <2>1 DEF TrainerType
<1>8. ASSUME k \in Cast, NEW p \in DOMAIN Shard[k][r]
      PROVE  p \in DOMAIN staging'[r] /\ staging'[r][p] = n
  <2>1. staging'[r] =
          [x \in DOMAIN Shard[k][r] \cup DOMAIN staging[r] |->
             IF x \in DOMAIN Shard[k][r] THEN Len(buffers'[r])
             ELSE staging[r][x]]
    BY <1>1, <1>8 DEF TrainerType
  <2> QED BY <1>5, <1>8, <2>1
<1>9. ASSUME NEW j \in Policy, j # k, NEW m, Refreshes(j, r, m)
      PROVE  Refreshes(j, r, m)'
  <2> SUFFICES ASSUME j \in Cast, NEW p \in DOMAIN Shard[j][r]
               PROVE  p \in DOMAIN staging'[r] /\ staging'[r][p] = m
    BY DEF Refreshes
  <2>1. p \in DOMAIN staging[r] /\ staging[r][p] = m
    BY <1>9 DEF Refreshes
  <2>2. CASE k \notin Cast
    BY <2>1, <2>2
  <2>3. CASE k \in Cast
    <3>1. p \notin DOMAIN Shard[k][r]
      BY <1>9, <2>3 DEF NamesApart
    <3>2. staging'[r] =
            [x \in DOMAIN Shard[k][r] \cup DOMAIN staging[r] |->
               IF x \in DOMAIN Shard[k][r] THEN Len(buffers'[r])
               ELSE staging[r][x]]
      BY <1>1, <2>3 DEF TrainerType
    <3> QED BY <2>1, <3>1, <3>2
  <2> QED BY <2>2, <2>3
<1>10. PutsFirst(r)'
  <2>1. putting'[r] = [stage |-> "handles", key |-> k]
    BY <1>1, <1>3 DEF TrainerType
  <2>2. Refreshes(k, r, Len(buffers[r]))'
    BY <1>5, <1>8 DEF Refreshes
  <2> QED BY <1>3, <1>4, <1>5, <2>1, <2>2 DEF PutsFirst
<1>11. Publishes(r)'
  BY <1>1, <1>9 DEF RankHolds, Publishes
<1>12. RankHolds(r)'
  BY <1>10, <1>11 DEF RankHolds
<1>13. /\ \A q \in Trainer \ {r} :
             buffers'[q] = buffers[q] /\ putting'[q] = putting[q]
       /\ registered' = registered /\ published' = published
       /\ counted' = counted /\ UNCHANGED generatorVars
  BY <1>1, <1>3 DEF TrainerType
<1> QED
  <2> USE DEF RegisterMemory
  <2> HIDE DEF RegisterMemory, tableVars
  <2> QED BY <1>6, <1>7, <1>12, <1>13, RankStep

LEMMA RefreshKeeps ==
  ASSUME DirectInv, NEW r \in Trainer, NEW k \in Policy, Refresh(r, k)
  PROVE  DirectInv'
<1> USE DEF Refresh, tableVars
<1>1. TrainerType /\ RankHolds(r) /\ weights[r] \in Nat
  BY DEF DirectInv, TrainerType
<1> DEFINE Recast(f, n) == [p \in DOMAIN f |->
             IF p \in DOMAIN staging[r] /\ staging[r][p] = n
             THEN weights[r] ELSE f[p]]
<1>2. ASSUME NEW f \in Buffer, NEW n PROVE Recast(f, n) \in Buffer
  <2>1. PICK names \in Parameters : f \in [names -> Nat]
    BY <1>2 DEF Buffer
  <2>2. Recast(f, n) \in [names -> Nat]
    BY <1>1, <2>1
  <2> HIDE DEF Recast
  <2> QED BY <2>1, <2>2 DEF Buffer
<1>3. buffers' = [buffers EXCEPT ![r] =
                    [n \in DOMAIN buffers[r] |-> Recast(buffers[r][n], n)]]
  BY <1>1 DEF TrainerType
<1> HIDE DEF Recast
<1>4. buffers' \in [Trainer -> Seq(Buffer)]
  <2>1. buffers[r] \in Seq(Buffer)
    BY <1>1 DEF TrainerType
  <2>2. [n \in DOMAIN buffers[r] |-> Recast(buffers[r][n], n)] \in Seq(Buffer)
    BY <1>2, <2>1
  <2> QED BY <1>1, <1>3, <2>2 DEF TrainerType
<1>5. TrainerType'
  BY <1>1, <1>4 DEF TrainerType
<1>6. RankHolds(r)'
  BY <1>1 DEF RankHolds, PutsFirst, Publishes, Refreshes, NotPutting
<1> QED BY <1>1, <1>3, <1>5, <1>6, RankStep DEF TrainerType

(* put_state_dict of a key returns, or is half done. *)
LEMMA PutReturnsType ==
  ASSUME TrainerType, NEW r \in Trainer, NEW k \in Policy, PutReturns(r, k)
  PROVE  /\ putting' \in [Trainer -> [stage : {"idle", "handles", "num_ranks"},
                                     key : Policy \cup {"none"}]]
         /\ putting'[r] = NotPutting
         /\ registered' \in [Trainer -> SUBSET Policy]
         /\ registered'[r] = registered[r] \cup {k}
         /\ \A q \in Trainer \ {r} :
              putting'[q] = putting[q] /\ registered'[q] = registered[q]
  BY DEF PutReturns, TrainerType, NotPutting

LEMMA PutUnregistered ==
  ASSUME DirectInv, NEW r \in Trainer, putting[r].stage # "idle"
  PROVE  /\ putting[r].key \in Policy \ registered[r]
         /\ Len(buffers[r]) \in Nat \ {0}
         /\ Refreshes(putting[r].key, r, Len(buffers[r]))
         /\ putting[r].key \in counted => r # 0
         /\ r # 0 => published[putting[r].key][r] = 0
<1>1. TrainerType /\ RankHolds(r)
  BY DEF DirectInv
<1>2. published[putting[r].key][r] # 0 /\ r # 0 =>
        putting[r].key \in registered[r]
  BY <1>1 DEF RankHolds, PutsFirst, Publishes
<1>3. r = 0 /\ putting[r].key \in counted => putting[r].key \in registered[r]
  BY <1>1 DEF RankHolds, PutsFirst, Publishes
<1> QED BY <1>1, <1>2, <1>3 DEF TrainerType, RankHolds, PutsFirst

LEMMA StoreHandlesKeeps ==
  ASSUME DirectInv, NEW r \in Trainer, StoreHandles(r)
  PROVE  DirectInv'
<1> DEFINE k == putting[r].key
           n == Len(buffers[r])
<1>1. TrainerType /\ RankHolds(r)
  BY DEF DirectInv
<1>2. /\ k \in Policy /\ k \notin registered[r]
      /\ n \in Nat /\ n # 0 /\ Refreshes(k, r, n)
      /\ r = 0 => k \notin counted
      /\ r # 0 => published[k][r] = 0
  BY PutUnregistered DEF StoreHandles
<1>3. /\ published' = [published EXCEPT ![k][r] = n]
      /\ weights' = weights /\ buffers' = buffers /\ staging' = staging
      /\ counted' = counted /\ UNCHANGED generatorVars
      /\ putting[r].stage = "handles"
  BY DEF StoreHandles
<1>4. \/ /\ r = 0 /\ putting' = [putting EXCEPT ![r].stage = "num_ranks"]
         /\ registered' = registered
      \/ r # 0 /\ PutReturns(r, k)
  BY DEF StoreHandles
<1> HIDE DEF k, n
<1>5. /\ published' \in [Policy -> [Trainer -> Nat]]
      /\ published'[k][r] = n
      /\ \A j \in Policy \ {k} : published'[j][r] = published[j][r]
      /\ \A q \in Trainer \ {r} : \A j \in Policy :
           published'[j][q] = published[j][q]
  BY <1>1, <1>2, <1>3 DEF TrainerType
<1>6. \A j, m : Refreshes(j, r, m) => Refreshes(j, r, m)'
  BY <1>3 DEF Refreshes
<1>7. \A j \in counted : published[j][r] # 0 =>
        published'[j][r] = published[j][r]
  BY <1>1, <1>2, <1>5 DEF TrainerType
<1>8. CASE r = 0 /\ putting' = [putting EXCEPT ![r].stage = "num_ranks"]
           /\ registered' = registered
  <2>1. /\ putting' \in [Trainer -> [stage : {"idle", "handles", "num_ranks"},
                                    key : Policy \cup {"none"}]]
        /\ putting'[r].stage = "num_ranks" /\ putting'[r].key = k
        /\ \A q \in Trainer \ {r} : putting'[q] = putting[q]
    BY <1>1, <1>8 DEF TrainerType, k
  <2>2. TrainerType'
    BY <1>1, <1>3, <1>5, <1>8, <2>1 DEF TrainerType
  <2>3. PutsFirst(r)'
    BY <1>2, <1>3, <1>5, <1>6, <1>8, <2>1 DEF PutsFirst, n
  <2>4. Publishes(r)'
    BY <1>1, <1>2, <1>3, <1>5, <1>6, <1>8 DEF RankHolds, Publishes
  <2>5. RankHolds(r)'
    BY <2>3, <2>4 DEF RankHolds
  <2> QED BY <1>3, <1>5, <1>7, <1>8, <2>1, <2>2, <2>5, RankStep
<1>9. CASE r # 0 /\ PutReturns(r, k)
  <2>1. /\ putting' \in [Trainer -> [stage : {"idle", "handles", "num_ranks"},
                                    key : Policy \cup {"none"}]]
        /\ putting'[r] = NotPutting
        /\ registered' \in [Trainer -> SUBSET Policy]
        /\ registered'[r] = registered[r] \cup {k}
        /\ \A q \in Trainer \ {r} :
             putting'[q] = putting[q] /\ registered'[q] = registered[q]
    BY <1>1, <1>2, <1>9, PutReturnsType
  <2>2. TrainerType'
    BY <1>1, <1>3, <1>5, <2>1 DEF TrainerType
  <2>3. PutsFirst(r)'
    BY <2>1 DEF PutsFirst, NotPutting
  <2>4. Publishes(r)'
    BY <1>1, <1>2, <1>3, <1>5, <1>6, <1>9, <2>1 DEF RankHolds, Publishes
  <2>5. RankHolds(r)'
    BY <2>3, <2>4 DEF RankHolds
  <2> QED BY <1>3, <1>5, <1>7, <1>9, <2>1, <2>2, <2>5, RankStep
<1> QED BY <1>4, <1>8, <1>9

LEMMA StoreNumRanksKeeps ==
  ASSUME DirectInv, NEW r \in Trainer, StoreNumRanks(r)
  PROVE  DirectInv'
<1> DEFINE k == putting[r].key
<1>1. TrainerType /\ RankHolds(r)
  BY DEF DirectInv
<1>2. /\ k \in Policy /\ r = 0
      /\ published[k][r] # 0 /\ Refreshes(k, r, published[k][r])
  BY <1>1, PutUnregistered DEF StoreNumRanks, RankHolds, PutsFirst
<1>3. /\ weights' = weights /\ buffers' = buffers /\ staging' = staging
      /\ published' = published /\ counted' = counted \cup {k}
      /\ UNCHANGED generatorVars /\ PutReturns(r, k)
  BY DEF StoreNumRanks
<1> HIDE DEF k
<1>4. /\ putting' \in [Trainer -> [stage : {"idle", "handles", "num_ranks"},
                                  key : Policy \cup {"none"}]]
      /\ putting'[r] = NotPutting
      /\ registered' \in [Trainer -> SUBSET Policy]
      /\ registered'[r] = registered[r] \cup {k}
      /\ \A q \in Trainer \ {r} :
           putting'[q] = putting[q] /\ registered'[q] = registered[q]
  BY <1>1, <1>2, <1>3, PutReturnsType
<1>5. TrainerType'
  BY <1>1, <1>2, <1>3, <1>4 DEF TrainerType
<1>6. PutsFirst(r)'
  BY <1>4 DEF PutsFirst, NotPutting
<1>7. \A j, m : Refreshes(j, r, m) => Refreshes(j, r, m)'
  BY <1>3 DEF Refreshes
<1>8. Publishes(r)'
  BY <1>1, <1>2, <1>3, <1>4, <1>7 DEF RankHolds, Publishes
<1>9. RankHolds(r)'
  BY <1>6, <1>8 DEF RankHolds
<1> QED BY <1>2, <1>3, <1>4, <1>5, <1>9, RankStep

LEMMA StoreFailsKeeps ==
  ASSUME DirectInv, RepliesArrive, NEW r \in Trainer, StoreFails(r)
  PROVE  DirectInv'
<1>1. TrainerType /\ RankHolds(r)
  BY DEF DirectInv
<1>2. /\ weights' = weights /\ buffers' = buffers /\ staging' = staging
      /\ registered' = registered /\ UNCHANGED generatorVars
      /\ putting' = [putting EXCEPT ![r] = NotPutting]
  BY DEF StoreFails
<1>3. published' = published /\ counted' = counted
  BY DEF StoreFails, RepliesArrive
<1>4. TrainerType'
  BY <1>1, <1>2, <1>3 DEF TrainerType, NotPutting
<1>5. RankHolds(r)'
  BY <1>1, <1>2, <1>3
     DEF TrainerType, RankHolds, PutsFirst, Publishes, Refreshes, NotPutting
<1> QED BY <1>1, <1>2, <1>3, <1>4, <1>5, RankStep DEF TrainerType

-----------------------------------------------------------------------------
(* The generators *)

(* What a generator has stays right if neither it nor the store moves.     *)
LEMMA GeneratorStays ==
  ASSUME NEW h \in Generator, GeneratorHolds(h), UNCHANGED tableVars,
         getting'[h] = getting[h], known'[h] = known[h]
  PROVE  GeneratorHolds(h)'
BY DEF GeneratorHolds, Holds, tableVars

LEMMA GeneratorStep ==
  ASSUME DirectInv, NEW g \in Generator, UNCHANGED <<trainerVars, tableVars>>,
         GeneratorType', GeneratorHolds(g)',
         \A h \in Generator \ {g} :
           getting'[h] = getting[h] /\ known'[h] = known[h]
  PROVE  DirectInv'
<1> USE DEF trainerVars, tableVars
<1>1. TrainerType'
  BY DEF DirectInv, TrainerType
<1>2. ASSUME NEW r \in Trainer PROVE RankHolds(r)'
  BY <1>2 DEF DirectInv, RankHolds, PutsFirst, Publishes, Refreshes
<1>3. ASSUME NEW h \in Generator \ {g} PROVE GeneratorHolds(h)'
  <2>1. GeneratorHolds(h)
    BY <1>3 DEF DirectInv
  <2>2. getting'[h] = getting[h] /\ known'[h] = known[h]
    BY <1>3
  <2> QED BY <1>3, <2>1, <2>2, GeneratorStays
<1> QED BY <1>1, <1>2, <1>3 DEF DirectInv

(* A get_state_dict moves on, with no handles more in the cache. *)
LEMMA GettingStep ==
  ASSUME DirectInv, NEW g \in Generator, UNCHANGED <<trainerVars, tableVars>>,
         known' = known, NEW s,
         getting' = [getting EXCEPT ![g] = s],
         DOMAIN s = {"stage", "key", "into", "found"},
         s = [x \in DOMAIN s |-> s[x]], s.found \in Seq(Nat),
         s.stage \in Fetching => s.key \in Policy,
         s.stage = "num_ranks" => s.found = <<>>,
         s.stage = "rank" => Holds(s.key, s.found) /\ Len(s.found) < WorldSize
  PROVE  DirectInv'
<1>1. GeneratorType /\ GeneratorHolds(g)
  BY DEF DirectInv
<1>2. getting'[g] = s /\ \A h \in Generator \ {g} : getting'[h] = getting[h]
  BY <1>1 DEF GeneratorType
<1>3. GeneratorType'
  BY <1>1, <1>2 DEF GeneratorType
<1>4. GeneratorHolds(g)'
  BY <1>1, <1>2 DEF GeneratorHolds, Holds, tableVars
<1> QED BY <1>2, <1>3, <1>4, GeneratorStep

LEMMA StartPullKeeps ==
  ASSUME DirectInv, NEW g \in Generator, NEW k \in Policy, NEW d,
         StartPull(g, k, d)
  PROVE  DirectInv'
<1> DEFINE s(x) == [stage |-> x, key |-> k, into |-> d, found |-> <<>>]
<1>1. /\ UNCHANGED <<trainerVars, tableVars>> /\ known' = known
  BY DEF StartPull
<1>2. PICK x \in {"num_ranks", "reads"} :
        getting' = [getting EXCEPT ![g] = s(x)]
  BY DEF StartPull
<1>3. /\ DOMAIN s(x) = {"stage", "key", "into", "found"}
      /\ s(x) = [y \in DOMAIN s(x) |-> s(x)[y]]
      /\ s(x).stage = x /\ s(x).key = k
      /\ s(x).found = <<>> /\ s(x).found \in Seq(Nat)
  OBVIOUS
<1> HIDE DEF s
<1> QED BY <1>1, <1>2, <1>3, GettingStep DEF Fetching

LEMMA RaisesKeeps ==
  ASSUME DirectInv, NEW g \in Generator, UNCHANGED <<trainerVars, tableVars>>,
         known' = known, Raises(g)
  PROVE  DirectInv'
<1> DEFINE s == [getting[g] EXCEPT !.stage = "raised", !.found = <<>>]
<1>1. DOMAIN getting[g] = {"stage", "key", "into", "found"}
  BY DEF DirectInv, GeneratorType
<1>2. getting' = [getting EXCEPT ![g] = s]
  BY DEF Raises, DirectInv, GeneratorType
<1>3. /\ DOMAIN s = {"stage", "key", "into", "found"}
      /\ s = [x \in DOMAIN s |-> s[x]]
      /\ s.stage = "raised" /\ s.found = <<>>
  BY <1>1
<1> HIDE DEF s
<1>4. s.found \in Seq(Nat)
  BY <1>3
<1> QED BY <1>2, <1>3, <1>4, GettingStep DEF Fetching

LEMMA FetchNumRanksKeeps ==
  ASSUME DirectInv, NEW g \in Generator, FetchNumRanks(g)
  PROVE  DirectInv'
<1> DEFINE s == [getting[g] EXCEPT !.stage = "rank"]
<1>1. /\ DOMAIN getting[g] = {"stage", "key", "into", "found"}
      /\ getting[g].found = <<>> /\ getting[g].key \in Policy
  BY DEF DirectInv, GeneratorType, GeneratorHolds, FetchNumRanks, Fetching
<1>2. UNCHANGED <<trainerVars, tableVars>> /\ known' = known
  BY DEF FetchNumRanks
<1>3. CASE Raises(g)
  BY <1>2, <1>3, RaisesKeeps
<1>4. CASE /\ getting[g].key \in counted
           /\ getting' = [getting EXCEPT ![g].stage = "rank"]
  <2>1. getting' = [getting EXCEPT ![g] = s]
    BY <1>4 DEF DirectInv, GeneratorType
  <2>2. /\ DOMAIN s = {"stage", "key", "into", "found"}
        /\ s = [x \in DOMAIN s |-> s[x]]
        /\ s.stage = "rank" /\ s.key = getting[g].key
        /\ s.found = <<>>
    BY <1>1
  <2> HIDE DEF s
  <2>3. /\ s.found \in Seq(Nat)
        /\ Holds(s.key, s.found) /\ Len(s.found) < WorldSize
    BY <1>4, <2>2 DEF Holds
  <2> QED BY <1>1, <1>2, <2>1, <2>2, <2>3, GettingStep DEF Fetching
<1> QED BY <1>3, <1>4 DEF FetchNumRanks

LEMMA FetchRankKeeps ==
  ASSUME DirectInv, NEW g \in Generator, FetchRank(g)
  PROVE  DirectInv'
<1> DEFINE k     == getting[g].key
           next  == published[k][Len(getting[g].found)]
           found == Append(getting[g].found, next)
           s     == [getting[g] EXCEPT !.found = found]
           t     == [getting[g] EXCEPT !.stage = "reads", !.found = <<>>]
<1>1. /\ DOMAIN getting[g] = {"stage", "key", "into", "found"}
      /\ getting[g].found \in Seq(Nat) /\ k \in Policy
      /\ Holds(k, getting[g].found) /\ Len(getting[g].found) < WorldSize
      /\ getting[g].stage = "rank"
  BY DEF DirectInv, GeneratorType, GeneratorHolds, FetchRank, Fetching
<1>2. UNCHANGED <<trainerVars, tableVars>>
  BY DEF FetchRank
<1>3. CASE Raises(g) /\ known' = known
  BY <1>2, <1>3, RaisesKeeps
<1>4. ASSUME next # 0
      PROVE  /\ found \in Seq(Nat) /\ Holds(k, found)
             /\ Len(found) = Len(getting[g].found) + 1
  <2>1. Len(getting[g].found) \in Trainer
    BY <1>1, RanksAreTrainers
  <2>2. next \in Nat
    BY <1>1, <2>1 DEF DirectInv, TrainerType
  <2> HIDE DEF next, k
  <2> QED BY <1>1, <1>4, <2>2 DEF Holds, next
<1>5. CASE /\ next # 0 /\ Len(found) < WorldSize /\ known' = known
           /\ getting' = [getting EXCEPT ![g].found = found]
  <2>1. /\ found \in Seq(Nat) /\ Holds(k, found)
    BY <1>4, <1>5
  <2> HIDE DEF found, next
  <2>2. getting' = [getting EXCEPT ![g] = s]
    BY <1>5 DEF DirectInv, GeneratorType
  <2>3. /\ DOMAIN s = {"stage", "key", "into", "found"}
        /\ s = [x \in DOMAIN s |-> s[x]]
        /\ s.stage = "rank" /\ s.found = found /\ s.key = k
    BY <1>1
  <2> HIDE DEF s, k
  <2> QED BY <1>1, <1>2, <1>5, <2>1, <2>2, <2>3, GettingStep DEF Fetching
<1>6. CASE /\ next # 0 /\ ~(Len(found) < WorldSize)
           /\ known' = [known EXCEPT ![g][k] = found]
           /\ getting' = [getting EXCEPT ![g].stage = "reads",
                                         ![g].found = <<>>]
  <2>1. /\ found \in Seq(Nat) /\ Holds(k, found) /\ Len(found) = WorldSize
    BY <1>1, <1>4, <1>6
  <2> HIDE DEF found, next
  <2>2. /\ known' \in [Generator -> [Policy -> Seq(Nat)]]
        /\ known'[g][k] = found
        /\ \A j \in Policy \ {k} : known'[g][j] = known[g][j]
        /\ \A h \in Generator \ {g} : known'[h] = known[h]
    BY <1>1, <1>6, <2>1 DEF DirectInv, GeneratorType
  <2>3. getting' = [getting EXCEPT ![g] = t]
    BY <1>6 DEF DirectInv, GeneratorType
  <2>4. /\ DOMAIN t = {"stage", "key", "into", "found"}
        /\ t = [x \in DOMAIN t |-> t[x]]
        /\ t.stage = "reads" /\ t.found = <<>>
    BY <1>1
  <2> HIDE DEF t, k
  <2>5. getting'[g] = t /\ \A h \in Generator \ {g} : getting'[h] = getting[h]
    BY <2>3 DEF DirectInv, GeneratorType
  <2>6. GeneratorType'
    <3>1. t.found \in Seq(Nat)
      BY <2>4
    <3> QED BY <2>2, <2>3, <2>4, <2>5, <3>1 DEF DirectInv, GeneratorType
  <2>7. \A j \in Policy : known'[g][j] # <<>> =>
          Holds(j, known'[g][j]) /\ Len(known'[g][j]) = WorldSize
    <3>1. \A j \in Policy : known[g][j] # <<>> =>
            Holds(j, known[g][j]) /\ Len(known[g][j]) = WorldSize
      BY DEF DirectInv, GeneratorHolds
    <3>2. \A j \in Policy \ {k} : known'[g][j] = known[g][j]
      BY <2>2
    <3>3. known'[g][k] = found
      BY <2>2
    <3> QED BY <2>1, <3>1, <3>2, <3>3, Zenon
  <2>8. GeneratorHolds(g)'
    BY <1>2, <2>4, <2>5, <2>7 DEF GeneratorHolds, Holds, Fetching, tableVars
  <2> QED BY <1>2, <2>2, <2>5, <2>6, <2>8, GeneratorStep
<1> QED BY <1>3, <1>5, <1>6 DEF FetchRank

(* The reads, and the copies out of the receive buffers. *)
LEMMA ReadsKeep ==
  ASSUME DirectInv, NEW g \in Generator,
         \/ FetchFails(g)
         \/ \E read \in reads[g] :
              ReadLeaves(g, read) \/ ReadLands(g, read) \/ ReadFails(g, read)
         \/ Copy(g)
  PROVE  DirectInv'
<1>1. UNCHANGED <<trainerVars, tableVars>> /\ known' = known
  BY DEF FetchFails, ReadLeaves, ReadLands, ReadFails, Copy, Returns
<1>2. CASE Raises(g)
  BY <1>1, <1>2, RaisesKeeps
<1>3. CASE getting' = getting
  <2>1. GeneratorType'
    BY <1>1, <1>3 DEF DirectInv, GeneratorType
  <2>2. GeneratorHolds(g)'
    BY <1>1, <1>3, GeneratorStays DEF DirectInv
  <2> QED BY <1>1, <1>3, <2>1, <2>2, GeneratorStep
<1>4. CASE getting' = [getting EXCEPT ![g].stage = "returned"]
  <2> DEFINE s == [getting[g] EXCEPT !.stage = "returned"]
  <2>1. /\ DOMAIN getting[g] = {"stage", "key", "into", "found"}
        /\ getting[g].found \in Seq(Nat)
    BY DEF DirectInv, GeneratorType
  <2>2. getting' = [getting EXCEPT ![g] = s]
    BY <1>4 DEF DirectInv, GeneratorType
  <2>3. /\ DOMAIN s = {"stage", "key", "into", "found"}
        /\ s = [x \in DOMAIN s |-> s[x]]
        /\ s.stage = "returned" /\ s.found = getting[g].found
    BY <2>1
  <2> HIDE DEF s
  <2> QED BY <1>1, <2>1, <2>2, <2>3, GettingStep DEF Fetching
<1> QED
  BY <1>2, <1>3, <1>4
     DEF FetchFails, ReadLeaves, ReadLands, ReadFails, Copy, Returns

-----------------------------------------------------------------------------
(* The system *)

LEMMA DirectNextKeeps ==
  ASSUME NamesApart, RepliesArrive, DirectInv, DirectNext
  PROVE  DirectInv'
<1>1. CASE \E r \in Trainer :
             \/ OptimizerStep(r)
             \/ \E k \in Policy : RegisterMemory(r, k) \/ Refresh(r, k)
             \/ StoreHandles(r) \/ StoreNumRanks(r) \/ StoreFails(r)
  BY <1>1, OptimizerKeeps, RegisterKeeps, RefreshKeeps, StoreHandlesKeeps,
     StoreNumRanksKeeps, StoreFailsKeeps
<1>2. CASE \E g \in Generator :
             \/ \E k \in Policy, d \in DOMAIN Into : StartPull(g, k, d)
             \/ FetchNumRanks(g) \/ FetchRank(g)
  BY <1>2, StartPullKeeps, FetchNumRanksKeeps, FetchRankKeeps
<1>3. CASE \E g \in Generator :
             \/ FetchFails(g)
             \/ \E read \in reads[g] :
                  \/ ReadLeaves(g, read) \/ ReadLands(g, read)
                  \/ ReadFails(g, read)
             \/ Copy(g)
  BY <1>3, ReadsKeep
<1> QED BY <1>1, <1>2, <1>3 DEF DirectNext

LEMMA DirectStutters ==
  ASSUME DirectInv, UNCHANGED directVars PROVE DirectInv'
<1> USE DEF directVars, trainerVars, tableVars, generatorVars
<1>1. TrainerType' /\ GeneratorType'
  BY DEF DirectInv, TrainerType, GeneratorType
<1>2. ASSUME NEW r \in Trainer PROVE RankHolds(r)'
  BY <1>2 DEF DirectInv, RankHolds, PutsFirst, Publishes, Refreshes
<1>3. ASSUME NEW g \in Generator PROVE GeneratorHolds(g)'
  BY <1>3 DEF DirectInv, GeneratorHolds, Holds
<1> QED BY <1>1, <1>2, <1>3 DEF DirectInv

(* Cached handles are published ones, and those are kept up to date. *)
LEMMA InvRefreshed == DirectInv => HandlesAreRefreshed
<1> SUFFICES ASSUME DirectInv, NEW g \in Generator, NEW k \in Cast,
                    known[g][k] # <<>>, NEW r \in Trainer,
                    NEW p \in DOMAIN Shard[k][r]
             PROVE  staging[r][p] = known[g][k][r + 1]
  BY DEF HandlesAreRefreshed
<1>1. k \in Policy
  BY DEF DirectAssumption
<1>2. Holds(k, known[g][k]) /\ Len(known[g][k]) = WorldSize
  BY <1>1 DEF DirectInv, GeneratorHolds
<1>3. r + 1 \in 1..WorldSize /\ r \in Nat /\ (r + 1) - 1 = r
  BY RanksAreTrainers
<1>4. /\ k \in counted /\ known[g][k][r + 1] # 0
      /\ known[g][k][r + 1] = published[k][r]
  BY <1>2, <1>3 DEF Holds
<1>5. Publishes(r)
  BY DEF DirectInv, RankHolds
<1>6. k \in registered[r]
  BY <1>1, <1>4, <1>5 DEF Publishes
<1>7. Refreshes(k, r, published[k][r])
  BY <1>1, <1>5, <1>6 DEF Publishes
<1> QED BY <1>4, <1>7 DEF Refreshes

(* Of the two ways to move a state dict, each step takes one. *)
LEMMA SyncIsDirect == SyncSpec => DirectSpec
<1>1. SyncInit => DirectInit
  BY DEF SyncInit
<1>2. [SyncNext]_syncVars => [DirectNext]_directVars
  BY DEF SyncNext, syncVars
<1> QED BY <1>1, <1>2, PTL DEF SyncSpec, DirectSpec

(* So what is proved of the exchange through the volumes holds here, too. *)
LEMMA SyncIsRouted == SyncSpec => FairSpec
<1>1. SyncInit => Init
  BY DEF SyncInit
<1>2. [SyncNext]_syncVars => [Next]_vars
  BY DEF SyncNext, syncVars
<1> QED BY <1>1, <1>2, PTL DEF SyncSpec, Spec, FairSpec

(***************************************************************************)
(* As long as no reply of store.put is lost, and the parameters of the     *)
(* keys that are cast have names of their own, the handles that a client   *)
(* keeps for a key name the memory that refresh casts the key into: of     *)
(* every rank, however often the ranks put and steps of a put fail.        *)
(***************************************************************************)
THEOREM CachedHandles ==
  NamesApart /\ RepliesArrive => (SyncSpec => []HandlesAreRefreshed)
<1> SUFFICES ASSUME NamesApart, RepliesArrive
             PROVE  SyncSpec => []HandlesAreRefreshed
  OBVIOUS
<1>1. DirectInit => DirectInv
  BY DirectInitially
<1>2. DirectInv /\ [DirectNext]_directVars => DirectInv'
  BY DirectNextKeeps, DirectStutters
<1>3. DirectInv => HandlesAreRefreshed
  BY InvRefreshed
<1> QED BY <1>1, <1>2, <1>3, SyncIsDirect, PTL DEF DirectSpec

-----------------------------------------------------------------------------
(* What a pull returns *)

(* Each generator has its own parameters. *)
OwnParameters ==
  \A g, h \in Generator : g # h =>
    \A u \in Uses[g], v \in Uses[h] : u[2] # v[2]

(* Shards of a parameter and destinations are slices of one tensor, and    *)
(* the shards leave none of it out.                                        *)
ShardsOf(k, p) ==
  { Shard[k][r][p] : r \in { q \in Trainer : p \in DOMAIN Shard[k][q] } }

ShardsCover ==
  \A g \in Generator : \A u \in Uses[g] :
    \A p \in DOMAIN Into[u[2]] \cap Names(u[1]) :
      LET dest == Into[u[2]][p]
      IN  /\ dest.global_shape \in [Dims(dest) -> 0..Extent]
          /\ dest \in SlicesOf(dest.global_shape)
          /\ ShardsOf(u[1], p) \subseteq SlicesOf(dest.global_shape)
          /\ Cells(dest) \subseteq UNION { Cells(s) : s \in ShardsOf(u[1], p) }

(* The element of a destination at index j, in version v. *)
Place(d, p, j, v) == <<[x \in DOMAIN j |-> Into[d][p].offsets[x] + j[x]], v>>

Filled(d, p) ==
  \A j \in Index(Into[d][p].local_shape) :
    target[d][p][j] = Place(d, p, j, weights[0])

(* An operation has brought what the ranks have put. *)
Landed(g, op) ==
  IF IsExact(op) THEN Filled(op.into, op.name)
  ELSE op \in DOMAIN received[g] /\ received[g][op] = weights[0]

(* The memory that call n of register has allocated for a key, *)
Allocated(k, r, n) ==
  n \in DOMAIN buffers[r] /\ DOMAIN Shard[k][r] \subseteq DOMAIN buffers[r][n]

(* with what the optimizer has made last of the parameters. *)
Fresh(k, r, n) ==
  \A p \in DOMAIN Shard[k][r] : buffers[r][n][p] = weights[r]

RankSyncs(r) ==
  /\ putting[r].stage # "idle" /\ putting[r].key \in Cast =>
       /\ Allocated(putting[r].key, r, Len(buffers[r]))
       /\ Fresh(putting[r].key, r, Len(buffers[r]))
  /\ \A k \in registered[r] : synced[r][k] <= weights[r]
  /\ \A k \in registered[r] \cap Cast :
       /\ Allocated(k, r, published[k][r])
       /\ synced[r][k] = weights[r] => Fresh(k, r, published[k][r])

(* A plan is that of the one key and destination that a generator pulls. *)
Plans(g) ==
  LET k == getting[g].key
  IN  \/ transfers[g] = NoPlan /\ reads[g] = {} /\ getting[g].stage # "reads"
      \/ /\ known[g][k] # <<>>
         /\ getting[g].stage \in {"reads", "raised", "returned"}
         /\ transfers[g] = Made(Operations(k, known[g][k], getting[g].into))

IsRead(g, read) ==
  /\ read = [op |-> read.op, version |-> read.version, left |-> read.left]
  /\ read.op \in transfers[g].ops
  /\ read.version \in {None, weights[0]}

(* Of an operation, the pull under way waits for a read or has had it. *)
Served(g, op) ==
  Landed(g, op) \/ \E read \in reads[g] : read.op = op /\ ~read.left

Reading(g) ==
  LET k     == getting[g].key
      d     == getting[g].into
      stage == getting[g].stage
  IN  /\ stage # "idle" => <<k, d>> \in Uses[g]
      /\ stage \in Fetching => known[g][k] = <<>>
      /\ Plans(g)
      /\ \A read \in reads[g] : IsRead(g, read)
      /\ Pulling(g) \/ reads[g] # {} => InStep(k)
      /\ stage = "reads" => \A op \in transfers[g].ops : Served(g, op)
      /\ stage = "returned" /\ reads[g] # {} =>
           \A p \in DOMAIN Into[d] \cap Names(k) : Filled(d, p)

PullType ==
  /\ synced \in [Trainer -> [Policy -> Int]]
  /\ DOMAIN transfers = Generator
  /\ DOMAIN reads = Generator
  /\ DOMAIN received = Generator
  /\ DOMAIN target = DOMAIN Into
  /\ \A d \in DOMAIN Into :
       /\ target[d] = [p \in DOMAIN Into[d] |-> target[d][p]]
       /\ \A p \in DOMAIN Into[d] :
            target[d][p] = [j \in Index(Into[d][p].local_shape) |->
                              target[d][p][j]]

PullInv ==
  /\ DirectInv /\ PullType
  /\ \A r \in Trainer : RankSyncs(r)
  /\ \A g \in Generator : Reading(g)

LEMMA PullInitially == DirectInit => PullInv
<1> SUFFICES ASSUME DirectInit PROVE PullInv
  OBVIOUS
<1> USE DEF DirectInit
<1>1. PullType
  <2>1. synced \in [Trainer -> [Policy -> Int]]
    BY DEF None
  <2>2. ASSUME NEW d \in DOMAIN Into
        PROVE  /\ target[d] = [p \in DOMAIN Into[d] |-> target[d][p]]
               /\ \A p \in DOMAIN Into[d] :
                    target[d][p] = [j \in Index(Into[d][p].local_shape) |->
                                      target[d][p][j]]
    <3> HIDE DEF Index
    <3>1. target[d] = [p \in DOMAIN Into[d] |->
                         [j \in Index(Into[d][p].local_shape) |-> Blank]]
      OBVIOUS
    <3> QED BY <3>1
  <2> QED BY <2>1, <2>2 DEF PullType
<1>2. \A r \in Trainer : RankSyncs(r)
  BY DEF RankSyncs, NotPutting
<1>3. ASSUME NEW g \in Generator PROVE Reading(g)
  BY DEF Reading, Plans, Fetching, Pulling
<1> QED BY <1>1, <1>2, <1>3, DirectInitially DEF PullInv

(* The ranks train, and put. *)
LEMMA OptimizerSyncs ==
  ASSUME PullInv, NEW r \in Trainer, OptimizerStep(r)
  PROVE  RankSyncs(r)'
<1>1. /\ weights[r] \in Nat /\ weights'[r] = weights[r] + 1
      /\ putting'[r].stage = "idle"
  BY DEF PullInv, DirectInv, TrainerType, OptimizerStep, NotPutting
<1>2. UNCHANGED <<buffers, staging, registered, synced, published>>
  BY DEF OptimizerStep, tableVars
<1>3. \A k \in registered[r] : synced[r][k] \in Int
  BY DEF PullInv, DirectInv, TrainerType, PullType
<1>4. RankSyncs(r)
  BY DEF PullInv
<1>5. \A k \in registered[r] : /\ synced'[r][k] <= weights'[r]
                               /\ synced'[r][k] # weights'[r]
  BY <1>1, <1>2, <1>3, <1>4 DEF RankSyncs
<1>6. \A k \in registered[r] \cap Cast : Allocated(k, r, published[k][r])'
  BY <1>2, <1>4 DEF RankSyncs, Allocated
<1> QED BY <1>1, <1>2, <1>5, <1>6 DEF RankSyncs

LEMMA RegisterSyncs ==
  ASSUME PullInv, NEW r \in Trainer, NEW k \in Policy, RegisterMemory(r, k)
  PROVE  RankSyncs(r)'
<1> DEFINE memory == [p \in DOMAIN Shard[k][r] |-> weights[r]]
           n      == Len(buffers[r]) + 1
<1>1. TrainerType /\ RankHolds(r) /\ RankSyncs(r)
  BY DEF PullInv, DirectInv
<1>2. memory \in Buffer /\ buffers[r] \in Seq(Buffer)
  <2>1. weights[r] \in Nat /\ buffers[r] \in Seq(Buffer)
    BY <1>1 DEF TrainerType
  <2>2. memory \in Buffer
    BY <2>1, MemoryIsBuffer
  <2> QED BY <2>1, <2>2
<1>3. /\ buffers' = [buffers EXCEPT ![r] = Append(@, memory)]
      /\ putting' = [putting EXCEPT ![r] = [stage |-> "handles", key |-> k]]
      /\ UNCHANGED <<weights, registered, synced, published>>
  BY DEF RegisterMemory, tableVars
<1>4. /\ DOMAIN memory = DOMAIN Shard[k][r]
      /\ \A p \in DOMAIN Shard[k][r] : memory[p] = weights[r]
  OBVIOUS
<1> HIDE DEF memory
<1>5. /\ n \in Nat /\ DOMAIN buffers[r] = 1..(n - 1)
      /\ Len(buffers'[r]) = n /\ DOMAIN buffers'[r] = 1..n
      /\ buffers'[r][n] = memory
      /\ \A m \in DOMAIN buffers[r] : buffers'[r][m] = buffers[r][m]
  <2>1. buffers'[r] = Append(buffers[r], memory)
    BY <1>1, <1>3 DEF TrainerType
  <2> QED BY <1>2, <2>1
<1>6. putting'[r].key = k
  BY <1>1, <1>3 DEF TrainerType
<1>7. Allocated(k, r, Len(buffers[r]))' /\ Fresh(k, r, Len(buffers[r]))'
  BY <1>3, <1>4, <1>5 DEF Allocated, Fresh
<1>8. ASSUME NEW j \in registered[r] \cap Cast
      PROVE  /\ Allocated(j, r, published[j][r])'
             /\ synced[r][j] = weights[r] => Fresh(j, r, published[j][r])'
  BY <1>1, <1>3, <1>5 DEF RankSyncs, Allocated, Fresh
<1> QED BY <1>1, <1>3, <1>6, <1>7, <1>8 DEF RankSyncs

LEMMA RefreshSyncs ==
  ASSUME PullInv, NEW r \in Trainer, NEW k \in Policy, Refresh(r, k)
  PROVE  RankSyncs(r)'
<1>1. TrainerType /\ RankHolds(r) /\ RankSyncs(r) /\ PullType
  BY DEF PullInv, DirectInv
<1>2. /\ putting'[r].stage = "idle" /\ k \in registered[r]
      /\ UNCHANGED <<weights, staging, registered, published>>
  BY DEF Refresh, NotPutting, tableVars
<1>3. /\ DOMAIN buffers'[r] = DOMAIN buffers[r]
      /\ \A n \in DOMAIN buffers[r] :
           /\ DOMAIN buffers'[r][n] = DOMAIN buffers[r][n]
           /\ \A p \in DOMAIN buffers[r][n] :
                p \in DOMAIN staging[r] /\ staging[r][p] = n =>
                  buffers'[r][n][p] = weights[r]
  <2>1. buffers'[r] = [n \in DOMAIN buffers[r] |->
          [p \in DOMAIN buffers[r][n] |->
             IF p \in DOMAIN staging[r] /\ staging[r][p] = n
             THEN weights[r] ELSE buffers[r][n][p]]]
    BY <1>1 DEF Refresh, TrainerType
  <2> QED BY <2>1
<1>4. \A j \in Policy : synced'[r][j] \in {synced[r][j], weights[r]}
  BY <1>1 DEF Refresh, PullType
<1>5. /\ weights[r] \in Nat /\ registered[r] \subseteq Policy
  BY <1>1 DEF TrainerType
<1>6. \A j \in registered[r] : synced'[r][j] <= weights[r]
  <2> SUFFICES ASSUME NEW j \in registered[r]
               PROVE  synced'[r][j] <= weights[r]
    OBVIOUS
  <2>1. synced[r][j] <= weights[r]
    BY <1>1 DEF RankSyncs
  <2> QED BY <1>4, <1>5, <2>1
<1>7. ASSUME NEW j \in registered[r] \cap Cast
      PROVE  Allocated(j, r, published[j][r])' /\ Fresh(j, r, published[j][r])'
  <2> DEFINE n == published[j][r]
  <2>1. Allocated(j, r, n) /\ Refreshes(j, r, n)
    BY <1>1, <1>5 DEF RankSyncs, RankHolds, Publishes
  <2> HIDE DEF n
  <2>2. /\ n \in DOMAIN buffers[r]
        /\ DOMAIN Shard[j][r] \subseteq DOMAIN buffers[r][n]
        /\ \A p \in DOMAIN Shard[j][r] :
             p \in DOMAIN staging[r] /\ staging[r][p] = n
    BY <2>1, <1>7 DEF Allocated, Refreshes
  <2>3. /\ n \in DOMAIN buffers'[r]
        /\ DOMAIN Shard[j][r] \subseteq DOMAIN buffers'[r][n]
        /\ \A p \in DOMAIN Shard[j][r] : buffers'[r][n][p] = weights[r]
    BY <1>3, <2>2
  <2> QED BY <1>2, <2>3 DEF Allocated, Fresh, n
<1> QED BY <1>2, <1>6, <1>7 DEF RankSyncs

(* A put of k that returns has made it ready. *)
LEMMA ReturnSyncs ==
  ASSUME PullInv, NEW r \in Trainer, NEW k \in Policy, putting[r].key = k,
         putting[r].stage # "idle", PutReturns(r, k),
         UNCHANGED <<weights, buffers>>,
         published'[k][r] = Len(buffers[r]),
         \A j \in Policy \ {k} : published'[j][r] = published[j][r]
  PROVE  RankSyncs(r)'
<1>1. TrainerType /\ RankHolds(r) /\ RankSyncs(r) /\ PullType
  BY DEF PullInv, DirectInv
<1>2. /\ putting'[r].stage = "idle" /\ registered'[r] = registered[r] \cup {k}
      /\ synced'[r][k] = weights[r]
      /\ \A j \in Policy \ {k} : synced'[r][j] = synced[r][j]
  BY <1>1 DEF PutReturns, TrainerType, PullType, NotPutting
<1>3. k \notin registered[r] /\ registered[r] \subseteq Policy /\ weights[r] \in Nat
  BY <1>1 DEF RankHolds, PutsFirst, TrainerType
<1>4. k \in Cast => /\ Allocated(k, r, published[k][r])'
                    /\ Fresh(k, r, published[k][r])'
  BY <1>1 DEF RankSyncs, Allocated, Fresh
<1>5. \A j \in registered[r] \cap Cast :
        /\ Allocated(j, r, published[j][r])'
        /\ synced'[r][j] = weights[r] => Fresh(j, r, published[j][r])'
  BY <1>1, <1>2, <1>3 DEF RankSyncs, Allocated, Fresh
<1>6. \A j \in registered'[r] : synced'[r][j] <= weights'[r]
  BY <1>1, <1>2, <1>3 DEF RankSyncs
<1> QED BY <1>2, <1>4, <1>5, <1>6 DEF RankSyncs

LEMMA StoreSyncs ==
  ASSUME PullInv, RepliesArrive, NEW r \in Trainer,
         StoreHandles(r) \/ StoreNumRanks(r) \/ StoreFails(r)
  PROVE  RankSyncs(r)'
<1> PICK k : k = putting[r].key
  OBVIOUS
<1>1. TrainerType /\ RankHolds(r) /\ RankSyncs(r)
  BY DEF PullInv, DirectInv
<1>2. /\ StoreHandles(r) \/ StoreNumRanks(r) => putting[r].stage # "idle"
      /\ UNCHANGED <<weights, buffers>>
  BY DEF StoreHandles, StoreNumRanks, StoreFails
<1>3. /\ registered[r] \subseteq Policy
      /\ putting[r].stage # "idle" => k \in Policy \ registered[r]
  BY <1>1 DEF RankHolds, PutsFirst, TrainerType
<1>4. ASSUME StoreHandles(r)
      PROVE  /\ published'[k][r] = Len(buffers[r])
             /\ \A j \in Policy \ {k} : published'[j][r] = published[j][r]
  BY <1>1, <1>2, <1>3, <1>4 DEF StoreHandles, TrainerType
<1>5. CASE StoreHandles(r) /\ PutReturns(r, k)
  <2> QED BY <1>2, <1>3, <1>4, <1>5, ReturnSyncs
<1>6. CASE /\ StoreHandles(r) /\ UNCHANGED <<registered, synced>>
           /\ putting' = [putting EXCEPT ![r].stage = "num_ranks"]
  <2>1. putting'[r].key = k
    BY <1>1, <1>6 DEF TrainerType
  <2>2. k \in Cast => /\ Allocated(k, r, Len(buffers[r]))'
                      /\ Fresh(k, r, Len(buffers[r]))'
    BY <1>1, <1>2, <1>6 DEF RankSyncs, Allocated, Fresh
  <2>3. \A j \in registered[r] \cap Cast :
          /\ Allocated(j, r, published[j][r])'
          /\ synced[r][j] = weights[r] => Fresh(j, r, published[j][r])'
    BY <1>1, <1>2, <1>3, <1>4, <1>6 DEF RankSyncs, Allocated, Fresh
  <2>4. \A j \in registered[r] : synced[r][j] <= weights[r]
    BY <1>1 DEF RankSyncs
  <2> QED BY <1>2, <1>6, <2>1, <2>2, <2>3, <2>4 DEF RankSyncs
<1>7. CASE StoreNumRanks(r)
  <2>1. /\ PutReturns(r, k) /\ published' = published
        /\ published[k][r] = Len(buffers[r])
    BY <1>1, <1>7 DEF StoreNumRanks, RankHolds, PutsFirst
  <2> QED BY <1>2, <1>3, <1>7, <2>1, ReturnSyncs
<1>8. CASE StoreFails(r)
  <2>1. /\ putting'[r].stage = "idle"
        /\ UNCHANGED <<registered, synced, published>>
    BY <1>1, <1>8 DEF StoreFails, RepliesArrive, NotPutting, TrainerType
  <2> QED BY <1>1, <1>2, <2>1 DEF RankSyncs, Allocated, Fresh
<1> QED BY <1>5, <1>6, <1>7, <1>8 DEF StoreHandles

(* The ranks train only while no generator reads, and what a put that      *)
(* returns has made ready is what all ranks have.                          *)
LEMMA ReadingGoesOn ==
  ASSUME NEW g \in Generator, Reading(g), UNCHANGED generatorVars,
         \/ NobodyReads
         \/ weights' = weights /\ \A k \in Policy : InStep(k) => InStep(k)'
  PROVE  Reading(g)'
<1> PICK k : k = getting[g].key
  OBVIOUS
<1> USE DEF generatorVars
<1>1. Plans(g)'
  BY DEF Reading, Plans
<1>2. \A op : ~NobodyReads => (Landed(g, op) => Landed(g, op)')
  BY DEF Landed, Filled
<1>3. \A op : ~NobodyReads => (Served(g, op) => Served(g, op)')
  BY <1>2 DEF Served
<1>4. (Pulling(g) \/ reads[g] # {})' => Pulling(g) \/ reads[g] # {}
  BY DEF Pulling
<1>5. NobodyReads => ~Pulling(g) /\ reads[g] = {}
  BY DEF NobodyReads
<1>6. getting[g].stage = "reads" => Pulling(g)
  BY DEF Pulling
<1>7. \A read \in reads[g] : IsRead(g, read)'
  BY <1>5 DEF Reading, IsRead
<1>8. Pulling(g) => getting[g].stage # "idle"
  BY DEF Pulling, Fetching
<1>9. Plans(g) => (reads[g] # {} => getting[g].stage # "idle")
  BY DEF Plans
<1>10. (Pulling(g) \/ reads[g] # {})' => InStep(getting[g].key)'
  <2> SUFFICES ASSUME Pulling(g) \/ reads[g] # {} PROVE InStep(getting[g].key)'
    BY <1>4
  <2>1. InStep(k) /\ <<k, getting[g].into>> \in Uses[g]
    BY <1>8, <1>9 DEF Reading
  <2>2. k \in Policy
    BY <2>1 DEF DirectAssumption
  <2>3. InStep(k)' /\ getting'[g].key = k
    BY <1>5, <2>1, <2>2
  <2> QED BY <2>3
<1>11. (getting[g].stage = "reads" =>
          \A op \in transfers[g].ops : Served(g, op))'
  BY <1>3, <1>5, <1>6 DEF Reading
<1>12. (getting[g].stage = "returned" /\ reads[g] # {} =>
          \A p \in DOMAIN Into[getting[g].into] \cap Names(getting[g].key) :
            Filled(getting[g].into, p))'
  BY <1>5 DEF Reading, Filled
<1>13. /\ getting'[g].stage # "idle" =>
            <<getting'[g].key, getting'[g].into>> \in Uses[g]
       /\ getting'[g].stage \in Fetching => known'[g][getting'[g].key] = <<>>
  BY DEF Reading
<1>14. \A read \in reads'[g] : IsRead(g, read)'
  BY <1>7
<1> HIDE DEF generatorVars
<1> QED BY <1>1, <1>10, <1>11, <1>12, <1>13, <1>14 DEF Reading

LEMMA PutKeepsStep ==
  ASSUME PullInv, NEW r \in Trainer, NEW j \in Policy, weights' = weights,
         \/ UNCHANGED <<registered, synced>>
         \/ PutReturns(r, j)
  PROVE  \A k \in Policy : InStep(k) => InStep(k)'
<1> SUFFICES ASSUME NEW k \in Policy, InStep(k), NEW q \in Trainer,
                    k \in registered'[q]
             PROVE  synced'[q][k] = weights'[q]
  BY DEF InStep
<1>1. TrainerType /\ PullType
  BY DEF PullInv, DirectInv
<1>2. k \in registered[q] => synced[q][k] = weights[q]
  BY DEF InStep
<1>3. CASE UNCHANGED <<registered, synced>>
  BY <1>2, <1>3
<1>4. CASE PutReturns(r, j)
  <2>1. /\ registered' = [registered EXCEPT ![r] = @ \cup {j}]
        /\ synced' = [synced EXCEPT ![r][j] = weights[r]]
    BY <1>4 DEF PutReturns
  <2>2. CASE q = r /\ k = j
    BY <1>1, <2>1, <2>2 DEF PullType
  <2>3. CASE ~(q = r /\ k = j)
    BY <1>1, <1>2, <2>1, <2>3 DEF PullType, TrainerType
  <2> QED BY <2>2, <2>3
<1> QED BY <1>3, <1>4

TrainerActs(r) ==
  \/ OptimizerStep(r)
  \/ \E k \in Policy : RegisterMemory(r, k) \/ Refresh(r, k)
  \/ StoreHandles(r) \/ StoreNumRanks(r) \/ StoreFails(r)

LEMMA TrainerPulls ==
  ASSUME PullInv, DirectInv', Orderly, RepliesArrive, NEW r \in Trainer,
         TrainerActs(r)
  PROVE  PullInv'
<1>1. TrainerType /\ PullType /\ weights[r] \in Nat /\ RankHolds(r)
  BY DEF PullInv, DirectInv, TrainerType
<1>2. UNCHANGED generatorVars
  BY DEF TrainerActs, OptimizerStep, RegisterMemory, Refresh, StoreHandles,
         StoreNumRanks, StoreFails
<1>3. RankSyncs(r)'
  BY OptimizerSyncs, RegisterSyncs, RefreshSyncs, StoreSyncs DEF TrainerActs
<1>4. putting[r].stage \in {"handles", "num_ranks"} => putting[r].key \in Policy
  BY <1>1 DEF RankHolds, PutsFirst
<1>5. \/ UNCHANGED synced
      \/ \E k \in Policy : synced' = [synced EXCEPT ![r][k] = weights[r]]
  BY <1>4 DEF TrainerActs, OptimizerStep, RegisterMemory, Refresh,
              StoreHandles, StoreNumRanks, StoreFails, PutReturns
<1>6. PullType'
  <2>1. synced' \in [Trainer -> [Policy -> Int]]
    BY <1>1, <1>5 DEF PullType
  <2> QED BY <1>1, <1>2, <2>1 DEF PullType, generatorVars
<1>7. \/ NobodyReads
      \/ weights' = weights /\ \A k \in Policy : InStep(k) => InStep(k)'
  <2>1. CASE OptimizerStep(r) \/ \E k \in Policy : Refresh(r, k)
    BY <2>1 DEF OptimizerStep, Refresh
  <2>2. CASE \/ \E k \in Policy : RegisterMemory(r, k)
             \/ StoreHandles(r) \/ StoreNumRanks(r) \/ StoreFails(r)
    <3>1. /\ weights' = weights
          /\ \/ UNCHANGED <<registered, synced>>
             \/ putting[r].key \in Policy /\ PutReturns(r, putting[r].key)
      BY <1>4, <2>2
         DEF RegisterMemory, StoreHandles, StoreNumRanks, StoreFails
    <3> QED BY <3>1, PutKeepsStep DEF TrainerActs
  <2> QED BY <2>1, <2>2 DEF TrainerActs
<1>8. ASSUME NEW g \in Generator PROVE Reading(g)'
  BY <1>2, <1>7, <1>8, ReadingGoesOn DEF PullInv
<1>9. ASSUME NEW q \in Trainer, q # r PROVE RankSyncs(q)'
  <2>1. /\ buffers'[q] = buffers[q] /\ weights'[q] = weights[q]
        /\ synced'[q] = synced[q]
    <3>1. synced'[q] = synced[q]
      BY <1>1, <1>5, <1>9 DEF PullType
    <3>2. weights'[q] = weights[q]
      BY <1>1, <1>9
         DEF TrainerActs, OptimizerStep, RegisterMemory, Refresh,
             StoreHandles, StoreNumRanks, StoreFails, TrainerType
    <3>3. buffers'[q] = buffers[q]
      <4>1. buffers' = buffers \/ \E f : buffers' = [buffers EXCEPT ![r] = f]
        BY DEF TrainerActs, OptimizerStep, RegisterMemory, Refresh,
               StoreHandles, StoreNumRanks, StoreFails
      <4> QED BY <1>1, <1>9, <4>1 DEF TrainerType
    <3> QED BY <3>1, <3>2, <3>3
  <2>4. /\ registered'[q] = registered[q] /\ putting'[q] = putting[q]
        /\ \A k \in Policy : published'[k][q] = published[k][q]
    <3>1. registered'[q] = registered[q]
      BY <1>1, <1>9
         DEF TrainerActs, OptimizerStep, RegisterMemory, Refresh,
             StoreHandles, StoreNumRanks, StoreFails, PutReturns, TrainerType
    <3>2. putting'[q] = putting[q]
      <4>1. putting' = putting \/ \E f : putting' = [putting EXCEPT ![r] = f]
        BY DEF TrainerActs, OptimizerStep, RegisterMemory, Refresh,
               StoreHandles, StoreNumRanks, StoreFails, PutReturns
      <4> QED BY <1>1, <1>9, <4>1 DEF TrainerType
    <3>3. \A k \in Policy : published'[k][q] = published[k][q]
      <4>1. \/ published' = published
            \/ \E j, n : published' = [published EXCEPT ![j][r] = n]
        <5>1. CASE StoreHandles(r)
          BY <5>1 DEF StoreHandles
        <5>2. CASE StoreFails(r)
          BY <5>2 DEF StoreFails, RepliesArrive
        <5> QED
          BY <5>1, <5>2 DEF TrainerActs, OptimizerStep, RegisterMemory,
                            Refresh, StoreNumRanks, tableVars
      <4>2. published \in [Policy -> [Trainer -> Nat]]
        BY <1>1 DEF TrainerType
      <4>3. CASE published' = published
        BY <4>3
      <4>4. ASSUME NEW j, NEW n, published' = [published EXCEPT ![j][r] = n]
            PROVE  \A k \in Policy : published'[k][q] = published[k][q]
        BY <1>9, <4>2, <4>4
      <4> QED BY <4>1, <4>3, <4>4
    <3> QED BY <3>1, <3>2, <3>3
  <2>2. RankSyncs(q) /\ registered[q] \subseteq Policy
    BY <1>1 DEF PullInv, TrainerType
  <2> QED BY <2>1, <2>2, <2>4 DEF RankSyncs, Allocated, Fresh
<1> QED BY <1>3, <1>6, <1>8, <1>9 DEF PullInv

(* The generators pull. *)
LEMMA OperationsOf ==
  ASSUME NEW k, NEW handles, NEW d, NEW op \in Operations(k, handles, d)
  PROVE  /\ op.key = k /\ op.into = d
         /\ op.rank \in Trainer /\ op.handle = handles[op.rank + 1]
         /\ op.name \in DOMAIN Into[d] /\ Overlaps(k, op.rank, d, op.name)
         /\ op.name \in DOMAIN Shard[k][op.rank]
<1>1. PICK x \in Trainer \X DOMAIN Into[d] :
        /\ Overlaps(k, x[1], d, x[2])
        /\ op = [rank |-> x[1], key |-> k, handle |-> handles[x[1] + 1],
                 name |-> x[2], into |-> d]
  BY DEF Operations
<1>2. x[1] \in Trainer /\ x[2] \in DOMAIN Into[d]
  OBVIOUS
<1>3. x[2] \in DOMAIN Shard[k][x[1]]
  BY <1>1 DEF Overlaps
<1> QED BY <1>1, <1>2, <1>3

LEMMA OperationIs ==
  ASSUME NEW k, NEW handles, NEW d, NEW r \in Trainer,
         NEW p \in DOMAIN Into[d], Overlaps(k, r, d, p), IsFirst(k, r, d, p)
  PROVE  \E op \in Operations(k, handles, d) :
           op.rank = r /\ op.name = p /\ op.key = k /\ op.into = d
<1> DEFINE Op(y) == [rank |-> y[1], key |-> k, handle |-> handles[y[1] + 1],
                     name |-> y[2], into |-> d]
<1>1. <<r, p>> \in { y \in Trainer \X DOMAIN Into[d] :
                       /\ Overlaps(k, y[1], d, y[2])
                       /\ IsFirst(k, y[1], d, y[2]) }
  OBVIOUS
<1>2. Op(<<r, p>>) \in Operations(k, handles, d)
  BY <1>1 DEF Operations
<1> QED BY <1>2

LEMMA PlannedOp ==
  ASSUME NEW g \in Generator, Reading(g), NEW op \in transfers[g].ops
  PROVE  LET k == getting[g].key
             d == getting[g].into
         IN  /\ op.key = k /\ op.into = d /\ op.rank \in Trainer
             /\ op.handle = known[g][k][op.rank + 1] /\ known[g][k] # <<>>
             /\ op.name \in DOMAIN Into[d] /\ op.name \in DOMAIN Shard[k][op.rank]
             /\ op \in Operations(k, known[g][k], d)
             /\ getting[g].stage \in {"reads", "raised", "returned"}
             /\ k \in Policy /\ d \in DOMAIN Into /\ <<k, d>> \in Uses[g]
<1> DEFINE k == getting[g].key
           d == getting[g].into
<1>1. /\ known[g][k] # <<>>
      /\ getting[g].stage \in {"reads", "raised", "returned"}
      /\ op \in Operations(k, known[g][k], d)
  BY DEF Reading, Plans, NoPlan, Made
<1>2. <<k, d>> \in Uses[g]
  BY <1>1 DEF Reading
<1>3. k \in Policy /\ d \in DOMAIN Into
  BY <1>2 DEF DirectAssumption
<1>4. /\ op.key = k /\ op.into = d /\ op.rank \in Trainer
      /\ op.handle = known[g][k][op.rank + 1]
      /\ op.name \in DOMAIN Into[d] /\ op.name \in DOMAIN Shard[k][op.rank]
  BY <1>1, OperationsOf
<1> QED BY <1>1, <1>2, <1>3, <1>4

(* A step of generator g *)
OwnStep(g) ==
  /\ UNCHANGED <<trainerVars, tableVars>>
  /\ \A h \in Generator \ {g} :
       /\ getting'[h] = getting[h] /\ known'[h] = known[h]
       /\ transfers'[h] = transfers[h] /\ reads'[h] = reads[h]
       /\ received'[h] = received[h]
  /\ \A d \in DOMAIN Into :
       target'[d] # target[d] => getting[g].stage # "idle" /\ d = getting[g].into

LEMMA OthersRead ==
  ASSUME PullInv, OwnParameters, NEW g \in Generator, OwnStep(g),
         NEW h \in Generator, h # g
  PROVE  Reading(h)'
<1> DEFINE d == getting[h].into
           k == getting[h].key
<1>1. Reading(h) /\ Reading(g)
  BY DEF PullInv
<1>2. /\ getting'[h] = getting[h] /\ known'[h] = known[h]
      /\ transfers'[h] = transfers[h] /\ reads'[h] = reads[h]
      /\ received'[h] = received[h]
      /\ weights' = weights /\ registered' = registered /\ synced' = synced
  BY DEF OwnStep, trainerVars
<1>3. ASSUME getting[h].stage # "idle" PROVE target'[d] = target[d]
  <2>1. <<k, d>> \in Uses[h]
    BY <1>1, <1>3 DEF Reading
  <2>2. d \in DOMAIN Into
    BY <2>1 DEF DirectAssumption
  <2>3. getting[g].stage # "idle" =>
          <<getting[g].key, getting[g].into>> \in Uses[g]
    BY <1>1 DEF Reading
  <2>4. getting[g].stage # "idle" => getting[g].into # d
    BY <2>1, <2>3 DEF OwnParameters
  <2> QED BY <2>2, <2>4 DEF OwnStep
<1> HIDE DEF d, k
<1>4. ASSUME NEW p, getting[h].stage # "idle", Filled(d, p)
      PROVE  \A j \in Index(Into[d][p].local_shape) :
               target'[d][p][j] = Place(d, p, j, weights'[0])
  BY <1>2, <1>3, <1>4 DEF Filled
<1>5. ASSUME NEW op \in transfers[h].ops, Landed(h, op)
      PROVE  Landed(h, op)'
  <2>1. op.into = d /\ getting[h].stage # "idle"
    BY <1>1, PlannedOp DEF d
  <2>2. IsExact(op) => Filled(d, op.name)
    BY <1>5, <2>1 DEF Landed
  <2>3. IsExact(op) => Filled(op.into, op.name)'
    BY <1>4, <2>1, <2>2 DEF Filled
  <2> QED BY <1>2, <1>5, <2>3 DEF Landed
<1>6. Plans(h)'
  BY <1>1, <1>2 DEF Reading, Plans
<1>7. \A read \in reads'[h] : IsRead(h, read)'
  BY <1>1, <1>2 DEF Reading, IsRead
<1>8. (Pulling(h) \/ reads[h] # {})' => InStep(getting[h].key)'
  BY <1>1, <1>2 DEF Reading, Pulling, InStep
<1>9. getting'[h].stage = "reads" =>
         \A op \in transfers'[h].ops : Served(h, op)'
  BY <1>1, <1>2, <1>5 DEF Reading, Served
<1>10. getting'[h].stage = "returned" /\ reads'[h] # {} =>
         \A p \in DOMAIN Into[getting'[h].into] \cap Names(getting'[h].key) :
           Filled(getting[h].into, p)'
  <2> SUFFICES ASSUME getting[h].stage = "returned", reads[h] # {},
                      NEW p \in DOMAIN Into[d] \cap Names(k)
               PROVE  Filled(getting[h].into, p)'
    BY <1>2 DEF d, k
  <2>1. Filled(d, p)
    BY <1>1 DEF Reading, d, k
  <2>2. \A j \in Index(Into[d][p].local_shape) :
          target'[d][p][j] = Place(d, p, j, weights'[0])
    BY <1>4, <2>1
  <2>3. getting'[h].into = d
    BY <1>2 DEF d
  <2> QED BY <2>2, <2>3 DEF Filled
<1>11. /\ getting'[h].stage # "idle" =>
            <<getting'[h].key, getting'[h].into>> \in Uses[h]
       /\ getting'[h].stage \in Fetching => known'[h][getting'[h].key] = <<>>
  BY <1>1, <1>2 DEF Reading
<1> QED BY <1>6, <1>7, <1>8, <1>9, <1>10, <1>11 DEF Reading

LEMMA OwnStepPulls ==
  ASSUME PullInv, DirectInv', OwnParameters, NEW g \in Generator, OwnStep(g),
         PullType', Reading(g)'
  PROVE  PullInv'
<1>1. ASSUME NEW h \in Generator PROVE Reading(h)'
  BY OthersRead
<1>2. ASSUME NEW r \in Trainer PROVE RankSyncs(r)'
  <2>1. RankSyncs(r)
    BY DEF PullInv
  <2> QED BY <2>1 DEF OwnStep, trainerVars, tableVars, RankSyncs, Allocated, Fresh
<1> QED BY <1>1, <1>2 DEF PullInv

(* While the ranks are in step, each memory of a plan has the weights that *)
(* they have put last.                                                     *)
LEMMA MemoryIsLatest ==
  ASSUME PullInv, NEW g \in Generator, NEW op \in transfers[g].ops,
         InStep(getting[g].key)
  PROVE  Memory(op) = weights[0]
<1> PICK k : k = getting[g].key
  OBVIOUS
<1> PICK r : r = op.rank
  OBVIOUS
<1>1. Reading(g)
  BY DEF PullInv
<1>2. /\ op.key = k /\ r \in Trainer /\ op.handle = known[g][k][r + 1]
      /\ known[g][k] # <<>> /\ op.name \in DOMAIN Shard[k][r]
      /\ k \in Policy
  BY <1>1, PlannedOp
<1>3. Holds(k, known[g][k]) /\ Len(known[g][k]) = WorldSize
  BY <1>2 DEF PullInv, DirectInv, GeneratorHolds
<1>4. r + 1 \in 1..WorldSize /\ (r + 1) - 1 = r /\ 0 \in Trainer
  BY <1>2, RanksAreTrainers
<1>5. /\ k \in counted /\ op.handle # 0 /\ op.handle = published[k][r]
  BY <1>2, <1>3, <1>4 DEF Holds
<1>6. Publishes(r) /\ RankSyncs(r)
  BY <1>2 DEF PullInv, DirectInv, RankHolds
<1>7. k \in registered[r]
  BY <1>2, <1>5, <1>6 DEF Publishes
<1>8. synced[r][k] = weights[r] /\ weights[r] = weights[0]
  BY <1>2, <1>4, <1>7 DEF InStep
<1>9. k \in Cast => buffers[r][op.handle][op.name] = weights[r]
  BY <1>2, <1>5, <1>6, <1>7, <1>8 DEF RankSyncs, Fresh
<1> QED BY <1>2, <1>8, <1>9 DEF Memory

LEMMA WeightsAreSteps == ASSUME PullInv PROVE weights[0] \in Nat /\ weights[0] # None
BY RanksAreTrainers DEF PullInv, DirectInv, TrainerType, None

(* A pull begins. *)
LEMMA PullBegins ==
  ASSUME PullInv, NEW g \in Generator, NEW k, NEW d, <<k, d>> \in Uses[g],
         NEW handles, handles # <<>>, Pull(g, k, handles, d),
         \/ transfers[g] = NoPlan /\ reads[g] = {}
         \/ transfers[g] = Made(Operations(k, handles, d)),
         UNCHANGED trainerVars, InStep(k),
         getting'[g].stage = "reads", getting'[g].key = k, getting'[g].into = d,
         known'[g][k] = handles
  PROVE  Reading(g)'
<1> DEFINE ops == Operations(k, handles, d)
           new == [op : ops, version : {None}, left : {FALSE}]
<1>1. Reading(g) /\ PullType
  BY DEF PullInv
<1>2. NoPlan # Made(ops) /\ Made(ops).ops = ops
  BY DEF NoPlan, Made
<1>3. transfers'[g] = Made(ops) /\ reads'[g] = reads[g] \cup new
  BY <1>1, <1>2 DEF Pull, Issue, PullType
<1>4. \A read \in new :
        /\ read = [op |-> read.op, version |-> read.version, left |-> read.left]
        /\ read.op \in ops /\ read.version = None /\ ~read.left
  <2> HIDE DEF ops
  <2> TAKE read \in new
  <2>1. read = [op |-> read.op, version |-> read.version, left |-> read.left]
    OBVIOUS
  <2>2. read.op \in ops /\ read.version = None
    OBVIOUS
  <2>3. read.left \in {FALSE}
    OBVIOUS
  <2>4. ~read.left
    BY <2>3, Zenon
  <2> QED BY <2>1, <2>2, <2>4
<1>5. \A op \in ops : [op |-> op, version |-> None, left |-> FALSE] \in new
  OBVIOUS
<1>6. weights' = weights
  BY DEF trainerVars
<1> HIDE DEF new
<1>7. ASSUME NEW read \in reads[g]
      PROVE  /\ read = [op |-> read.op, version |-> read.version,
                        left |-> read.left]
             /\ read.op \in ops /\ read.version \in {None, weights[0]}
  BY <1>1, <1>2, <1>7 DEF Reading, IsRead
<1> HIDE DEF ops
<1>8. ASSUME NEW read \in reads'[g] PROVE IsRead(g, read)'
  BY <1>2, <1>3, <1>4, <1>6, <1>7 DEF IsRead
<1>9. ASSUME NEW op \in transfers'[g].ops PROVE Served(g, op)'
  <2>1. [op |-> op, version |-> None, left |-> FALSE] \in reads'[g]
    BY <1>2, <1>3, <1>5
  <2> QED BY <2>1 DEF Served
<1>10. Plans(g)'
  BY <1>3 DEF Plans, ops
<1>11. InStep(getting[g].key)'
  BY DEF InStep, trainerVars
<1> QED BY <1>8, <1>9, <1>10, <1>11 DEF Reading, Fetching

LEMMA StartPullReads ==
  ASSUME PullInv, Orderly, OneUse, NEW g \in Generator, NEW k \in Policy,
         NEW d \in DOMAIN Into, StartPull(g, k, d)
  PROVE  Reading(g)'
<1>1. Reading(g) /\ DOMAIN getting = Generator
  BY DEF PullInv, DirectInv, GeneratorType
<1>2. /\ <<k, d>> \in Uses[g] /\ InStep(k)
      /\ \/ getting[g].stage = "idle"
         \/ getting[g].key = k /\ getting[g].into = d
      /\ UNCHANGED <<trainerVars, known>>
      /\ ~Pulling(g)
  BY DEF StartPull
<1>3. \/ transfers[g] = NoPlan /\ reads[g] = {}
      \/ /\ known[g][k] # <<>>
         /\ transfers[g] = Made(Operations(k, known[g][k], d))
  BY <1>1, <1>2 DEF Reading, Plans
<1>4. CASE /\ known[g][k] # <<>> /\ Pull(g, k, known[g][k], d)
           /\ getting' = [getting EXCEPT ![g] =
                [stage |-> "reads", key |-> k, into |-> d, found |-> <<>>]]
  <2>1. /\ getting'[g].stage = "reads" /\ getting'[g].key = k
        /\ getting'[g].into = d
    BY <1>1, <1>4
  <2> PICK handles : handles = known[g][k]
    OBVIOUS
  <2> QED BY <1>2, <1>3, <1>4, <2>1, PullBegins
<1>5. CASE /\ known[g][k] = <<>> /\ UNCHANGED <<transfers, reads>>
           /\ getting' = [getting EXCEPT ![g] =
                [stage |-> "num_ranks", key |-> k, into |-> d, found |-> <<>>]]
  <2>1. /\ getting'[g].stage = "num_ranks" /\ getting'[g].key = k
        /\ getting'[g].into = d
    BY <1>1, <1>5
  <2>2. transfers'[g] = NoPlan /\ reads'[g] = {}
    BY <1>3, <1>5
  <2>3. InStep(getting[g].key)'
    BY <1>2, <2>1 DEF InStep, trainerVars
  <2> QED BY <1>2, <1>5, <2>1, <2>2, <2>3 DEF Reading, Plans
<1> QED BY <1>4, <1>5 DEF StartPull

(* It ends with an error: the reads that are left are of the same plan. *)
LEMMA RaisesReads ==
  ASSUME PullInv, NEW g \in Generator, Raises(g),
         Pulling(g) \/ reads[g] # {},
         UNCHANGED <<trainerVars, known, transfers>>,
         \A read \in reads'[g] : IsRead(g, read),
         reads'[g] # {} => reads[g] # {}
  PROVE  Reading(g)'
<1>1. Reading(g) /\ DOMAIN getting = Generator
      /\ DOMAIN getting[g] = {"stage", "key", "into", "found"}
  BY DEF PullInv, DirectInv, GeneratorType
<1>2. /\ getting'[g].stage = "raised" /\ getting'[g].key = getting[g].key
      /\ getting'[g].into = getting[g].into
  BY <1>1 DEF Raises
<1>3. <<getting[g].key, getting[g].into>> \in Uses[g] /\ InStep(getting[g].key)
  BY <1>1 DEF Reading, Plans, Pulling, Fetching
<1>4. InStep(getting[g].key)'
  BY <1>2, <1>3 DEF InStep, trainerVars
<1>5. Plans(g)'
  BY <1>1, <1>2 DEF Reading, Plans
<1>6. \A read \in reads'[g] : IsRead(g, read)'
  BY DEF IsRead, trainerVars
<1> QED BY <1>2, <1>3, <1>4, <1>5, <1>6 DEF Reading, Fetching

(* No handles, no plan. *)
LEMMA FetchingPlansNothing ==
  ASSUME NEW g \in Generator, Reading(g), getting[g].stage \in Fetching
  PROVE  transfers[g] = NoPlan /\ reads[g] = {} /\ Pulling(g)
BY DEF Reading, Plans, Fetching, Pulling

LEMMA FetchReads ==
  ASSUME PullInv, NEW g \in Generator,
         FetchNumRanks(g) \/ FetchRank(g) \/ FetchFails(g)
  PROVE  Reading(g)'
<1> PICK k : k = getting[g].key
  OBVIOUS
<1> PICK d : d = getting[g].into
  OBVIOUS
<1>1. /\ Reading(g) /\ PullType /\ GeneratorType /\ GeneratorHolds(g)
      /\ DOMAIN getting[g] = {"stage", "key", "into", "found"}
  BY DEF PullInv, DirectInv, GeneratorType
<1>2. getting[g].stage \in Fetching /\ UNCHANGED trainerVars
  BY DEF FetchNumRanks, FetchRank, FetchFails, Fetching
<1>3. transfers[g] = NoPlan /\ reads[g] = {} /\ Pulling(g)
  BY <1>1, <1>2, FetchingPlansNothing
<1>4. <<k, d>> \in Uses[g] /\ known[g][k] = <<>> /\ InStep(k)
  BY <1>1, <1>2, <1>3 DEF Reading, Fetching
<1>5. CASE Raises(g) /\ UNCHANGED <<known, transfers, reads>>
  <2>1. \A read \in reads'[g] : IsRead(g, read)
    BY <1>3, <1>5
  <2> QED BY <1>2, <1>3, <1>5, <2>1, RaisesReads
<1>6. CASE /\ UNCHANGED <<known, transfers, reads>>
           /\ \/ getting' = [getting EXCEPT ![g].stage = "rank"]
              \/ \E f : getting' = [getting EXCEPT ![g].found = f]
  <2>1. /\ getting'[g].stage \in Fetching /\ getting'[g].key = k
        /\ getting'[g].into = d
    BY <1>1, <1>2, <1>6 DEF GeneratorType, Fetching
  <2>2. InStep(getting[g].key)'
    BY <1>2, <1>4, <2>1 DEF InStep, trainerVars
  <2> QED BY <1>3, <1>4, <1>6, <2>1, <2>2 DEF Reading, Plans, Fetching
<1>7. ASSUME NEW found, found # <<>>, known' = [known EXCEPT ![g][k] = found],
             Pull(g, k, found, d),
             getting' = [getting EXCEPT ![g].stage = "reads",
                                        ![g].found = <<>>]
      PROVE  Reading(g)'
  <2>1. /\ getting'[g].stage = "reads" /\ getting'[g].key = k
        /\ getting'[g].into = d
    BY <1>1, <1>7 DEF GeneratorType
  <2>2. k \in Policy
    BY <1>4 DEF DirectAssumption
  <2>3. known'[g][k] = found
    BY <1>1, <1>7, <2>2 DEF GeneratorType
  <2> QED BY <1>2, <1>3, <1>4, <1>7, <2>1, <2>3, PullBegins
<1>8. CASE FetchRank(g)
  <2> DEFINE found == Append(getting[g].found,
                             published[k][Len(getting[g].found)])
  <2>1. /\ getting[g].found \in Seq(Nat) /\ k \in Policy
        /\ Len(getting[g].found) < WorldSize /\ getting[g].stage = "rank"
    BY <1>1, <1>8 DEF GeneratorType, GeneratorHolds, FetchRank, Fetching
  <2>2. published[k][Len(getting[g].found)] \in Nat
    BY <2>1, RanksAreTrainers DEF PullInv, DirectInv, TrainerType
  <2>3. found # <<>>
    <3>1. Len(found) = Len(getting[g].found) + 1 /\ Len(getting[g].found) \in Nat
      BY <2>1, <2>2
    <3> HIDE DEF found
    <3> QED BY <3>1
  <2>4. \/ Raises(g) /\ UNCHANGED <<known, transfers, reads>>
        \/ /\ getting' = [getting EXCEPT ![g].found = found]
           /\ UNCHANGED <<known, transfers, reads>>
        \/ /\ known' = [known EXCEPT ![g][k] = found]
           /\ Pull(g, k, found, d)
           /\ getting' = [getting EXCEPT ![g].stage = "reads",
                                         ![g].found = <<>>]
    BY <1>8 DEF FetchRank
  <2> HIDE DEF found
  <2> QED BY <1>5, <1>6, <1>7, <2>3, <2>4
<1> QED BY <1>5, <1>6, <1>8 DEF FetchNumRanks, FetchFails

(* A read brings the element of its place, whether it needs a copy or not. *)
LEMMA ExactElement ==
  ASSUME NEW op, IsExact(op), NEW j, NEW v
  PROVE  Element(op, j, v) = Place(op.into, op.name, j, v)
BY DEF IsExact, Element, Place, Destination

LEMMA CopiedElement ==
  ASSUME NEW op, NEW v, NEW shape, Destination(op) \in SlicesOf(shape),
         ShardOf(op) \in SlicesOf(shape),
         NEW j \in Index(Destination(op).local_shape)
  PROVE  Element(op, From(op, j), v) = Place(op.into, op.name, j, v)
<1>1. /\ DOMAIN Destination(op).local_shape = DOMAIN shape
      /\ \A d \in DOMAIN shape : /\ Destination(op).offsets[d] \in Int
                                 /\ ShardOf(op).offsets[d] \in Int
  BY ExtentAssumption DEF SlicesOf
<1>2. DOMAIN j = DOMAIN shape /\ \A d \in DOMAIN shape : j[d] \in Int
  BY <1>1, ExtentAssumption DEF Index
<1>3. DOMAIN From(op, j) = DOMAIN j
  BY DEF From
<1>4. \A d \in DOMAIN j :
        ShardOf(op).offsets[d] + From(op, j)[d] = Destination(op).offsets[d] + j[d]
  BY <1>1, <1>2 DEF From
<1>5. [d \in DOMAIN From(op, j) |-> ShardOf(op).offsets[d] + From(op, j)[d]]
        = [d \in DOMAIN j |-> Destination(op).offsets[d] + j[d]]
  BY <1>3, <1>4
<1> QED BY <1>5 DEF Element, Place, Destination

(* Some operation brings each element of a parameter that the key has. *)
LEMMA SomeOperationBrings ==
  ASSUME ShardsCover, NEW g \in Generator, NEW k, NEW d, <<k, d>> \in Uses[g],
         NEW handles, NEW p \in DOMAIN Into[d] \cap Names(k),
         NEW j \in Index(Into[d][p].local_shape)
  PROVE  \E op \in Operations(k, handles, d) : op.name = p /\ InSlices(op, j)
<1> DEFINE dest  == Into[d][p]
           shape == dest.global_shape
           x     == [e \in DOMAIN shape |-> dest.offsets[e] + j[e]]
<1>1. /\ shape \in [DOMAIN shape -> 0..Extent] /\ dest \in SlicesOf(shape)
      /\ ShardsOf(k, p) \subseteq SlicesOf(shape)
      /\ Cells(dest) \subseteq UNION { Cells(s) : s \in ShardsOf(k, p) }
  <2>1. PICK u \in Uses[g] : u = <<k, d>>
    OBVIOUS
  <2>2. u[1] = k /\ u[2] = d
    BY <2>1
  <2> QED BY <2>2 DEF ShardsCover, Dims
<1> HIDE DEF dest
<1>2. /\ DOMAIN dest.local_shape = DOMAIN shape
      /\ \A e \in DOMAIN shape :
           /\ dest.offsets[e] \in Nat /\ dest.local_shape[e] \in Nat
           /\ End(dest, e) = dest.offsets[e] + dest.local_shape[e]
           /\ End(dest, e) <= shape[e] /\ shape[e] \in 0..Extent
  BY <1>1, ExtentAssumption DEF SlicesOf, End
<1>3. /\ DOMAIN j = DOMAIN shape
      /\ \A e \in DOMAIN shape : j[e] \in Nat /\ j[e] < dest.local_shape[e]
  BY <1>2, ExtentAssumption DEF Index, dest
<1>4. x \in Cells(dest)
  <2>1. \A e \in DOMAIN shape :
          /\ x[e] \in 0..(Extent - 1)
          /\ dest.offsets[e] <= x[e] /\ x[e] < End(dest, e)
    BY <1>2, <1>3, ExtentAssumption
  <2>2. x = [e \in DOMAIN shape |-> x[e]]
    OBVIOUS
  <2> HIDE DEF x
  <2> QED BY <2>1, <2>2 DEF Cells, Dims
<1>5. PICK r \in Trainer : p \in DOMAIN Shard[k][r] /\ x \in Cells(Shard[k][r][p])
  <2>1. PICK s \in ShardsOf(k, p) : x \in Cells(s)
    BY <1>1, <1>4
  <2> HIDE DEF x
  <2> QED BY <2>1 DEF ShardsOf
<1> DEFINE shard == Shard[k][r][p]
           piece == Piece(k, r, d, p)
<1>6. shard \in SlicesOf(shape) /\ x \in Cells(shard)
  BY <1>1, <1>5 DEF ShardsOf
<1>7. /\ shard.global_shape = shape
      /\ \A e \in DOMAIN shape :
           /\ shard.offsets[e] \in Nat /\ shard.local_shape[e] \in Nat
           /\ End(shard, e) = shard.offsets[e] + shard.local_shape[e]
           /\ shard.offsets[e] <= x[e] /\ x[e] < End(shard, e)
  BY <1>6, ExtentAssumption DEF SlicesOf, Cells, Dims, End
<1>8. /\ shard.global_shape = dest.global_shape /\ Dims(dest) = DOMAIN shape
      /\ Dims(shard) = DOMAIN shape
  BY <1>7 DEF Dims
<1>9. \A e \in DOMAIN shape :
        /\ x[e] = dest.offsets[e] + j[e] /\ x[e] \in Nat
        /\ SharedStart(shard, dest, e) <= x[e] /\ x[e] < SharedEnd(shard, dest, e)
        /\ SharedStart(shard, dest, e) \in Int /\ SharedEnd(shard, dest, e) \in Int
  <2> TAKE e \in DOMAIN shape
  <2>1. x[e] = dest.offsets[e] + j[e] /\ x[e] \in Nat
    BY <1>2, <1>3
  <2> HIDE DEF x, shard, shape
  <2> QED BY <1>2, <1>3, <1>7, <2>1 DEF SharedStart, SharedEnd, MaxOf, MinOf
<1>10. piece = Intersection(shard, dest)
  BY DEF Piece, dest
<1> HIDE DEF shard, x
<1>11. \A e \in DOMAIN shape :
         /\ piece.offsets[e] = SharedStart(shard, dest, e)
         /\ piece.local_shape[e] =
              SharedEnd(shard, dest, e) - SharedStart(shard, dest, e)
         /\ End(piece, e) = SharedEnd(shard, dest, e)
  BY <1>8, <1>9, <1>10 DEF Intersection, End
<1> HIDE DEF piece, shape
<1>12. Overlaps(k, r, d, p)
  <2>1. p \in DOMAIN Shard[k][r] \cap DOMAIN Into[d]
    BY <1>5
  <2>2. Intersects(shard, dest)
    <3>1. \A e \in DOMAIN shape :
            SharedStart(shard, dest, e) < SharedEnd(shard, dest, e)
      <4> TAKE e \in DOMAIN shape
      <4> QED BY <1>9
    <3> QED BY <1>8, <3>1 DEF Intersects
  <2>3. \A e \in DOMAIN shape : piece.local_shape[e] # 0
    <3> TAKE e \in DOMAIN shape
    <3> QED BY <1>9, <1>11
  <2> QED BY <1>8, <2>1, <2>2, <2>3 DEF Overlaps, shard, dest, piece
<1> DEFINE Same == { s \in Trainer : /\ Overlaps(k, s, d, p)
                                     /\ Piece(k, s, d, p) = piece }
<1>13. PICK s \in Same : \A q \in Same : s <= q
  <2>1. r \in Same
    BY <1>12 DEF piece
  <2>2. Same \in SUBSET Int /\ IsFiniteSet(Same)
    <3>1. Same \subseteq Trainer
      OBVIOUS
    <3>2. IsFiniteSet(Trainer) /\ Trainer \subseteq Int
      BY FS_Interval DEF Trainer
    <3> HIDE DEF Same
    <3> QED BY <3>1, <3>2, FS_Subset
  <2> HIDE DEF Same
  <2> QED BY <2>1, <2>2, SmallestNumber
<1>14. s \in Trainer /\ Overlaps(k, s, d, p) /\ Piece(k, s, d, p) = piece
  OBVIOUS
<1>15. IsFirst(k, s, d, p)
  <2> SUFFICES ASSUME NEW q \in 0..(s - 1), Overlaps(k, q, d, p),
                      Piece(k, q, d, p) = piece
               PROVE  FALSE
    BY <1>14 DEF IsFirst
  <2>1. s \in Nat /\ q \in Nat /\ q < s /\ q \in Trainer
    BY <1>14 DEF Trainer
  <2>2. q \in Same
    BY <2>1
  <2>3. s <= q
    BY <1>13, <2>2
  <2> QED BY <2>1, <2>3
<1>16. PICK op \in Operations(k, handles, d) :
         op.rank = s /\ op.name = p /\ op.key = k /\ op.into = d
  BY <1>14, <1>15, OperationIs
<1>17. InSlices(op, j)
  <2>1. /\ Piece(op.key, op.rank, op.into, op.name) = piece
        /\ Destination(op) = dest
    BY <1>14, <1>16 DEF Destination, dest
  <2>2. \A e \in DOMAIN j : /\ piece.offsets[e] - dest.offsets[e] <= j[e]
                            /\ j[e] < End(piece, e) - dest.offsets[e]
    <3> TAKE e \in DOMAIN j
    <3>1. e \in DOMAIN shape /\ j[e] \in Nat /\ dest.offsets[e] \in Nat
      BY <1>2, <1>3
    <3> QED BY <1>9, <1>11, <3>1
  <2> QED BY <2>1, <2>2 DEF InSlices
<1> QED BY <1>16, <1>17

LEMMA LeavesReads ==
  ASSUME PullInv, NEW g \in Generator, NEW read \in reads[g],
         ReadLeaves(g, read)
  PROVE  Reading(g)'
<1> DEFINE filled == [read EXCEPT !.version = Memory(read.op)]
<1>1. Reading(g) /\ DOMAIN reads = Generator /\ IsRead(g, read)
  BY DEF PullInv, PullType, Reading
<1>2. InStep(getting[g].key)
  BY <1>1 DEF Reading
<1>3. Memory(read.op) = weights[0]
  BY <1>1, <1>2, MemoryIsLatest DEF IsRead
<1>4. filled = [op |-> read.op, version |-> weights[0], left |-> read.left]
  <2>1. read = [op |-> read.op, version |-> read.version, left |-> read.left]
    BY <1>1 DEF IsRead
  <2> QED BY <1>3, <2>1
<1> HIDE DEF filled
<1>5. /\ reads'[g] = (reads[g] \ {read}) \cup {filled}
      /\ UNCHANGED <<trainerVars, getting, known, transfers, received, target>>
  BY <1>1 DEF ReadLeaves, filled
<1>6. weights' = weights /\ filled.op = read.op /\ filled.version = weights[0]
      /\ filled.left = read.left
  BY <1>4, <1>5 DEF trainerVars
<1>7. ASSUME NEW other \in reads'[g] PROVE IsRead(g, other)'
  <2>1. CASE other = filled
    BY <1>1, <1>4, <1>5, <1>6, <2>1 DEF IsRead
  <2>2. CASE other \in reads[g]
    BY <1>1, <1>5, <1>6, <2>2 DEF Reading, IsRead
  <2> QED BY <1>5, <2>1, <2>2
<1>8. ASSUME NEW op, Served(g, op) PROVE Served(g, op)'
  <2>1. Landed(g, op) => Landed(g, op)'
    BY <1>5, <1>6 DEF Landed, Filled
  <2>2. ASSUME NEW other \in reads[g], other.op = op, ~other.left
        PROVE  \E new \in reads'[g] : new.op = op /\ ~new.left
    <3>1. CASE other = read
      BY <1>5, <1>6, <2>2, <3>1
    <3>2. CASE other # read
      BY <1>5, <2>2, <3>2
    <3> QED BY <3>1, <3>2
  <2> QED BY <1>8, <2>1, <2>2 DEF Served
<1>9. InStep(getting[g].key)'
  BY <1>2, <1>5 DEF InStep, trainerVars
<1>10. Plans(g)'
  BY <1>1, <1>5 DEF Reading, Plans
<1>11. (getting[g].stage = "returned" /\ reads[g] # {} =>
          \A p \in DOMAIN Into[getting[g].into] \cap Names(getting[g].key) :
            Filled(getting[g].into, p))'
  BY <1>1, <1>5, <1>6 DEF Reading, Filled
<1>12. (getting[g].stage = "reads" =>
          \A op \in transfers[g].ops : Served(g, op))'
  BY <1>1, <1>5, <1>8 DEF Reading
<1>13. (/\ getting[g].stage # "idle" =>
             <<getting[g].key, getting[g].into>> \in Uses[g]
        /\ getting[g].stage \in Fetching => known[g][getting[g].key] = <<>>)'
  BY <1>1, <1>5 DEF Reading
<1> QED BY <1>7, <1>9, <1>10, <1>11, <1>12, <1>13 DEF Reading

(* What a read that lands writes into the destination. *)
LEMMA LandsRight ==
  ASSUME PullInv, NEW g \in Generator, NEW read \in reads[g],
         ReadLands(g, read)
  PROVE  LET op == read.op
         IN  /\ op \in transfers[g].ops /\ read.version = weights[0]
             /\ Landed(g, op)'
             /\ \A d, p : Filled(d, p) => Filled(d, p)'
             /\ \A o \in transfers[g].ops : Landed(g, o) => Landed(g, o)'
             /\ PullType'
             /\ \A d \in DOMAIN Into : target'[d] # target[d] => d = op.into
             /\ op.into \in DOMAIN Into /\ op.name \in DOMAIN Into[op.into]
<1> DEFINE op == read.op
<1>1. /\ Reading(g) /\ PullType /\ IsRead(g, read)
      /\ op \in transfers[g].ops /\ read.version = weights[0]
      /\ weights' = weights
  BY DEF PullInv, Reading, IsRead, ReadLands, trainerVars
<1>2. op.into \in DOMAIN Into /\ op.name \in DOMAIN Into[op.into]
  BY <1>1, PlannedOp
<1> HIDE DEF op
<1>3. CASE IsExact(op)
  <2>1. received' = received /\ target' = [target EXCEPT ![op.into][op.name] =
          [j \in DOMAIN @ |-> Element(op, j, read.version)]]
    BY <1>3 DEF ReadLands, op
  <2>2. target'[op.into][op.name] =
          [j \in Index(Into[op.into][op.name].local_shape) |->
             Element(op, j, weights[0])]
    <3>1. DOMAIN target[op.into][op.name] =
            Index(Into[op.into][op.name].local_shape)
      <4> DEFINE S == Index(Into[op.into][op.name].local_shape)
      <4>1. target[op.into][op.name] =
              [j \in S |-> target[op.into][op.name][j]]
        BY <1>1, <1>2 DEF PullType
      <4> HIDE DEF S
      <4> QED BY <4>1 DEF S
    <3>2. op.into \in DOMAIN target /\ op.name \in DOMAIN target[op.into]
      BY <1>1, <1>2 DEF PullType
    <3>3. target'[op.into][op.name] =
            [j \in DOMAIN target[op.into][op.name] |->
               Element(op, j, read.version)]
      BY <2>1, <3>2
    <3> QED BY <1>1, <3>1, <3>3
  <2>3. Filled(op.into, op.name)'
    BY <1>1, <1>3, <2>2, ExactElement DEF Filled
  <2>4. ASSUME NEW d, NEW p, <<d, p>> # <<op.into, op.name>>,
               d \in DOMAIN Into
        PROVE  target'[d][p] = target[d][p]
    BY <1>1, <1>2, <2>1, <2>4 DEF PullType
  <2>5. ASSUME NEW d, NEW p, Filled(d, p) PROVE Filled(d, p)'
    <3>1. CASE d = op.into /\ p = op.name
      BY <2>3, <3>1
    <3>2. CASE ~(d = op.into /\ p = op.name) /\ d \in DOMAIN Into
      BY <1>1, <2>4, <2>5, <3>2 DEF Filled
    <3>3. CASE d \notin DOMAIN Into
      <4>1. target'[d] = target[d]
        BY <1>1, <1>2, <2>1, <3>3 DEF PullType
      <4> QED BY <1>1, <2>5, <4>1 DEF Filled
    <3> QED BY <3>1, <3>2, <3>3
  <2>6. PullType'
    <3>1. /\ DOMAIN target' = DOMAIN Into
          /\ UNCHANGED <<synced, transfers>>
          /\ DOMAIN reads' = Generator /\ DOMAIN received' = Generator
      BY <1>1, <2>1 DEF PullType, ReadLands, trainerVars
    <3>2. ASSUME NEW d \in DOMAIN Into
          PROVE  target'[d] = [p \in DOMAIN Into[d] |-> target'[d][p]]
      <4>1. target[d] = [p \in DOMAIN Into[d] |-> target[d][p]]
        BY <1>1 DEF PullType
      <4>2. CASE d = op.into
        <5>1. target'[d] = [target[d] EXCEPT ![op.name] = target'[d][op.name]]
          BY <1>1, <1>2, <2>1, <4>2 DEF PullType
        <5> QED BY <4>1, <5>1
      <4>3. CASE d # op.into
        <5>1. target'[d] = target[d]
          BY <1>1, <2>1, <4>3 DEF PullType
        <5> QED BY <4>1, <5>1
      <4> QED BY <4>2, <4>3
    <3>3. ASSUME NEW d \in DOMAIN Into, NEW p \in DOMAIN Into[d]
          PROVE  target'[d][p] = [j \in Index(Into[d][p].local_shape) |->
                                    target'[d][p][j]]
      <4>1. CASE d = op.into /\ p = op.name
        BY <2>2, <4>1
      <4>2. CASE ~(d = op.into /\ p = op.name)
        <5>1. target'[d][p] = target[d][p]
          BY <2>4, <4>2
        <5> QED BY <1>1, <5>1 DEF PullType
      <4> QED BY <4>1, <4>2
    <3> QED BY <1>1, <3>1, <3>2, <3>3 DEF PullType
  <2>7. \A d \in DOMAIN Into : target'[d] # target[d] => d = op.into
    BY <1>1, <2>1 DEF PullType
  <2>8. \A o : Landed(g, o) => Landed(g, o)'
    BY <1>1, <2>1, <2>5 DEF Landed
  <2>9. Landed(g, op)'
    BY <1>3, <2>3 DEF Landed
  <2> QED BY <1>1, <1>2, <2>5, <2>6, <2>7, <2>8, <2>9 DEF op
<1>4. CASE ~IsExact(op)
  <2>1. target' = target /\ received' = [received EXCEPT ![g] =
          [o \in {op} \cup DOMAIN @ |->
             IF o = op THEN read.version ELSE @[o]]]
    BY <1>4 DEF ReadLands, op
  <2>2. received'[g] = [o \in {op} \cup DOMAIN received[g] |->
          IF o = op THEN weights[0] ELSE received[g][o]]
    BY <1>1, <2>1 DEF PullType
  <2>3. \A d, p : Filled(d, p) => Filled(d, p)'
    BY <1>1, <2>1 DEF Filled
  <2>4. \A o : Landed(g, o) => Landed(g, o)'
    BY <1>1, <2>1, <2>2, <2>3 DEF Landed
  <2>5. Landed(g, op)'
    BY <1>1, <1>4, <2>2 DEF Landed
  <2>6. PullType'
    BY <1>1, <2>1 DEF PullType, ReadLands, trainerVars
  <2> QED BY <1>1, <1>2, <2>1, <2>3, <2>4, <2>5, <2>6 DEF op
<1> QED BY <1>3, <1>4

LEMMA LandsReads ==
  ASSUME PullInv, NEW g \in Generator, NEW read \in reads[g],
         ReadLands(g, read)
  PROVE  Reading(g)'
<1>1. Reading(g) /\ DOMAIN reads = Generator
  BY DEF PullInv, PullType
<1>2. /\ reads'[g] = reads[g] \ {read}
      /\ UNCHANGED <<trainerVars, getting, known, transfers>>
  BY <1>1 DEF ReadLands
<1>3. /\ read.op \in transfers[g].ops /\ Landed(g, read.op)'
      /\ \A d, p : Filled(d, p) => Filled(d, p)'
      /\ \A o \in transfers[g].ops : Landed(g, o) => Landed(g, o)'
  BY LandsRight
<1>4. ASSUME NEW op \in transfers[g].ops, Served(g, op) PROVE Served(g, op)'
  <2>1. CASE Landed(g, op)
    BY <1>3, <2>1 DEF Served
  <2>2. ASSUME NEW other \in reads[g], other.op = op, ~other.left
        PROVE  Served(g, op)'
    <3>1. CASE other = read
      BY <1>3, <2>2, <3>1 DEF Served
    <3>2. CASE other # read
      BY <1>2, <2>2, <3>2 DEF Served
    <3> QED BY <3>1, <3>2
  <2> QED BY <1>4, <2>1, <2>2 DEF Served
<1>5. Plans(g)'
  BY <1>1, <1>2 DEF Reading, Plans
<1>6. \A other \in reads'[g] : IsRead(g, other)'
  BY <1>1, <1>2 DEF Reading, IsRead, trainerVars
<1>7. InStep(getting[g].key)'
  BY <1>1, <1>2 DEF Reading, InStep, trainerVars
<1>8. (getting[g].stage = "returned" /\ reads[g] # {} =>
         \A p \in DOMAIN Into[getting[g].into] \cap Names(getting[g].key) :
           Filled(getting[g].into, p))'
  <2> PICK d : d = getting[g].into
    OBVIOUS
  <2> SUFFICES ASSUME getting[g].stage = "returned",
                      NEW p \in DOMAIN Into[d] \cap Names(getting[g].key)
               PROVE  Filled(d, p)'
    BY <1>2
  <2>1. Filled(d, p)
    BY <1>1 DEF Reading
  <2> QED BY <1>3, <2>1
<1>9. (getting[g].stage = "reads" =>
         \A op \in transfers[g].ops : Served(g, op))'
  BY <1>1, <1>2, <1>4 DEF Reading
<1>10. (/\ getting[g].stage # "idle" =>
             <<getting[g].key, getting[g].into>> \in Uses[g]
        /\ getting[g].stage \in Fetching => known[g][getting[g].key] = <<>>)'
  BY <1>1, <1>2 DEF Reading
<1> QED BY <1>5, <1>6, <1>7, <1>8, <1>9, <1>10 DEF Reading

LEMMA FailsReads ==
  ASSUME PullInv, NEW g \in Generator, NEW read \in reads[g],
         ReadFails(g, read)
  PROVE  Reading(g)'
<1>1. Reading(g) /\ DOMAIN reads = Generator
  BY DEF PullInv, PullType
<1>2. UNCHANGED <<trainerVars, known, transfers, received, target>>
  BY DEF ReadFails
<1>3. CASE ~read.left
  <2>1. /\ Raises(g)
        /\ reads'[g] = { [other EXCEPT !.left = TRUE] :
                           other \in reads[g] \ {read} }
    BY <1>1, <1>3 DEF ReadFails
  <2>2. ASSUME NEW failed \in reads'[g] PROVE IsRead(g, failed)
    <3>1. PICK other \in reads[g] : failed = [other EXCEPT !.left = TRUE]
      BY <2>1
    <3>2. IsRead(g, other)
      BY <1>1 DEF Reading
    <3>3. failed = [op |-> other.op, version |-> other.version, left |-> TRUE]
      BY <3>1, <3>2 DEF IsRead
    <3> QED BY <3>2, <3>3 DEF IsRead
  <2> QED BY <1>2, <2>1, <2>2, RaisesReads
<1>4. CASE read.left
  <2>1. reads'[g] = reads[g] \ {read} /\ getting' = getting
    BY <1>1, <1>4 DEF ReadFails
  <2>2. weights' = weights
    BY <1>2 DEF trainerVars
  <2>3. \A op : Served(g, op) => Served(g, op)'
    <3>1. \A op : Landed(g, op) => Landed(g, op)'
      BY <1>2, <2>2 DEF Landed, Filled
    <3>2. \A other \in reads[g] : ~other.left => other \in reads'[g]
      BY <1>4, <2>1
    <3> QED BY <3>1, <3>2 DEF Served
  <2>4. Plans(g)'
    BY <1>1, <1>2, <2>1 DEF Reading, Plans
  <2>5. \A other \in reads'[g] : IsRead(g, other)'
    BY <1>1, <1>2, <2>1, <2>2 DEF Reading, IsRead
  <2>6. InStep(getting[g].key)'
    BY <1>1, <1>2, <2>1 DEF Reading, InStep, trainerVars
  <2>7. (getting[g].stage = "returned" /\ reads[g] # {} =>
           \A p \in DOMAIN Into[getting[g].into] \cap Names(getting[g].key) :
             Filled(getting[g].into, p))'
    BY <1>1, <1>2, <2>1, <2>2 DEF Reading, Filled
  <2>8. (getting[g].stage = "reads" =>
           \A op \in transfers[g].ops : Served(g, op))'
    BY <1>1, <1>2, <2>1, <2>3 DEF Reading
  <2>9. (/\ getting[g].stage # "idle" =>
              <<getting[g].key, getting[g].into>> \in Uses[g]
         /\ getting[g].stage \in Fetching => known[g][getting[g].key] = <<>>)'
    BY <1>1, <1>2, <2>1 DEF Reading
  <2> QED BY <2>4, <2>5, <2>6, <2>7, <2>8, <2>9 DEF Reading
<1> QED BY <1>3, <1>4

(* The copies that follow the last read write the rest of the destination. *)
LEMMA CopyFills ==
  ASSUME PullInv, ShardsCover, NEW g \in Generator, Copy(g),
         NEW d, d = getting[g].into,
         NEW p \in DOMAIN Into[d] \cap Names(getting[g].key),
         NEW j \in Index(Into[d][p].local_shape)
  PROVE  target'[d][p][j] = Place(d, p, j, weights[0])
<1> PICK k : k = getting[g].key
  OBVIOUS
<1> DEFINE copied == { op \in transfers[g].ops : ~IsExact(op) }
           Taken == { op \in copied \cap DOMAIN received[g] :
                        op.into = d /\ op.name = p /\ InSlices(op, j) }
           chosen == CHOOSE op \in Taken : TRUE
<1>1. Reading(g) /\ PullType /\ getting[g].stage = "reads"
  BY DEF PullInv, Copy
<1>2. /\ <<k, d>> \in Uses[g] /\ k \in Policy /\ d \in DOMAIN Into
      /\ known[g][k] # <<>>
      /\ transfers[g].ops = Operations(k, known[g][k], d)
  <2>1. <<k, d>> \in Uses[g]
    BY <1>1 DEF Reading
  <2>2. k \in Policy /\ d \in DOMAIN Into
    BY <2>1 DEF DirectAssumption
  <2> QED BY <1>1, <2>1, <2>2 DEF Reading, Plans, Made
<1>3. \A op \in transfers[g].ops : Landed(g, op)
  BY <1>1 DEF Reading, Served, Copy
<1>4. DOMAIN target[d][p] = Index(Into[d][p].local_shape)
  <2> DEFINE S == Index(Into[d][p].local_shape)
  <2>1. target[d][p] = [i \in S |-> target[d][p][i]]
    BY <1>1, <1>2 DEF PullType
  <2> HIDE DEF S
  <2> QED BY <2>1 DEF S
<1>5. target'[d][p][j] =
        IF Taken = {} THEN target[d][p][j]
        ELSE Element(chosen, From(chosen, j), received[g][chosen])
  BY <1>2, <1>4 DEF Copy, Returns, CopyOut
<1>6. CASE Taken # {}
  <2>1. chosen \in Taken
    BY <1>6
  <2> HIDE DEF chosen
  <2>2. PICK op : op = chosen
    OBVIOUS
  <2>3. /\ op \in transfers[g].ops /\ ~IsExact(op) /\ op.into = d /\ op.name = p
    BY <2>1, <2>2
  <2>4. received[g][op] = weights[0]
    BY <1>3, <2>3 DEF Landed
  <2>5. op.key = k /\ op.rank \in Trainer /\ op.name \in DOMAIN Shard[k][op.rank]
    BY <1>2, <2>3, OperationsOf
  <2> DEFINE shape == Into[d][p].global_shape
  <2>6. Destination(op) \in SlicesOf(shape) /\ ShardOf(op) \in SlicesOf(shape)
    <3>1. PICK u \in Uses[g] : u = <<k, d>>
      BY <1>2
    <3>2. u[1] = k /\ u[2] = d
      BY <3>1
    <3>3. Into[d][p] \in SlicesOf(shape) /\ ShardsOf(k, p) \subseteq SlicesOf(shape)
      BY <3>2 DEF ShardsCover
    <3>4. Shard[k][op.rank][p] \in ShardsOf(k, p)
      BY <2>3, <2>5 DEF ShardsOf
    <3> QED BY <2>3, <2>5, <3>3, <3>4 DEF Destination, ShardOf
  <2>7. j \in Index(Destination(op).local_shape)
    BY <2>3 DEF Destination
  <2> HIDE DEF shape
  <2>8. Element(op, From(op, j), weights[0]) = Place(d, p, j, weights[0])
    BY <2>3, <2>6, <2>7, CopiedElement
  <2> QED BY <1>5, <1>6, <2>2, <2>4, <2>8
<1>7. CASE Taken = {}
  <2>1. PICK op \in transfers[g].ops : op.name = p /\ InSlices(op, j)
    <3>1. p \in DOMAIN Into[d] \cap Names(k)
      OBVIOUS
    <3>2. <<k, d>> \in Uses[g] /\ j \in Index(Into[d][p].local_shape)
      BY <1>2
    <3> HIDE DEF Taken, copied, chosen
    <3>3. \A h : \E op \in Operations(k, h, d) : op.name = p /\ InSlices(op, j)
      BY ShardsCover, <3>1, <3>2, SomeOperationBrings, SMTT(30)
    <3> QED BY <1>2, <3>3
  <2>2. op.into = d
    BY <1>2, OperationsOf
  <2>3. IsExact(op)
    <3> SUFFICES ASSUME ~IsExact(op) PROVE FALSE
      OBVIOUS
    <3>1. op \in DOMAIN received[g]
      BY <1>3 DEF Landed
    <3>2. op \in Taken
      BY <2>1, <2>2, <3>1
    <3> QED BY <1>7, <3>2
  <2>4. Filled(d, p)
    BY <1>3, <2>1, <2>2, <2>3 DEF Landed
  <2> QED BY <1>5, <1>7, <2>4 DEF Filled
<1> QED BY <1>6, <1>7

LEMMA CopyReads ==
  ASSUME PullInv, ShardsCover, NEW g \in Generator, Copy(g)
  PROVE  Reading(g)'
<1> PICK d : d = getting[g].into
  OBVIOUS
<1> PICK k : k = getting[g].key
  OBVIOUS
<1>1. /\ Reading(g) /\ DOMAIN getting = Generator
      /\ DOMAIN getting[g] = {"stage", "key", "into", "found"}
  BY DEF PullInv, DirectInv, GeneratorType
<1>2. /\ getting[g].stage = "reads" /\ getting'[g].stage = "returned"
      /\ getting'[g].key = k /\ getting'[g].into = d
      /\ UNCHANGED <<trainerVars, known, transfers, reads>>
  BY <1>1 DEF Copy, Returns
<1>3. \A p \in DOMAIN Into[d] \cap Names(k) : Filled(d, p)'
  BY <1>2, CopyFills DEF Filled, trainerVars
<1>4. Plans(g)'
  BY <1>1, <1>2 DEF Reading, Plans
<1>5. \A read \in reads'[g] : IsRead(g, read)'
  BY <1>1, <1>2 DEF Reading, IsRead, trainerVars
<1>6. InStep(getting[g].key)'
  BY <1>1, <1>2 DEF Reading, Pulling, InStep, trainerVars
<1>7. (getting[g].stage = "returned" /\ reads[g] # {} =>
         \A p \in DOMAIN Into[getting[g].into] \cap Names(getting[g].key) :
           Filled(getting[g].into, p))'
  <2> SUFFICES ASSUME NEW p \in DOMAIN Into[d] \cap Names(k)
               PROVE  Filled(getting[g].into, p)'
    BY <1>2
  <2> QED BY <1>2, <1>3 DEF Filled
<1>8. <<k, d>> \in Uses[g]
  BY <1>1, <1>2 DEF Reading
<1> QED BY <1>2, <1>4, <1>5, <1>6, <1>7, <1>8 DEF Reading, Fetching

GeneratorActs(g) ==
  \/ \E k \in Policy, d \in DOMAIN Into : StartPull(g, k, d)
  \/ FetchNumRanks(g) \/ FetchRank(g) \/ FetchFails(g)
  \/ \E read \in reads[g] :
       ReadLeaves(g, read) \/ ReadLands(g, read) \/ ReadFails(g, read)
  \/ Copy(g)

LEMMA CopyStep ==
  ASSUME PullInv, NEW g \in Generator, Copy(g)
  PROVE  /\ PullType'
         /\ \A d \in DOMAIN Into :
              target'[d] # target[d] => d = getting[g].into
<1> DEFINE copied == { op \in transfers[g].ops : ~IsExact(op) }
           Taken(d, p, j) == { op \in copied \cap DOMAIN received[g] :
                                 op.into = d /\ op.name = p /\ InSlices(op, j) }
           chosen(d, p, j) == CHOOSE op \in Taken(d, p, j) : TRUE
           new(d, p, j) ==
             IF Taken(d, p, j) = {} THEN target[d][p][j]
             ELSE Element(chosen(d, p, j), From(chosen(d, p, j), j),
                          received[g][chosen(d, p, j)])
<1>1. PullType /\ Reading(g)
  BY DEF PullInv
<1>2. target' = [d \in DOMAIN Into |-> [p \in DOMAIN Into[d] |->
                  [j \in DOMAIN target[d][p] |-> new(d, p, j)]]]
  BY DEF Copy, Returns, CopyOut
<1>3. \A d, p, j : d # getting[g].into => Taken(d, p, j) = {}
  BY <1>1, PlannedOp
<1>4. \A d, p, j : d # getting[g].into => new(d, p, j) = target[d][p][j]
  BY <1>3
<1> HIDE DEF new
<1>5. ASSUME NEW d \in DOMAIN Into, NEW p \in DOMAIN Into[d]
      PROVE  /\ target[d][p] = [j \in DOMAIN target[d][p] |-> target[d][p][j]]
             /\ DOMAIN target[d][p] = Index(Into[d][p].local_shape)
  <2> DEFINE S == Index(Into[d][p].local_shape)
  <2>1. target[d][p] = [j \in S |-> target[d][p][j]]
    BY <1>1 DEF PullType
  <2> HIDE DEF S
  <2>2. DOMAIN target[d][p] = S
    BY <2>1
  <2> QED BY <2>1, <2>2 DEF S
<1>6. ASSUME NEW d \in DOMAIN Into, d # getting[g].into
      PROVE  target'[d] = target[d]
  <2>1. target'[d] = [p \in DOMAIN Into[d] |->
                        [j \in DOMAIN target[d][p] |-> new(d, p, j)]]
    BY <1>2
  <2>2. \A p \in DOMAIN Into[d] :
          [j \in DOMAIN target[d][p] |-> new(d, p, j)] = target[d][p]
    BY <1>4, <1>5, <1>6
  <2>3. target[d] = [p \in DOMAIN Into[d] |-> target[d][p]]
    BY <1>1 DEF PullType
  <2> QED BY <2>1, <2>2, <2>3
<1>7. ASSUME NEW d \in DOMAIN Into
      PROVE  target'[d] = [p \in DOMAIN Into[d] |-> target'[d][p]]
  BY <1>2
<1>8. ASSUME NEW d \in DOMAIN Into, NEW p \in DOMAIN Into[d]
      PROVE  target'[d][p] = [j \in Index(Into[d][p].local_shape) |->
                                target'[d][p][j]]
  <2>1. target'[d][p] = [j \in DOMAIN target[d][p] |-> new(d, p, j)]
    BY <1>2
  <2>2. target'[d][p] = [j \in DOMAIN target[d][p] |-> target'[d][p][j]]
    BY <2>1
  <2> QED BY <1>5, <2>2
<1>9. /\ DOMAIN target' = DOMAIN Into
      /\ UNCHANGED <<synced, transfers, reads, received>>
  BY <1>2 DEF Copy, Returns, trainerVars
<1> QED BY <1>1, <1>6, <1>7, <1>8, <1>9 DEF PullType

LEMMA GeneratorPulls ==
  ASSUME PullInv, DirectInv', Orderly, OneUse, OwnParameters, ShardsCover,
         NEW g \in Generator, GeneratorActs(g)
  PROVE  PullInv'
<1>1. Reading(g)'
  BY StartPullReads, FetchReads, LeavesReads, LandsReads, FailsReads, CopyReads
     DEF GeneratorActs
<1>2. PullType /\ Reading(g) /\ GeneratorType
  BY DEF PullInv, DirectInv
<1>3. CASE \E read \in reads[g] : ReadLands(g, read)
  <2>1. PICK read \in reads[g] : ReadLands(g, read)
    BY <1>3
  <2>2. /\ PullType' /\ read.op \in transfers[g].ops
        /\ \A d \in DOMAIN Into : target'[d] # target[d] => d = read.op.into
    BY <2>1, LandsRight
  <2>3. read.op.into = getting[g].into /\ getting[g].stage # "idle"
    BY <1>2, <2>2, PlannedOp
  <2>4. /\ UNCHANGED <<trainerVars, tableVars, getting, known, transfers>>
        /\ \A h \in Generator \ {g} :
             reads'[h] = reads[h] /\ received'[h] = received[h]
    BY <1>2, <2>1 DEF ReadLands, PullType
  <2> QED BY <1>1, <2>2, <2>3, <2>4, OwnStepPulls DEF OwnStep
<1>4. CASE Copy(g)
  <2>1. /\ PullType'
        /\ \A d \in DOMAIN Into :
             target'[d] # target[d] => d = getting[g].into
    BY <1>4, CopyStep
  <2>2. /\ UNCHANGED <<trainerVars, tableVars, known, transfers, reads,
                      received>>
        /\ \A h \in Generator \ {g} : getting'[h] = getting[h]
        /\ getting[g].stage # "idle"
    BY <1>2, <1>4 DEF Copy, Returns, GeneratorType
  <2> QED BY <1>1, <2>1, <2>2, OwnStepPulls DEF OwnStep
<1>5. CASE \/ \E k \in Policy, d \in DOMAIN Into : StartPull(g, k, d)
           \/ FetchNumRanks(g) \/ FetchRank(g) \/ FetchFails(g)
           \/ \E read \in reads[g] : ReadLeaves(g, read) \/ ReadFails(g, read)
  <2>1. /\ UNCHANGED <<trainerVars, tableVars, received, target>>
    BY <1>5 DEF StartPull, FetchNumRanks, FetchRank, FetchFails, ReadLeaves,
                ReadFails
  <2>2. /\ \/ getting' = getting
           \/ \E s : getting' = [getting EXCEPT ![g] = s]
        /\ known' = known \/ \E s : known' = [known EXCEPT ![g] = s]
        /\ transfers' = transfers \/ \E s : transfers' = [transfers EXCEPT ![g] = s]
        /\ reads' = reads \/ \E s : reads' = [reads EXCEPT ![g] = s]
    <3>1. \/ getting' = getting
          \/ \E s : getting' = [getting EXCEPT ![g] = s]
      BY <1>5 DEF StartPull, FetchNumRanks, FetchRank, FetchFails, Raises,
                  ReadLeaves, ReadFails
    <3>2. known' = known \/ \E s : known' = [known EXCEPT ![g] = s]
      BY <1>5 DEF StartPull, FetchNumRanks, FetchRank, FetchFails, ReadLeaves,
                  ReadFails
    <3>3. transfers' = transfers \/ \E s : transfers' = [transfers EXCEPT ![g] = s]
      BY <1>5 DEF StartPull, FetchNumRanks, FetchRank, FetchFails, ReadLeaves,
                  ReadFails, Pull
    <3>4. reads' = reads \/ \E s : reads' = [reads EXCEPT ![g] = s]
      BY <1>5 DEF StartPull, FetchNumRanks, FetchRank, FetchFails, ReadLeaves,
                  ReadFails, Pull, Issue
    <3> QED BY <3>1, <3>2, <3>3, <3>4
  <2>3. PullType'
    BY <1>2, <2>1, <2>2 DEF PullType, trainerVars
  <2>4. \A h \in Generator \ {g} :
          /\ getting'[h] = getting[h] /\ known'[h] = known[h]
          /\ transfers'[h] = transfers[h] /\ reads'[h] = reads[h]
    BY <1>2, <2>2 DEF PullType, GeneratorType
  <2> QED BY <1>1, <2>1, <2>3, <2>4, OwnStepPulls DEF OwnStep
<1> QED BY <1>3, <1>4, <1>5 DEF GeneratorActs

(* How the program is to be used: trainer and generators take turns, a     *)
(* generator pulls one key into one destination of its own, and the shards *)
(* make up the tensor.                                                     *)
UsedAsMeant ==
  /\ Orderly /\ OneUse
  /\ NamesApart /\ RepliesArrive
  /\ OwnParameters /\ ShardsCover

LEMMA PullNext ==
  ASSUME UsedAsMeant, PullInv, [DirectNext]_directVars
  PROVE  PullInv'
<1>1. CASE DirectNext
  <2>1. DirectInv'
    BY <1>1, DirectNextKeeps DEF PullInv, UsedAsMeant
  <2>2. \/ \E r \in Trainer : TrainerActs(r)
        \/ \E g \in Generator : GeneratorActs(g)
    BY <1>1 DEF DirectNext, TrainerActs, GeneratorActs
  <2> QED BY <2>1, <2>2, TrainerPulls, GeneratorPulls DEF UsedAsMeant
<1>2. CASE UNCHANGED directVars
  <2>1. DirectInv'
    BY <1>2, DirectStutters DEF PullInv
  <2>2. PullType' /\ \A g \in Generator : Reading(g)'
    <3>1. UNCHANGED generatorVars /\ UNCHANGED trainerVars
      BY <1>2 DEF directVars
    <3>2. \A k \in Policy : InStep(k) => InStep(k)'
      BY <3>1 DEF InStep, trainerVars
    <3>3. weights' = weights
      BY <3>1 DEF trainerVars
    <3>4. \A g \in Generator : Reading(g)'
      BY <3>1, <3>2, <3>3, ReadingGoesOn DEF PullInv
    <3>5. PullType'
      BY <3>1 DEF PullInv, PullType, trainerVars, generatorVars
    <3> QED BY <3>4, <3>5
  <2>3. ASSUME NEW r \in Trainer PROVE RankSyncs(r)'
    BY <1>2 DEF PullInv, RankSyncs, Allocated, Fresh, directVars, trainerVars,
                tableVars
  <2> QED BY <2>1, <2>2, <2>3 DEF PullInv
<1> QED BY <1>1, <1>2

(* Only a generator's own copies make its pull return. *)
LEMMA CopyReturns ==
  ASSUME PullInv, DirectNext, NEW g \in Generator,
         getting[g].stage = "reads", getting'[g].stage = "returned"
  PROVE  Copy(g)
<1>1. /\ DOMAIN getting = Generator
      /\ DOMAIN getting[g] = {"stage", "key", "into", "found"}
  BY DEF PullInv, DirectInv, GeneratorType
<1>2. getting' # getting
  OBVIOUS
<1>3. ~ \E r \in Trainer : TrainerActs(r)
  BY <1>2 DEF TrainerActs, OptimizerStep, RegisterMemory, Refresh,
              StoreHandles, StoreNumRanks, StoreFails, generatorVars
<1>4. PICK h \in Generator : GeneratorActs(h)
  BY <1>3 DEF DirectNext, TrainerActs, GeneratorActs
<1>5. h = g
  <2> SUFFICES ASSUME h # g PROVE getting'[g] = getting[g]
    OBVIOUS
  <2>1. getting' = getting \/ \E s : getting' = [getting EXCEPT ![h] = s]
    BY <1>4 DEF GeneratorActs, StartPull, FetchNumRanks, FetchRank,
                FetchFails, Raises, ReadLeaves, ReadLands, ReadFails, Copy,
                Returns
  <2> QED BY <1>1, <2>1
<1>6. ASSUME Raises(g) PROVE getting'[g].stage = "raised"
  BY <1>1, <1>6 DEF Raises
<1>7. ~ \E k \in Policy, d \in DOMAIN Into : StartPull(g, k, d)
  BY DEF StartPull, Pulling
<1>8. ~(FetchNumRanks(g) \/ FetchRank(g) \/ FetchFails(g))
  BY DEF FetchNumRanks, FetchRank, FetchFails, Fetching
<1>9. ~ \E read \in reads[g] :
          ReadLeaves(g, read) \/ ReadLands(g, read) \/ ReadFails(g, read)
  BY <1>6 DEF ReadLeaves, ReadLands, ReadFails
<1> QED BY <1>4, <1>5, <1>7, <1>8, <1>9 DEF GeneratorActs

(***************************************************************************)
(* A pull that returns has filled each parameter of its state dict that    *)
(* the key has, every element in its place and of the weights that all     *)
(* ranks have put last: for any shards, destinations, replicas and reads   *)
(* that fail or come late, if the program is used as it is meant to be.    *)
(***************************************************************************)
THEOREM PullsBringLatest ==
  ASSUME UsedAsMeant
  PROVE  SyncSpec => PulledIsLatest
<1> DEFINE Latest == \A g \in Generator :
      getting[g].stage = "reads" /\ getting'[g].stage = "returned" =>
        LET k == getting[g].key
            d == getting[g].into
        IN  \A p \in DOMAIN Into[d] \cap Names(k) :
              \A j \in Index(Into[d][p].local_shape) :
                target'[d][p][j] =
                  <<[x \in DOMAIN j |-> Into[d][p].offsets[x] + j[x]],
                    weights[0]>>
<1>1. PullInv /\ [DirectNext]_directVars => [Latest]_directVars
  <2> SUFFICES ASSUME PullInv, DirectNext PROVE Latest
    OBVIOUS
  <2> TAKE g \in Generator
  <2> HAVE getting[g].stage = "reads" /\ getting'[g].stage = "returned"
  <2> PICK k : k = getting[g].key
    OBVIOUS
  <2> PICK d : d = getting[g].into
    OBVIOUS
  <2>1. Copy(g)
    BY CopyReturns
  <2>2. \A p \in DOMAIN Into[d] \cap Names(k) :
          \A j \in Index(Into[d][p].local_shape) :
            target'[d][p][j] = Place(d, p, j, weights[0])
    BY <2>1, CopyFills DEF UsedAsMeant
  <2> QED BY <2>2 DEF Place
<1>2. DirectInit => PullInv
  BY PullInitially
<1>3. PullInv /\ [DirectNext]_directVars => PullInv'
  BY PullNext
<1> QED BY <1>1, <1>2, <1>3, SyncIsDirect, PTL DEF DirectSpec, PulledIsLatest

(***************************************************************************)
(* Once a pull has returned, the parameters stay as they are until the     *)
(* client pulls again: a read that a failed pull has left behind writes    *)
(* what is there already.                                                  *)
(***************************************************************************)
THEOREM PullsStay ==
  ASSUME UsedAsMeant
  PROVE  SyncSpec => PulledStays
<1> DEFINE Stays == \A g \in Generator :
      getting[g].stage = "returned" /\ getting'[g] = getting[g] =>
        target'[getting[g].into] = target[getting[g].into]
<1>1. PullInv /\ [DirectNext]_directVars => [Stays]_directVars
  <2> SUFFICES ASSUME PullInv, DirectNext, NEW g \in Generator,
                      getting[g].stage = "returned", getting'[g] = getting[g],
                      NEW d, d = getting[g].into
               PROVE  target'[d] = target[d]
    OBVIOUS
  <2>1. Reading(g) /\ PullType /\ <<getting[g].key, d>> \in Uses[g]
    BY DEF PullInv, Reading
  <2>2. d \in DOMAIN Into
    BY <2>1 DEF DirectAssumption
  <2>3. CASE \E r \in Trainer : TrainerActs(r)
    BY <2>3 DEF TrainerActs, OptimizerStep, RegisterMemory, Refresh,
                StoreHandles, StoreNumRanks, StoreFails, generatorVars
  <2>4. CASE \E h \in Generator : Copy(h)
    <3>1. PICK h \in Generator : Copy(h)
      BY <2>4
    <3>2. getting[h].stage = "reads" /\ Reading(h)
      BY <3>1 DEF Copy, PullInv
    <3>3. h # g /\ <<getting[h].key, getting[h].into>> \in Uses[h]
      BY <3>2 DEF Reading
    <3>4. getting[h].into # d
      BY <2>1, <3>3 DEF UsedAsMeant, OwnParameters
    <3> QED BY <2>2, <3>1, <3>4, CopyStep
  <2>5. CASE \E h \in Generator : \E read \in reads[h] : ReadLands(h, read)
    <3>1. PICK h \in Generator : \E read \in reads[h] : ReadLands(h, read)
      BY <2>5
    <3>2. PICK read \in reads[h] : ReadLands(h, read)
      BY <3>1
    <3> PICK op : op = read.op
      OBVIOUS
    <3>3. /\ op \in transfers[h].ops /\ read.version = weights[0]
          /\ op.into \in DOMAIN Into /\ op.name \in DOMAIN Into[op.into]
          /\ \A e \in DOMAIN Into : target'[e] # target[e] => e = op.into
      BY <3>2, LandsRight
    <3>4. /\ op.into = getting[h].into /\ op.key = getting[h].key
          /\ <<op.key, op.into>> \in Uses[h]
          /\ op.rank \in Trainer /\ op.name \in DOMAIN Shard[op.key][op.rank]
      <4>1. Reading(h)
        BY DEF PullInv
      <4> QED BY <3>3, <4>1, PlannedOp
    <3>5. CASE h # g
      <4>1. op.into # d
        BY <2>1, <3>4, <3>5 DEF UsedAsMeant, OwnParameters
      <4> QED BY <2>2, <3>3, <4>1
    <3>6. CASE h = g /\ IsExact(op)
      <4>1. op.name \in Names(getting[g].key) /\ op.into = d
        BY <3>4, <3>6 DEF Names
      <4>2. Filled(d, op.name)
        BY <2>1, <3>3, <3>6, <4>1 DEF Reading
      <4>3. target' = [target EXCEPT ![d][op.name] =
              [j \in DOMAIN target[d][op.name] |-> Element(op, j, weights[0])]]
        BY <3>2, <3>3, <3>6, <4>1 DEF ReadLands
      <4> DEFINE S == Index(Into[d][op.name].local_shape)
      <4>4. target[d][op.name] = [j \in S |-> target[d][op.name][j]]
        BY <2>1, <2>2, <3>3, <4>1 DEF PullType
      <4>5. \A j \in S : target[d][op.name][j] = Element(op, j, weights[0])
        BY <3>6, <4>1, <4>2, ExactElement DEF Filled
      <4> HIDE DEF S
      <4>6. [j \in DOMAIN target[d][op.name] |-> Element(op, j, weights[0])]
              = target[d][op.name]
        BY <4>4, <4>5
      <4>7. target[d] = [p \in DOMAIN Into[d] |-> target[d][p]]
        BY <2>1, <2>2 DEF PullType
      <4>8. target' = [target EXCEPT ![d][op.name] = target[d][op.name]]
        BY <4>3, <4>6
      <4>9. d \in DOMAIN target
        BY <2>1, <2>2 DEF PullType
      <4>10. target'[d] = [target[d] EXCEPT ![op.name] = target[d][op.name]]
        BY <4>8, <4>9
      <4> QED BY <4>7, <4>10
    <3>7. CASE ~IsExact(op)
      BY <3>2, <3>7 DEF ReadLands
    <3> QED BY <3>5, <3>6, <3>7
  <2>6. CASE \E h \in Generator :
               \/ \E k \in Policy, e \in DOMAIN Into : StartPull(h, k, e)
               \/ FetchNumRanks(h) \/ FetchRank(h) \/ FetchFails(h)
               \/ \E read \in reads[h] :
                    ReadLeaves(h, read) \/ ReadFails(h, read)
    BY <2>6 DEF StartPull, FetchNumRanks, FetchRank, FetchFails, ReadLeaves,
                ReadFails
  <2> QED BY <2>3, <2>4, <2>5, <2>6 DEF DirectNext, TrainerActs
<1>2. DirectInit => PullInv
  BY PullInitially
<1>3. PullInv /\ [DirectNext]_directVars => PullInv'
  BY PullNext
<1> QED BY <1>1, <1>2, <1>3, SyncIsDirect, PTL DEF DirectSpec, PulledStays
=============================================================================
