--------------------------- MODULE TransportProofs ---------------------------
(***************************************************************************)
(* Proofs about the transports, for any number of requests, devices and    *)
(* parts of memory, and any faults.                                        *)
(***************************************************************************)
EXTENDS Transports, TLAPS

USE NoRequestAssumption

-----------------------------------------------------------------------------
(* Uniflow: what the two sides know of one request *)

UniflowPhase == {"new", "topology", "connect", "hook", "data", "aborting",
                 "done", "raised", "forsaken"}

(* Where the coroutine is tells which of its RPCs, if any, is under way. *)
InOrder(r) ==
  /\ phase[r] \in UniflowPhase
  /\ rpc[r] \in {"none", "topology", "connect", "data", "ok", "error"}
  /\ phase[r] \in {"new", "hook", "done", "raised"} => rpc[r] = "none"
  /\ phase[r] = "topology" => rpc[r] \in {"topology", "ok", "error"}
  /\ phase[r] = "connect" => rpc[r] \in {"connect", "ok", "error"}
  /\ phase[r] = "data" => rpc[r] \in {"data", "ok", "error"}

(* The volume has made its ends of the connections and not yet used them. *)
Prepared(r) ==
  \/ phase[r] = "topology" /\ rpc[r] = "ok"
  \/ phase[r] = "connect" /\ rpc[r] \in {"connect", "ok"}
  \/ phase[r] = "hook"
  \/ phase[r] = "data" /\ rpc[r] = "data"

(* It is over on both sides, or has not begun. *)
Clear(r) ==
  \/ phase[r] \in {"new", "done", "raised"}
  \/ phase[r] = "data" /\ rpc[r] = "ok"

HandshakeIsKept(r) ==
  /\ connections[r] \subseteq devices[r]
  /\ \A d \in Device : <<r, d>> \in handshakes => d \in connections[r]
  /\ Prepared(r) => \A d \in connections[r] : <<r, d>> \in handshakes
  /\ Clear(r) => \A d \in Device : <<r, d>> \notin handshakes

HandshakeInv ==
  /\ UniflowTypeOK
  /\ \A r \in Request : InOrder(r) /\ HandshakeIsKept(r)

(* A step of request r leaves what others know of theirs alone. *)
OnlyOf(r) ==
  \A q \in Request \ {r} :
    /\ phase'[q] = phase[q] /\ rpc'[q] = rpc[q]
    /\ devices'[q] = devices[q] /\ connections'[q] = connections[q]
    /\ \A d \in Device : <<q, d>> \in handshakes' <=> <<q, d>> \in handshakes

LEMMA OthersKeepTheirs ==
  ASSUME HandshakeInv, NEW r \in Request, OnlyOf(r), UniflowTypeOK',
         InOrder(r)', HandshakeIsKept(r)'
  PROVE  HandshakeInv'
<1>1. ASSUME NEW q \in Request PROVE InOrder(q)' /\ HandshakeIsKept(q)'
  <2>1. CASE q = r
    BY <2>1
  <2>2. CASE q # r
    <3>1. InOrder(q) /\ HandshakeIsKept(q)
      BY DEF HandshakeInv
    <3>2. /\ phase'[q] = phase[q] /\ rpc'[q] = rpc[q]
          /\ devices'[q] = devices[q] /\ connections'[q] = connections[q]
          /\ \A d \in Device : <<q, d>> \in handshakes' <=> <<q, d>> \in handshakes
      BY <2>2 DEF OnlyOf
    <3>3. InOrder(q)'
      BY <3>1, <3>2 DEF InOrder
    <3>4. HandshakeIsKept(q)'
      <4>1. connections[q] \subseteq Device
        BY DEF HandshakeInv, UniflowTypeOK
      <4> QED BY <3>1, <3>2, <4>1 DEF HandshakeIsKept, Prepared, Clear
    <3> QED BY <3>3, <3>4
  <2> QED BY <2>1, <2>2
<1> QED BY <1>1 DEF HandshakeInv

(* The steps that move the request and nothing else. *)
LEMMA MovesKeep ==
  ASSUME HandshakeInv, NEW r \in Request,
         NEW p \in UniflowPhase, NEW m \in Rpc, Goto(r, p, m), UNCHANGED endVars,
         InOrder(r)',
         (Prepared(r)' => Prepared(r)),
         (Clear(r)' => \A d \in Device : <<r, d>> \notin handshakes)
  PROVE  HandshakeInv'
<1>1. UniflowTypeOK'
  BY DEF HandshakeInv, UniflowTypeOK, BufferTypeOK, Goto, endVars, Phase, UniflowPhase
<1>2. OnlyOf(r)
  BY DEF HandshakeInv, UniflowTypeOK, BufferTypeOK, Goto, endVars, OnlyOf
<1>3. HandshakeIsKept(r)'
  BY DEF HandshakeInv, HandshakeIsKept, endVars
<1> QED BY <1>1, <1>2, <1>3, OthersKeepTheirs

(* The steps of the volume, which reply, and make or discard its ends. *)
LEMMA RepliesKeep ==
  ASSUME HandshakeInv, NEW r \in Request, NEW m \in Rpc, NEW hs, Reply(r, m),
         UNCHANGED <<devices, connections, transports>>,
         volumeTransports' \in [Device -> Request \cup {NoRequest}],
         handshakes' = hs,
         hs \subseteq Request \X Device,
         \A q \in Request \ {r}, d \in Device : <<q, d>> \in hs <=> <<q, d>> \in handshakes,
         \A d \in Device : <<r, d>> \in hs => d \in connections[r],
         InOrder(r)',
         Prepared(r)' => \A d \in connections[r] : <<r, d>> \in hs,
         Clear(r)' => \A d \in Device : <<r, d>> \notin hs
  PROVE  HandshakeInv'
<1>1. UniflowTypeOK'
  BY DEF HandshakeInv, UniflowTypeOK, BufferTypeOK, Reply
<1>2. OnlyOf(r)
  BY DEF HandshakeInv, UniflowTypeOK, BufferTypeOK, Reply, OnlyOf
<1>3. HandshakeIsKept(r)'
  BY DEF HandshakeInv, HandshakeIsKept
<1> QED BY <1>1, <1>2, <1>3, OthersKeepTheirs

LEMMA DiscardedIsGone ==
  ASSUME NEW r \in Request, handshakes \subseteq Request \X Device
  PROVE  /\ Discarded(r) \subseteq Request \X Device
         /\ \A d \in Device : <<r, d>> \notin Discarded(r)
         /\ \A q \in Request \ {r}, d \in Device :
              <<q, d>> \in Discarded(r) <=> <<q, d>> \in handshakes
  BY DEF Discarded, OwnHandshakes

LEMMA UniflowInitially == BufferInit /\ UniflowInit => HandshakeInv
  BY DEF BufferInit, UniflowInit, HandshakeInv, UniflowTypeOK, BufferTypeOK,
         InOrder, HandshakeIsKept, Prepared, Clear, Phase, Rpc, UniflowPhase

LEMMA HandshakeStep ==
  ASSUME HandshakeInv, UniflowNext
  PROVE  HandshakeInv'
<1> PICK r \in Request :
      \/ \E ds \in SUBSET Device : UniflowStart(r, ds)
      \/ PostTopology(r) \/ PostConnect(r) \/ UniflowSend(r) \/ Publish(r)
      \/ UniflowCallFails(r) \/ UniflowRaises(r) \/ UniflowClientFails(r)
      \/ UniflowCancelled(r) \/ UniflowHandlerFails(r)
      \/ RecvTopology(r) \/ RecvConnect(r) \/ UniflowHandle(r)
      \/ RecvAbort(r) \/ AbortIsLost(r)
  BY DEF UniflowNext
<1>0. /\ InOrder(r) /\ HandshakeIsKept(r)
      /\ phase \in [Request -> Phase] /\ rpc \in [Request -> Rpc]
      /\ devices \in [Request -> SUBSET Device]
      /\ connections \in [Request -> SUBSET Device]
      /\ transports \in [Device -> Request \cup {NoRequest}]
      /\ volumeTransports \in [Device -> Request \cup {NoRequest}]
      /\ handshakes \subseteq Request \X Device
  BY DEF HandshakeInv, UniflowTypeOK, BufferTypeOK
<1>d. /\ Discarded(r) \subseteq Request \X Device
      /\ \A d \in Device : <<r, d>> \notin Discarded(r)
      /\ \A q \in Request \ {r}, d \in Device :
           <<q, d>> \in Discarded(r) <=> <<q, d>> \in handshakes
  BY <1>0, DiscardedIsGone
<1>1. ASSUME NEW ds \in SUBSET Device, UniflowStart(r, ds) PROVE HandshakeInv'
  <2>1. /\ phase[r] = "new" /\ devices' = [devices EXCEPT ![r] = ds]
        /\ connections' = [connections EXCEPT ![r] = Unconnected(ds)]
        /\ UNCHANGED <<transports, volumeTransports, handshakes>>
        /\ \/ Unconnected(ds) = {} /\ Goto(r, "hook", "none")
           \/ Goto(r, "topology", "topology")
    BY <1>1 DEF UniflowStart
  <2>2. Unconnected(ds) \subseteq ds
    BY DEF Unconnected
  <2>3. UniflowTypeOK'
    BY <1>0, <2>1, <2>2 DEF UniflowTypeOK, BufferTypeOK, Goto, Phase, Rpc
  <2>4. OnlyOf(r)
    BY <1>0, <2>1 DEF OnlyOf, Goto
  <2>5. \A d \in Device : <<r, d>> \notin handshakes
    BY <1>0, <2>1 DEF HandshakeIsKept, Clear
  <2>6. InOrder(r)' /\ HandshakeIsKept(r)'
    BY <1>0, <2>1, <2>2, <2>5
       DEF InOrder, HandshakeIsKept, Prepared, Clear, Goto, UniflowPhase
  <2> QED BY <2>3, <2>4, <2>6, OthersKeepTheirs
<1>2. CASE PostTopology(r)
  <2>1. Goto(r, "connect", "connect") /\ UNCHANGED endVars /\ Prepared(r)
    BY <1>2 DEF PostTopology, Prepared
  <2>2. InOrder(r)' /\ ~Clear(r)'
    BY <1>0, <2>1 DEF InOrder, Clear, Goto, UniflowPhase
  <2> QED BY <2>1, <2>2, MovesKeep DEF UniflowPhase, Rpc
<1>3. CASE PostConnect(r)
  <2>1. Goto(r, "hook", "none") /\ UNCHANGED endVars /\ Prepared(r)
    BY <1>3 DEF PostConnect, Prepared
  <2>2. InOrder(r)' /\ ~Clear(r)'
    BY <1>0, <2>1 DEF InOrder, Clear, Goto, UniflowPhase
  <2> QED BY <2>1, <2>2, MovesKeep DEF UniflowPhase, Rpc
<1>4. CASE UniflowSend(r)
  <2>1. Goto(r, "data", "data") /\ UNCHANGED endVars /\ Prepared(r)
    BY <1>4 DEF UniflowSend, Prepared
  <2>2. InOrder(r)' /\ ~Clear(r)'
    BY <1>0, <2>1 DEF InOrder, Clear, Goto, UniflowPhase
  <2> QED BY <2>1, <2>2, MovesKeep DEF UniflowPhase, Rpc
<1>5. CASE Publish(r)
  <2>1. /\ Clear(r) /\ Goto(r, "done", "none")
        /\ UNCHANGED <<devices, connections, volumeTransports, handshakes>>
        /\ transports' \in [Device -> Request \cup {NoRequest}]
    BY <1>0, <1>5 DEF Publish, Clear
  <2>2. UniflowTypeOK'
    BY <1>0, <2>1 DEF UniflowTypeOK, BufferTypeOK, Goto, Phase, Rpc
  <2>3. OnlyOf(r)
    BY <1>0, <2>1 DEF OnlyOf, Goto
  <2>4. InOrder(r)' /\ HandshakeIsKept(r)'
    BY <1>0, <2>1 DEF InOrder, HandshakeIsKept, Prepared, Clear, Goto, UniflowPhase
  <2> QED BY <2>2, <2>3, <2>4, OthersKeepTheirs
<1>6. CASE UniflowCallFails(r)
  <2>1. /\ Reply(r, "error") /\ UNCHANGED endVars /\ phase[r] # "new"
        /\ phase[r] \notin {"done", "raised"} /\ phase[r] # "hook"
    BY <1>0, <1>6 DEF UniflowCallFails, Reply, Active, Ended, InOrder, Unhandled
  <2>2. InOrder(r)' /\ ~Clear(r)' /\ ~Prepared(r)'
    BY <1>0, <2>1 DEF InOrder, Clear, Prepared, Reply, UniflowPhase
  <2>3. \A d \in Device : <<r, d>> \in handshakes => d \in connections[r]
    BY <1>0 DEF HandshakeIsKept
  <2> QED BY <1>0, <2>1, <2>2, <2>3, RepliesKeep DEF endVars, Rpc
<1>7. ASSUME NEW abort \in BOOLEAN, EndRequest(r, abort),
             \/ abort
             \/ \A d \in Device : <<r, d>> \notin handshakes
      PROVE  HandshakeInv'
  <2>1. CASE abort
    <3>1. Goto(r, "aborting", "none") /\ UNCHANGED endVars
      BY <1>7, <2>1 DEF EndRequest
    <3>2. InOrder(r)' /\ ~Clear(r)' /\ ~Prepared(r)'
      BY <1>0, <3>1 DEF InOrder, Clear, Prepared, Goto, UniflowPhase
    <3> QED BY <3>1, <3>2, MovesKeep DEF UniflowPhase, Rpc
  <2>2. CASE ~abort
    <3>1. Goto(r, "raised", "none") /\ UNCHANGED endVars
      BY <1>7, <2>2 DEF EndRequest
    <3>2. InOrder(r)' /\ ~Prepared(r)'
      BY <1>0, <3>1 DEF InOrder, Prepared, Goto, UniflowPhase
    <3> QED BY <1>7, <2>2, <3>1, <3>2, MovesKeep DEF UniflowPhase, Rpc
  <2> QED BY <2>1, <2>2
<1>8. CASE UniflowRaises(r) \/ UniflowClientFails(r)
  <2> DEFINE abort == InHandshake(r) \/ RemoteHandshakePending(r)
  <2>1. EndRequest(r, abort) /\ phase[r] \in {"topology", "connect", "hook", "data"}
    BY <1>0, <1>8 DEF UniflowRaises, UniflowClientFails, Active, Ended, InOrder,
                      UniflowPhase
  <2>2. ~abort => \A d \in Device : <<r, d>> \notin handshakes
    BY <1>0, <2>1 DEF InHandshake, RemoteHandshakePending, HandshakeIsKept
  <2>3. abort \in BOOLEAN
    BY DEF InHandshake, RemoteHandshakePending
  <2> HIDE DEF abort
  <2> QED BY <1>7, <2>1, <2>2, <2>3
<1>9. CASE UniflowCancelled(r)
  <2>1. PICK p \in {"aborting", "forsaken"}, m \in Rpc :
          Goto(r, p, m) /\ m \in Unhandled \cup {"none"} /\ (m # "none" => m = rpc[r])
    BY <1>0, <1>9 DEF UniflowCancelled, Unhandled, Rpc
  <2>2. InOrder(r)' /\ ~Clear(r)' /\ ~Prepared(r)'
    BY <1>0, <2>1 DEF InOrder, Clear, Prepared, Goto, UniflowPhase, Unhandled
  <2>3. UNCHANGED endVars
    BY <1>9 DEF UniflowCancelled
  <2> QED BY <2>1, <2>2, <2>3, MovesKeep DEF UniflowPhase
<1>10. CASE UniflowHandlerFails(r)
  <2>1. /\ Reply(r, "error") /\ handshakes' = Discarded(r)
        /\ UNCHANGED <<devices, connections, transports, volumeTransports>>
        /\ rpc[r] \in Unhandled
    BY <1>10 DEF UniflowHandlerFails
  <2>2. InOrder(r)' /\ ~Prepared(r)'
    BY <1>0, <2>1 DEF InOrder, Prepared, Reply, UniflowPhase, Unhandled
  <2> QED BY <1>0, <1>d, <2>1, <2>2, RepliesKeep DEF Rpc
<1>11. CASE RecvTopology(r)
  <2> DEFINE hs == handshakes \cup ({r} \X connections[r])
  <2>1. /\ Reply(r, "ok") /\ handshakes' = hs /\ rpc[r] = "topology"
        /\ UNCHANGED <<devices, connections, transports, volumeTransports>>
    BY <1>11 DEF RecvTopology
  <2>2. /\ hs \subseteq Request \X Device
        /\ \A q \in Request \ {r}, d \in Device :
             <<q, d>> \in hs <=> <<q, d>> \in handshakes
        /\ \A d \in Device : <<r, d>> \in hs => d \in connections[r]
        /\ \A d \in connections[r] : <<r, d>> \in hs
    BY <1>0 DEF HandshakeIsKept
  <2>3. InOrder(r)' /\ ~Clear(r)'
    BY <1>0, <2>1 DEF InOrder, Clear, Reply, UniflowPhase
  <2> HIDE DEF hs
  <2> QED BY <1>0, <2>1, <2>2, <2>3, RepliesKeep DEF Rpc
<1>12. CASE RecvConnect(r)
  <2>1. /\ rpc[r] = "connect"
        /\ UNCHANGED <<devices, connections, transports, volumeTransports>>
    BY <1>12 DEF RecvConnect
  <2>2. CASE Reply(r, "ok") /\ handshakes' = handshakes
               /\ {r} \X connections[r] \subseteq handshakes
    <3>1. InOrder(r)' /\ ~Clear(r)'
      BY <1>0, <2>1, <2>2 DEF InOrder, Clear, Reply, UniflowPhase
    <3>2. /\ \A d \in Device : <<r, d>> \in handshakes => d \in connections[r]
          /\ \A d \in connections[r] : <<r, d>> \in handshakes
      BY <1>0, <2>2 DEF HandshakeIsKept
    <3> QED BY <1>0, <2>1, <2>2, <3>1, <3>2, RepliesKeep DEF Rpc
  <2>3. CASE Reply(r, "error") /\ handshakes' = Discarded(r)
    <3>1. InOrder(r)' /\ ~Prepared(r)'
      BY <1>0, <2>1, <2>3 DEF InOrder, Prepared, Reply, UniflowPhase
    <3> QED BY <1>0, <1>d, <2>1, <2>3, <3>1, RepliesKeep DEF Rpc
  <2> QED BY <1>12, <2>2, <2>3 DEF RecvConnect
<1>13. CASE UniflowHandle(r)
  <2>1. PICK m \in {"ok", "error"} :
          /\ Reply(r, m) /\ rpc[r] = "data"
          /\ volumeTransports' \in {Promoted(r), volumeTransports}
          /\ handshakes' = Discarded(r)
          /\ UNCHANGED <<devices, connections, transports>>
    BY <1>13 DEF UniflowHandle
  <2>2. volumeTransports' \in [Device -> Request \cup {NoRequest}]
    BY <1>0, <2>1 DEF Promoted
  <2>3. InOrder(r)' /\ ~Prepared(r)'
    BY <1>0, <2>1 DEF InOrder, Prepared, Reply, UniflowPhase
  <2> QED BY <1>0, <1>d, <2>1, <2>2, <2>3, RepliesKeep DEF Rpc
<1>14. CASE RecvAbort(r)
  <2>1. /\ Goto(r, "raised", "none") /\ handshakes' = Discarded(r)
        /\ UNCHANGED <<devices, connections, transports, volumeTransports>>
    BY <1>14 DEF RecvAbort
  <2>2. UniflowTypeOK'
    BY <1>0, <1>d, <2>1 DEF UniflowTypeOK, BufferTypeOK, Goto, Phase, Rpc
  <2>3. OnlyOf(r)
    BY <1>0, <1>d, <2>1 DEF OnlyOf, Goto
  <2>4. InOrder(r)' /\ HandshakeIsKept(r)'
    BY <1>0, <1>d, <2>1
       DEF InOrder, HandshakeIsKept, Prepared, Clear, Goto, UniflowPhase
  <2> QED BY <2>2, <2>3, <2>4, OthersKeepTheirs
<1>15. CASE AbortIsLost(r)
  <2>1. Goto(r, "forsaken", "none") /\ UNCHANGED endVars
    BY <1>15 DEF AbortIsLost
  <2>2. InOrder(r)' /\ ~Clear(r)' /\ ~Prepared(r)'
    BY <1>0, <2>1 DEF InOrder, Clear, Prepared, Goto, UniflowPhase
  <2> QED BY <2>1, <2>2, MovesKeep DEF UniflowPhase, Rpc
<1> QED BY <1>1, <1>2, <1>3, <1>4, <1>5, <1>6, <1>8, <1>9, <1>10, <1>11, <1>12,
           <1>13, <1>14, <1>15

-----------------------------------------------------------------------------
(* Uniflow: what the two caches have to do with each other *)

(* No two requests connect one device at a time. *)
OneConnects ==
  \A q, r \in Request, d \in Device :
    Active(q) /\ Active(r) /\ d \in connections[q] /\ d \in connections[r] => q = r

(***************************************************************************)
(* A request connects the devices that the client has no transport for, as *)
(* long as it is under way; once the volume has served it, the volume's    *)
(* transport is that of the request.                                       *)
(***************************************************************************)
ConnectsMissing(r) ==
  \A d \in Device :
    /\ Active(r) /\ d \in connections[r] => transports[d] = NoRequest
    /\ Active(r) /\ d \in devices[r] \ connections[r] => transports[d] # NoRequest
    /\ phase[r] = "data" /\ rpc[r] = "ok" /\ d \in connections[r]
         => volumeTransports[d] = r

PairInv ==
  /\ HandshakeInv
  /\ OneConnects
  /\ \A r \in Request : ConnectsMissing(r)
  /\ PublishedPairsMeet

LEMMA PairsInitially == BufferInit /\ UniflowInit => PairInv
  BY UniflowInitially
     DEF PairInv, BufferInit, UniflowInit, OneConnects, ConnectsMissing, Active,
         Ended, PublishedPairsMeet

(* The steps that touch neither cache, begin nothing and serve nothing. *)
LEMMA CachesKeep ==
  ASSUME PairInv, HandshakeInv',
         UNCHANGED <<devices, connections, transports, volumeTransports>>,
         \A r \in Request : Active(r)' => Active(r),
         \A r \in Request : (phase[r] = "data" /\ rpc[r] = "ok")'
                              => phase[r] = "data" /\ rpc[r] = "ok"
  PROVE  PairInv'
<1>1. OneConnects'
  BY DEF PairInv, OneConnects
<1>2. \A r \in Request : ConnectsMissing(r)'
  BY DEF PairInv, ConnectsMissing
<1>3. PublishedPairsMeet'
  BY DEF PairInv, PublishedPairsMeet
<1> QED BY <1>1, <1>2, <1>3 DEF PairInv

LEMMA PairStep ==
  ASSUME ~Crossing, PairInv, UniflowNext
  PROVE  PairInv'
<1>h. HandshakeInv'
  BY HandshakeStep DEF PairInv
<1> PICK r \in Request :
      \/ \E ds \in SUBSET Device : UniflowStart(r, ds)
      \/ PostTopology(r) \/ PostConnect(r) \/ UniflowSend(r) \/ Publish(r)
      \/ UniflowCallFails(r) \/ UniflowRaises(r) \/ UniflowClientFails(r)
      \/ UniflowCancelled(r) \/ UniflowHandlerFails(r)
      \/ RecvTopology(r) \/ RecvConnect(r) \/ UniflowHandle(r)
      \/ RecvAbort(r) \/ AbortIsLost(r)
  BY DEF UniflowNext
<1>0. /\ \A q \in Request : InOrder(q) /\ HandshakeIsKept(q) /\ ConnectsMissing(q)
      /\ OneConnects /\ PublishedPairsMeet
      /\ phase \in [Request -> Phase] /\ rpc \in [Request -> Rpc]
      /\ devices \in [Request -> SUBSET Device]
      /\ connections \in [Request -> SUBSET Device]
      /\ transports \in [Device -> Request \cup {NoRequest}]
      /\ volumeTransports \in [Device -> Request \cup {NoRequest}]
  BY DEF PairInv, HandshakeInv, UniflowTypeOK, BufferTypeOK
<1>1. ASSUME NEW ds \in SUBSET Device, UniflowStart(r, ds) PROVE PairInv'
  <2>1. /\ phase[r] = "new" /\ devices' = [devices EXCEPT ![r] = ds]
        /\ connections' = [connections EXCEPT ![r] = Unconnected(ds)]
        /\ transports' = transports /\ volumeTransports' = volumeTransports
        /\ \A d \in Unconnected(ds) : \A q \in Request :
             ~(Active(q) /\ d \in connections[q])
        /\ \A q \in Request \ {r} : phase'[q] = phase[q] /\ rpc'[q] = rpc[q]
        /\ phase'[r] \in {"hook", "topology"}
    BY <1>0, <1>1 DEF UniflowStart, IsConnecting, Goto
  <2>2. /\ connections'[r] = Unconnected(ds) /\ devices'[r] = ds
        /\ \A q \in Request \ {r} : /\ connections'[q] = connections[q]
                                    /\ devices'[q] = devices[q]
                                    /\ Active(q)' = Active(q)
    BY <1>0, <2>1 DEF Active
  <2>3. OneConnects'
    BY <1>0, <2>1, <2>2 DEF OneConnects
  <2>4. \A q \in Request : ConnectsMissing(q)'
    BY <1>0, <2>1, <2>2 DEF ConnectsMissing, Unconnected
  <2>5. PublishedPairsMeet'
    BY <1>0, <2>1 DEF PublishedPairsMeet
  <2> QED BY <1>h, <2>3, <2>4, <2>5 DEF PairInv
<1>2. CASE Publish(r)
  <2>1. /\ phase[r] = "data" /\ rpc[r] = "ok" /\ Active(r)
        /\ phase'[r] = "done" /\ ~Active(r)'
        /\ \A q \in Request \ {r} : /\ phase'[q] = phase[q] /\ rpc'[q] = rpc[q]
                                    /\ Active(q)' = Active(q)
        /\ devices' = devices /\ connections' = connections
        /\ volumeTransports' = volumeTransports
        /\ \A d \in Device :
             transports'[d] = IF d \in connections[r] /\ transports[d] = NoRequest
                              THEN r ELSE transports[d]
    BY <1>0, <1>2 DEF Publish, Goto, Active, Ended
  <2>2. OneConnects'
    BY <1>0, <2>1 DEF OneConnects
  <2>3. \A q \in Request : ConnectsMissing(q)'
    BY <1>0, <2>1 DEF ConnectsMissing, OneConnects
  <2>4. PublishedPairsMeet'
    BY <1>0, <2>1 DEF PublishedPairsMeet, ConnectsMissing
  <2> QED BY <1>h, <2>2, <2>3, <2>4 DEF PairInv
<1>3. CASE UniflowHandle(r)
  <2>1. /\ rpc[r] = "data"
        /\ devices' = devices /\ connections' = connections
        /\ transports' = transports /\ phase' = phase
        /\ \A q \in Request \ {r} : rpc'[q] = rpc[q]
    BY <1>0, <1>3 DEF UniflowHandle, Reply
  <2>2. CASE Reaches(r) /\ volumeTransports' = Promoted(r)
    <3>1. \A d \in connections[r] :
            phase[r] = "data" /\ <<r, d>> \in handshakes
      BY <1>0, <2>2
         DEF Reaches, VolumeEnd, ClientEnd, HandshakeIsKept
    <3>2. \A d \in Device : <<r, d>> \in handshakes => d \in connections[r]
      BY <1>0 DEF HandshakeIsKept
    <3>3. \A d \in Device :
            volumeTransports'[d] = IF d \in connections[r] THEN r
                                   ELSE volumeTransports[d]
      BY <1>0, <2>2, <3>1, <3>2 DEF Promoted
    <3>4. connections[r] # {} => Active(r)
      BY <3>1 DEF Active, Ended
    <3>5. \A d \in connections[r] : transports[d] = NoRequest
      BY <1>0, <3>4 DEF ConnectsMissing
    <3>6. OneConnects'
      BY <1>0, <2>1 DEF OneConnects, Active
    <3>7. \A q \in Request : ConnectsMissing(q)'
      <4>1. ASSUME NEW q \in Request PROVE ConnectsMissing(q)'
        <5>1. CASE q = r
          BY <1>0, <2>1, <3>3, <5>1 DEF ConnectsMissing, Active
        <5>2. CASE q # r
          <6>1. \A d \in Device : phase[q] = "data" /\ d \in connections[q]
                  => d \notin connections[r]
            BY <1>0, <3>4, <5>2 DEF OneConnects, Active, Ended
          <6> QED BY <1>0, <2>1, <3>3, <5>2, <6>1 DEF ConnectsMissing, Active
        <5> QED BY <5>1, <5>2
      <4> QED BY <4>1
    <3>8. PublishedPairsMeet'
      BY <1>0, <2>1, <3>3, <3>5 DEF PublishedPairsMeet
    <3> QED BY <1>h, <3>6, <3>7, <3>8 DEF PairInv
  <2>3. CASE Reply(r, "error") /\ UNCHANGED volumeTransports
    <3>1. rpc'[r] = "error"
      BY <1>0, <2>3 DEF Reply
    <3> QED BY <1>h, <2>1, <2>3, <3>1, CachesKeep DEF Active
  <2> QED BY <1>3, <2>2, <2>3 DEF UniflowHandle
<1>4. ASSUME NEW p \in UniflowPhase, NEW m \in Rpc, Goto(r, p, m), UNCHANGED
             <<devices, connections, transports, volumeTransports>>,
             p \in Ended \/ Active(r), p = "data" => m # "ok"
      PROVE  PairInv'
  <2>1. \A q \in Request : Active(q)' => Active(q)
    BY <1>0, <1>4 DEF Goto, Active
  <2>2. \A q \in Request : (phase[q] = "data" /\ rpc[q] = "ok")'
                             => phase[q] = "data" /\ rpc[q] = "ok"
    BY <1>0, <1>4 DEF Goto
  <2> QED BY <1>h, <1>4, <2>1, <2>2, CachesKeep
<1>5. ASSUME NEW m \in Rpc, Reply(r, m), UNCHANGED
             <<devices, connections, transports, volumeTransports>>,
             m = "ok" => phase[r] # "data"
      PROVE  PairInv'
  <2>1. \A q \in Request : Active(q)' => Active(q)
    BY <1>5 DEF Reply, Active
  <2>2. \A q \in Request : (phase[q] = "data" /\ rpc[q] = "ok")'
                             => phase[q] = "data" /\ rpc[q] = "ok"
    BY <1>0, <1>5 DEF Reply
  <2> QED BY <1>h, <1>5, <2>1, <2>2, CachesKeep
<1>6. CASE PostTopology(r) \/ PostConnect(r) \/ UniflowSend(r)
  BY <1>4, <1>6 DEF PostTopology, PostConnect, UniflowSend, endVars, Active, Ended,
                    UniflowPhase, Rpc
<1>7. CASE UniflowCallFails(r) \/ UniflowHandlerFails(r)
  BY <1>5, <1>7 DEF UniflowCallFails, UniflowHandlerFails, Reply, endVars, Rpc
<1>8. CASE UniflowRaises(r) \/ UniflowClientFails(r) \/ UniflowCancelled(r)
  <2>1. \E p \in {"aborting", "raised", "forsaken"}, m \in Rpc :
          Goto(r, p, m) /\ UNCHANGED endVars
    BY <1>8 DEF UniflowRaises, UniflowClientFails, UniflowCancelled, EndRequest,
                Unhandled, Rpc
  <2>2. Active(r)
    BY <1>8 DEF UniflowRaises, UniflowClientFails, UniflowCancelled, Active, Ended
  <2> QED BY <1>4, <2>1, <2>2 DEF endVars, UniflowPhase
<1>9. CASE RecvTopology(r) \/ RecvConnect(r)
  <2>1. \E m \in {"ok", "error"} : Reply(r, m)
    BY <1>9 DEF RecvTopology, RecvConnect
  <2>2. phase[r] # "data"
    BY <1>0, <1>9 DEF RecvTopology, RecvConnect, InOrder
  <2>3. UNCHANGED <<devices, connections, transports, volumeTransports>>
    BY <1>9 DEF RecvTopology, RecvConnect
  <2> QED BY <1>5, <2>1, <2>2, <2>3 DEF Rpc
<1>10. CASE RecvAbort(r) \/ AbortIsLost(r)
  BY <1>4, <1>10 DEF RecvAbort, AbortIsLost, endVars, Ended, UniflowPhase, Rpc
<1> QED BY <1>1, <1>2, <1>3, <1>6, <1>7, <1>8, <1>9, <1>10

(* What the invariant says of a transfer that is about to begin. *)
LEMMA ServedReach ==
  ASSUME PairInv
  PROVE  TransfersReach
<1> SUFFICES ASSUME NEW r \in Request, phase[r] = "data", rpc[r] = "data",
                    NEW d \in devices[r]
             PROVE  VolumeEnd(r, d) # NoRequest /\ VolumeEnd(r, d) = ClientEnd(r, d)
  BY DEF TransfersReach, Reaches
<1>1. d \in Device /\ Active(r)
  BY DEF PairInv, HandshakeInv, UniflowTypeOK, Active, Ended
<1>2. CASE d \in connections[r]
  <2>1. <<r, d>> \in handshakes
    BY <1>2 DEF PairInv, HandshakeInv, HandshakeIsKept, Prepared
  <2> QED BY <1>2, <2>1 DEF VolumeEnd, ClientEnd
<1>3. CASE d \notin connections[r]
  BY <1>1, <1>3 DEF PairInv, ConnectsMissing, PublishedPairsMeet, VolumeEnd, ClientEnd
<1> QED BY <1>2, <1>3

-----------------------------------------------------------------------------
(* NIXL: the memory of a transfer that is under way *)

HeldInTurn ==
  \A q, r \in Request : phase[r] = "data" /\ rpc[q] = "data" => q = r

MemoryIsHeld(r) ==
  /\ phase[r] \in {"new", "data", "done", "raised", "forsaken"}
  /\ phase[r] = "new" => rpc[r] = "none"
  /\ rpc[r] \in {"data", "serving"} => phase[r] \in {"data", "forsaken"}
  /\ IsActive(r) => rpc[r] = "serving"
  /\ phase[r] = "data" => r \in registered /\ r \in metadata[r]
  /\ ~Concurrent /\ phase[r] = "data" /\ rpc[r] = "serving" => r \in remoteAgent

NixlInv ==
  /\ NixlTypeOK
  /\ ~Concurrent => HeldInTurn
  /\ \A r \in Request : MemoryIsHeld(r)

LEMMA NixlInitially == BufferInit /\ NixlInit => NixlInv
  BY DEF BufferInit, NixlInit, NixlInv, NixlTypeOK, BufferTypeOK, HeldInTurn,
         MemoryIsHeld, IsActive, Phase, Rpc

LEMMA NixlStep ==
  ASSUME NixlInv, NixlNext
  PROVE  NixlInv'
<1> USE GroupsAssumption, ConcurrentAssumption
<1> PICK r \in Request :
      \/ NixlSend(r) \/ NixlRefuses(r) \/ NixlReturns(r) \/ NixlAbandons(r)
      \/ NixlMovesNothing(r) \/ TensorFreed(r)
      \/ \E n \in Groups, raises \in BOOLEAN : NixlDispatch(r, n, raises)
      \/ \E fails \in BOOLEAN : TransferEnds(r, fails)
      \/ \E timedOut \in BOOLEAN : NixlServed(r, timedOut)
  BY DEF NixlNext
<1>0. /\ phase \in [Request -> Phase] /\ rpc \in [Request -> Rpc]
      /\ registered \subseteq Request /\ remoteAgent \subseteq Request
      /\ metadata \in [Request -> SUBSET Request]
      /\ active \in [Request -> Nat] /\ failed \in [Request -> BOOLEAN]
      /\ \A q \in Request : MemoryIsHeld(q)
      /\ ~Concurrent => HeldInTurn
  BY DEF NixlInv, NixlTypeOK, BufferTypeOK
<1>1. CASE NixlSend(r)
  <2>1. /\ phase[r] = "new"
        /\ phase' = [phase EXCEPT ![r] = "data"] /\ rpc' = [rpc EXCEPT ![r] = "data"]
        /\ registered' = registered \cup {r}
        /\ metadata' = [metadata EXCEPT ![r] = registered \cup {r}]
        /\ UNCHANGED <<remoteAgent, active, failed>>
        /\ ~Concurrent => \A q \in Request : phase[q] # "data" /\ rpc[q] # "data"
    BY <1>1 DEF NixlSend, Goto, Active, Ended
  <2>2. NixlTypeOK'
    BY <1>0, <2>1 DEF NixlTypeOK, BufferTypeOK, Phase, Rpc
  <2>3. ~Concurrent => HeldInTurn'
    BY <1>0, <2>1 DEF HeldInTurn
  <2>4. \A q \in Request : MemoryIsHeld(q)'
    BY <1>0, <2>1 DEF MemoryIsHeld, IsActive
  <2> QED BY <2>2, <2>3, <2>4 DEF NixlInv
<1>2. CASE \/ NixlRefuses(r) \/ NixlMovesNothing(r)
           \/ \E timedOut \in BOOLEAN : NixlServed(r, timedOut)
  <2>1. PICK m \in {"ok", "error"} :
          /\ phase' = phase /\ rpc' = [rpc EXCEPT ![r] = m]
          /\ UNCHANGED memoryVars /\ rpc[r] \in {"data", "serving"}
    BY <1>2 DEF NixlRefuses, NixlMovesNothing, NixlServed, Reply
  <2>2. ~IsActive(r)
    BY <1>0, <1>2
       DEF NixlRefuses, NixlMovesNothing, NixlServed, Drained, MemoryIsHeld
  <2>3. NixlTypeOK'
    BY <1>0, <2>1 DEF NixlTypeOK, BufferTypeOK, Rpc, memoryVars
  <2>4. ~Concurrent => HeldInTurn'
    BY <1>0, <2>1 DEF HeldInTurn
  <2>5. \A q \in Request : MemoryIsHeld(q)'
    BY <1>0, <2>1, <2>2 DEF MemoryIsHeld, IsActive, memoryVars
  <2> QED BY <2>3, <2>4, <2>5 DEF NixlInv
<1>3. CASE NixlReturns(r)
  <2>1. PICK p \in {"done", "raised"} :
          /\ phase' = [phase EXCEPT ![r] = p] /\ rpc' = [rpc EXCEPT ![r] = "none"]
          /\ UNCHANGED memoryVars
          /\ rpc[r] # "serving"
    BY <1>3 DEF NixlReturns, Goto
  <2>2. NixlTypeOK'
    BY <1>0, <2>1 DEF NixlTypeOK, BufferTypeOK, Phase, Rpc, memoryVars
  <2>3. ~Concurrent => HeldInTurn'
    BY <1>0, <2>1 DEF HeldInTurn
  <2>4. \A q \in Request : MemoryIsHeld(q)'
    BY <1>0, <2>1 DEF MemoryIsHeld, IsActive, memoryVars
  <2> QED BY <2>2, <2>3, <2>4 DEF NixlInv
<1>4. CASE NixlAbandons(r)
  <2>1. /\ phase' = [phase EXCEPT ![r] = "forsaken"] /\ rpc' = rpc
        /\ UNCHANGED memoryVars
    BY <1>4 DEF NixlAbandons
  <2>2. NixlTypeOK'
    BY <1>0, <2>1 DEF NixlTypeOK, BufferTypeOK, Phase, memoryVars
  <2>3. ~Concurrent => HeldInTurn'
    BY <1>0, <2>1 DEF HeldInTurn
  <2>4. \A q \in Request : MemoryIsHeld(q)'
    BY <1>0, <2>1 DEF MemoryIsHeld, IsActive, memoryVars
  <2> QED BY <2>2, <2>3, <2>4 DEF NixlInv
<1>5. CASE TensorFreed(r)
  <2>1. /\ phase' = phase /\ rpc' = rpc /\ phase[r] # "data"
        /\ registered' = registered \ {r}
        /\ UNCHANGED <<metadata, remoteAgent, active, failed>>
    BY <1>5 DEF TensorFreed, Active, Ended, bufferVars
  <2>2. NixlTypeOK'
    BY <1>0, <2>1 DEF NixlTypeOK, BufferTypeOK
  <2>3. ~Concurrent => HeldInTurn'
    BY <1>0, <2>1 DEF HeldInTurn
  <2>4. \A q \in Request : MemoryIsHeld(q)'
    BY <1>0, <2>1 DEF MemoryIsHeld, IsActive
  <2> QED BY <2>2, <2>3, <2>4 DEF NixlInv
<1>6. ASSUME NEW n \in Groups, NEW raises \in BOOLEAN, NixlDispatch(r, n, raises)
      PROVE  NixlInv'
  <2>1. /\ phase' = phase /\ rpc[r] = "data" /\ rpc' = [rpc EXCEPT ![r] = "serving"]
        /\ remoteAgent' = metadata[r] /\ active' = [active EXCEPT ![r] = n]
        /\ failed' = [failed EXCEPT ![r] = raises]
        /\ UNCHANGED <<registered, metadata>>
    BY <1>6 DEF NixlDispatch, Reply
  <2>2. NixlTypeOK'
    BY <1>0, <2>1 DEF NixlTypeOK, BufferTypeOK, Rpc
  <2>3. ~Concurrent => HeldInTurn'
    BY <1>0, <2>1 DEF HeldInTurn
  <2>4. ~Concurrent => \A q \in Request : phase[q] = "data" => q = r
    BY <1>0, <2>1 DEF HeldInTurn
  <2>5. \A q \in Request : MemoryIsHeld(q)'
    BY <1>0, <2>1, <2>4 DEF MemoryIsHeld, IsActive
  <2> QED BY <2>2, <2>3, <2>5 DEF NixlInv
<1>7. ASSUME NEW fails \in BOOLEAN, TransferEnds(r, fails) PROVE NixlInv'
  <2>1. /\ phase' = phase /\ rpc' = rpc /\ active[r] > 0
        /\ active' = [active EXCEPT ![r] = active[r] - 1]
        /\ failed' = [failed EXCEPT ![r] = failed[r] \/ fails]
        /\ UNCHANGED <<registered, metadata, remoteAgent>>
    BY <1>7 DEF TransferEnds, IsActive, bufferVars
  <2>2. active' \in [Request -> Nat]
    BY <1>0, <2>1
  <2>3. failed' \in [Request -> BOOLEAN]
    <3>1. (failed[r] \/ fails) \in BOOLEAN
      OBVIOUS
    <3> QED BY <1>0, <2>1, <3>1
  <2>4. NixlTypeOK'
    BY <1>0, <2>1, <2>2, <2>3 DEF NixlTypeOK, BufferTypeOK
  <2>5. ~Concurrent => HeldInTurn'
    BY <1>0, <2>1 DEF HeldInTurn
  <2>6. \A q \in Request : MemoryIsHeld(q)'
    BY <1>0, <2>1 DEF MemoryIsHeld, IsActive
  <2> QED BY <2>4, <2>5, <2>6 DEF NixlInv
<1> QED BY <1>1, <1>2, <1>3, <1>4, <1>5, <1>6, <1>7

LEMMA HeldIsActive ==
  ASSUME NixlInv, ~Concurrent
  PROVE  ActiveIsHeld
  BY DEF NixlInv, MemoryIsHeld, ActiveIsHeld

-----------------------------------------------------------------------------
(* Gloo *)

GlooInv ==
  /\ GlooTypeOK
  /\ \A r \in Request : rpc[r] = "handshake" => group[r] = r

LEMMA GlooInitially == BufferInit /\ GlooInit => GlooInv
  BY DEF BufferInit, GlooInit, GlooInv, GlooTypeOK, BufferTypeOK, Phase, Rpc, Kind,
         Operation

(* Posting on a group that a request does not have changes nothing. *)
LEMMA PostTypes ==
  ASSUME GlooTypeOK, NEW r \in Request, NEW lane \in Lane, PostOn(r, lane)
  PROVE  wire' \in [Request -> [Lane -> Seq(Request)]]
<1>1. wire \in [Request -> [Lane -> Seq(Request)]]
  BY DEF GlooTypeOK
<1>2. CASE group[r] \in Request
  <2>1. wire[group[r]] \in [Lane -> Seq(Request)]
    BY <1>1, <1>2
  <2>2. Append(wire[group[r]][lane], r) \in Seq(Request)
    BY <2>1
  <2>3. [wire[group[r]] EXCEPT ![lane] = Append(wire[group[r]][lane], r)]
          \in [Lane -> Seq(Request)]
    BY <2>1, <2>2
  <2>4. wire' = [wire EXCEPT ![group[r]] =
                  [wire[group[r]] EXCEPT ![lane] = Append(wire[group[r]][lane], r)]]
    BY DEF PostOn
  <2> QED BY <1>1, <1>2, <2>3, <2>4
<1>3. CASE group[r] \notin Request
  BY <1>1, <1>3 DEF PostOn
<1> QED BY <1>2, <1>3

(* So does posting on a lane that no tensor has. *)
LEMMA PostsNowhere ==
  ASSUME GlooTypeOK, NEW r \in Request, NEW lane, lane \notin Lane, PostOn(r, lane)
  PROVE  wire' \in [Request -> [Lane -> Seq(Request)]]
<1>1. wire \in [Request -> [Lane -> Seq(Request)]]
  BY DEF GlooTypeOK
<1>2. CASE group[r] \in Request
  <2>1. wire[group[r]] \in [Lane -> Seq(Request)]
    BY <1>1, <1>2
  <2> DEFINE same == [wire[group[r]] EXCEPT ![lane] = Append(wire[group[r]][lane], r)]
  <2>2. same \in [Lane -> Seq(Request)]
    BY <2>1
  <2>3. wire' = [wire EXCEPT ![group[r]] = same]
    BY DEF PostOn
  <2> HIDE DEF same
  <2> QED BY <1>1, <2>2, <2>3
<1>3. CASE group[r] \notin Request
  BY <1>1, <1>3 DEF PostOn
<1> QED BY <1>2, <1>3

LEMMA BrokenTypes ==
  ASSUME GlooTypeOK, NEW gs \in SUBSET Request, Broken(gs)
  PROVE  /\ broken' \subseteq Request
         /\ wire' \in [Request -> [Lane -> Seq(Request)]]
         /\ task' \in [Request -> Operation] /\ serving' \in [Request -> Operation]
         /\ took' = took
<1>1. [l \in Lane |-> <<>>] \in [Lane -> Seq(Request)]
  OBVIOUS
<1>2. wire' \in [Request -> [Lane -> Seq(Request)]]
  BY <1>1 DEF GlooTypeOK, Broken
<1> QED BY <1>2 DEF GlooTypeOK, Broken, FailedOn, Operation

LEMMA MeetTypes ==
  ASSUME GlooTypeOK, NEW g \in Request, NEW k \in {"put", "get"}, Meet(g, k)
  PROVE  GlooTypeOK'
<1> DEFINE sends    == wire[g][<<k, "send">>]
           receives == wire[g][<<k, "receive">>]
<1>1. wire[g] \in [Lane -> Seq(Request)]
  BY DEF GlooTypeOK
<1>2. <<k, "send">> \in Lane /\ <<k, "receive">> \in Lane
  BY DEF Lane
<1>3. sends \in Seq(Request) /\ receives \in Seq(Request)
  BY <1>1, <1>2
<1>4. sends # <<>> /\ receives # <<>>
  BY DEF Meet
<1>5. /\ Head(sends) \in Request /\ Tail(sends) \in Seq(Request)
      /\ Head(receives) \in Request /\ Tail(receives) \in Seq(Request)
  BY <1>3, <1>4
<1>6. took' \in [Request -> Request \cup {NoRequest}]
  BY <1>5 DEF GlooTypeOK, Meet
<1>7. task' \in [Request -> Operation] /\ serving' \in [Request -> Operation]
  BY DEF GlooTypeOK, Meet, Operation
<1>8. wire' \in [Request -> [Lane -> Seq(Request)]]
  <2> DEFINE rest == [wire[g] EXCEPT ![<<k, "send">>] = Tail(sends),
                                     ![<<k, "receive">>] = Tail(receives)]
  <2>1. rest \in [Lane -> Seq(Request)]
    BY <1>1, <1>5
  <2>2. <<k, "send">> # <<k, "receive">>
    OBVIOUS
  <2>3. wire' = [wire EXCEPT ![g] = rest]
    BY <2>2 DEF Meet, GlooTypeOK
  <2> HIDE DEF rest
  <2> QED BY <2>1, <2>3 DEF GlooTypeOK
<1>9. UNCHANGED <<phase, rpc, kind, group, storeAddr, clientGroups, volumeGroups, broken>>
  BY DEF Meet, bufferVars, connectionVars
<1> QED BY <1>6, <1>7, <1>8, <1>9 DEF GlooTypeOK, BufferTypeOK

LEMMA GlooStep ==
  ASSUME GlooInv, GlooNext
  PROVE  GlooInv'
<1> USE DEF connectionVars, transferVars, bufferVars
<1>0. /\ GlooTypeOK
      /\ \A q \in Request : rpc[q] = "handshake" => group[q] = q
      /\ phase \in [Request -> Phase] /\ rpc \in [Request -> Rpc]
  BY DEF GlooInv, GlooTypeOK, BufferTypeOK
<1>m. ASSUME NEW r \in Request, NEW p \in Phase, NEW m \in Rpc \ {"handshake"},
             Goto(r, p, m), kind' = kind, group' = group, took' = took,
             storeAddr' \in Request \cup {NoRequest},
             clientGroups' \subseteq Request, UNCHANGED <<volumeGroups, broken>>,
             task' \in [Request -> Operation], UNCHANGED <<serving, wire>>
      PROVE  GlooInv'
  <2>1. phase' \in [Request -> Phase] /\ rpc' \in [Request -> Rpc]
    BY <1>0, <1>m DEF Goto
  <2>2. \A q \in Request : rpc'[q] = "handshake" => rpc[q] = "handshake"
    BY <1>0, <1>m DEF Goto
  <2> QED BY <1>0, <1>m, <2>1, <2>2 DEF GlooInv, GlooTypeOK, BufferTypeOK
<1>v. ASSUME NEW r \in Request, NEW m \in Rpc \ {"handshake"},
             Reply(r, m), kind' = kind, group' = group, took' = took,
             UNCHANGED <<storeAddr, clientGroups, broken, task, wire>>,
             volumeGroups' \subseteq Request, serving' \in [Request -> Operation]
      PROVE  GlooInv'
  <2>1. phase' \in [Request -> Phase] /\ rpc' \in [Request -> Rpc]
    BY <1>0, <1>v DEF Reply
  <2>2. \A q \in Request : rpc'[q] = "handshake" => rpc[q] = "handshake"
    BY <1>0, <1>v DEF Reply
  <2> QED BY <1>0, <1>v, <2>1, <2>2 DEF GlooInv, GlooTypeOK, BufferTypeOK
<1>t. /\ storeAddr \in Request \cup {NoRequest}
      /\ clientGroups \subseteq Request /\ volumeGroups \subseteq Request
      /\ task \in [Request -> Operation] /\ serving \in [Request -> Operation]
      /\ kind \in [Request -> Kind] /\ group \in [Request -> Request \cup {NoRequest}]
  BY <1>0 DEF GlooTypeOK
<1>p. /\ {"hook", "data", "done", "raised", "handshake"} \subseteq Phase
      /\ {"none", "data", "ok", "error", "serving"} \subseteq Rpc \ {"handshake"}
      /\ "handshake" \in Rpc
  BY DEF Phase, Rpc
<1>1. ASSUME NEW r \in Request, NEW k \in Kind, GlooStart(r, k) PROVE GlooInv'
  <2>1. /\ UNCHANGED <<storeAddr, clientGroups, volumeGroups, broken, task,
                       serving, wire, took>>
        /\ kind' = [kind EXCEPT ![r] = k]
    BY <1>1 DEF GlooStart
  <2>2. kind' \in [Request -> Kind]
    BY <1>t, <2>1
  <2>3. PICK p \in Phase, m \in Rpc, g \in Request \cup {NoRequest} :
          /\ Goto(r, p, m) /\ group' = [group EXCEPT ![r] = g]
          /\ m = "handshake" => g = r
    <3>1. CASE storeAddr = NoRequest
      BY <1>1, <1>p, <3>1 DEF GlooStart
    <3>2. CASE storeAddr # NoRequest
      BY <1>1, <1>p, <1>t, <3>2 DEF GlooStart
    <3> QED BY <3>1, <3>2
  <2>4. /\ phase' \in [Request -> Phase] /\ rpc' \in [Request -> Rpc]
        /\ group' \in [Request -> Request \cup {NoRequest}]
    BY <1>0, <1>t, <2>3 DEF Goto
  <2>5. \A q \in Request : rpc'[q] = "handshake" => group'[q] = q
    BY <1>0, <1>t, <2>3 DEF Goto
  <2> QED BY <1>0, <2>1, <2>2, <2>4, <2>5 DEF GlooInv, GlooTypeOK, BufferTypeOK
<1>2. ASSUME NEW r \in Request,
             \/ GlooPostHandshake(r) \/ GlooSend(r) \/ GlooHookFails(r)
             \/ GlooReturns(r) \/ GlooHandshakeRaises(r)
      PROVE  GlooInv'
  <2>1. CASE GlooPostHandshake(r)
    BY <1>m, <1>t, <1>p, <2>1 DEF GlooPostHandshake
  <2>2. CASE GlooSend(r)
    <3>1. task' \in [Request -> Operation]
      BY <1>t, <2>2 DEF GlooSend, Operation
    <3> QED BY <1>m, <1>t, <1>p, <2>2, <3>1 DEF GlooSend
  <2>3. CASE GlooHookFails(r)
    BY <1>m, <1>t, <1>p, <2>3 DEF GlooHookFails
  <2>4. CASE GlooReturns(r)
    <3>1. (IF rpc[r] = "ok" /\ task[r] # "failed" THEN "done" ELSE "raised") \in Phase
      BY <1>p
    <3> QED BY <1>m, <1>t, <1>p, <2>4, <3>1 DEF GlooReturns
  <2>5. CASE GlooHandshakeRaises(r)
    BY <1>m, <1>t, <1>p, <2>5 DEF GlooHandshakeRaises
  <2> QED BY <1>2, <2>1, <2>2, <2>3, <2>4, <2>5
<1>3. ASSUME NEW r \in Request,
             \/ GlooCallFails(r) \/ GlooRecvHandshake(r) \/ GlooHandle(r)
             \/ GlooRefuses(r) \/ GlooServed(r)
      PROVE  GlooInv'
  <2>1. CASE GlooCallFails(r)
    BY <1>v, <1>t, <1>p, <2>1 DEF GlooCallFails, Reply
  <2>2. CASE GlooRecvHandshake(r)
    <3>1. group[r] = r
      BY <1>0, <2>2 DEF GlooRecvHandshake
    <3> QED BY <1>v, <1>t, <1>p, <2>2, <3>1 DEF GlooRecvHandshake, Reply
  <2>3. CASE GlooHandle(r)
    <3>1. serving' \in [Request -> Operation]
      BY <1>t, <2>3 DEF GlooHandle, Operation
    <3>2. \E m \in Rpc \ {"handshake"} : Reply(r, m)
      BY <1>p, <2>3 DEF GlooHandle, Reply
    <3> QED BY <1>v, <1>t, <2>3, <3>1, <3>2 DEF GlooHandle
  <2>4. CASE GlooRefuses(r)
    BY <1>v, <1>t, <1>p, <2>4 DEF GlooRefuses, Reply
  <2>5. CASE GlooServed(r)
    <3>1. \E m \in Rpc \ {"handshake"} : Reply(r, m)
      BY <1>p, <2>5 DEF GlooServed, Reply
    <3> QED BY <1>v, <1>t, <2>5, <3>1 DEF GlooServed
  <2> QED BY <1>3, <2>1, <2>2, <2>3, <2>4, <2>5
<1>4. ASSUME NEW r \in Request, ClientPosts(r) PROVE GlooInv'
  <2>1. CASE group[r] \in clientGroups \ broken
    <3>1. /\ task' = [task EXCEPT ![r] = "posted"] /\ PostOn(r, ClientLane(r))
          /\ UNCHANGED <<phase, rpc, kind, group, storeAddr, clientGroups,
                         volumeGroups, broken, serving, took>>
      BY <1>4, <2>1 DEF ClientPosts
    <3>2. task' \in [Request -> Operation]
      BY <1>t, <3>1 DEF Operation
    <3>3. CASE kind[r] \in {"put", "get"}
      <4>1. ClientLane(r) \in Lane
        BY <3>3 DEF ClientLane, Lane
      <4>2. wire' \in [Request -> [Lane -> Seq(Request)]]
        BY <1>0, <3>1, <4>1, PostTypes
      <4> QED BY <1>0, <3>1, <3>2, <4>2 DEF GlooInv, GlooTypeOK, BufferTypeOK
    <3>4. CASE kind[r] = "object"
      <4>1. ClientLane(r) \notin Lane
        BY <3>4 DEF ClientLane, Lane
      <4>2. wire' \in [Request -> [Lane -> Seq(Request)]]
        BY <1>0, <3>1, <4>1, PostsNowhere
      <4> QED BY <1>0, <3>1, <3>2, <4>2 DEF GlooInv, GlooTypeOK, BufferTypeOK
    <3> QED BY <1>t, <3>3, <3>4 DEF Kind
  <2>2. CASE group[r] \notin clientGroups \ broken
    <3>1. /\ task' = [task EXCEPT ![r] = "failed"]
          /\ UNCHANGED <<phase, rpc, kind, group, storeAddr, clientGroups,
                         volumeGroups, broken, serving, wire, took>>
      BY <1>4, <2>2 DEF ClientPosts
    <3>2. task' \in [Request -> Operation]
      BY <1>t, <3>1 DEF Operation
    <3> QED BY <1>0, <3>1, <3>2 DEF GlooInv, GlooTypeOK, BufferTypeOK
  <2> QED BY <2>1, <2>2
<1>5. ASSUME NEW r \in Request, VolumePosts(r) PROVE GlooInv'
  <2>1. CASE group[r] \notin broken
    <3>1. /\ serving' = [serving EXCEPT ![r] = "posted"] /\ PostOn(r, VolumeLane(r))
          /\ UNCHANGED <<phase, rpc, kind, group, storeAddr, clientGroups,
                         volumeGroups, broken, task, took>>
      BY <1>5, <2>1 DEF VolumePosts
    <3>2. serving' \in [Request -> Operation]
      BY <1>t, <3>1 DEF Operation
    <3>3. CASE kind[r] \in {"put", "get"}
      <4>1. VolumeLane(r) \in Lane
        BY <3>3 DEF VolumeLane, Lane
      <4>2. wire' \in [Request -> [Lane -> Seq(Request)]]
        BY <1>0, <3>1, <4>1, PostTypes
      <4> QED BY <1>0, <3>1, <3>2, <4>2 DEF GlooInv, GlooTypeOK, BufferTypeOK
    <3>4. CASE kind[r] = "object"
      <4>1. VolumeLane(r) \notin Lane
        BY <3>4 DEF VolumeLane, Lane
      <4>2. wire' \in [Request -> [Lane -> Seq(Request)]]
        BY <1>0, <3>1, <4>1, PostsNowhere
      <4> QED BY <1>0, <3>1, <3>2, <4>2 DEF GlooInv, GlooTypeOK, BufferTypeOK
    <3> QED BY <1>t, <3>3, <3>4 DEF Kind
  <2>2. CASE group[r] \in broken
    <3>1. /\ serving' = [serving EXCEPT ![r] = "failed"]
          /\ UNCHANGED <<phase, rpc, kind, group, storeAddr, clientGroups,
                         volumeGroups, broken, task, wire, took>>
      BY <1>5, <2>2 DEF VolumePosts
    <3>2. serving' \in [Request -> Operation]
      BY <1>t, <3>1 DEF Operation
    <3> QED BY <1>0, <3>1, <3>2 DEF GlooInv, GlooTypeOK, BufferTypeOK
  <2> QED BY <2>1, <2>2
<1>6. ASSUME NEW r \in Request, TimesOut(r) PROVE GlooInv'
  BY <1>0, <1>6, BrokenTypes DEF TimesOut, GlooInv, GlooTypeOK, BufferTypeOK
<1>7. ASSUME NEW r \in Request, NEW k \in {"put", "get"}, Meet(r, k) PROVE GlooInv'
  BY <1>0, <1>7, MeetTypes DEF Meet, GlooInv
<1>8. CASE NewClient
  BY <1>0, <1>8 DEF NewClient, GlooInv, GlooTypeOK, BufferTypeOK
<1>9. CASE NewVolume
  <2>1. volumeGroups \in SUBSET Request
    BY <1>0 DEF GlooTypeOK
  <2> QED BY <1>0, <1>9, <2>1, BrokenTypes DEF NewVolume, GlooInv, GlooTypeOK,
                                              BufferTypeOK
<1> QED BY <1>1, <1>2, <1>3, <1>4, <1>5, <1>6, <1>7, <1>8, <1>9 DEF GlooNext

-----------------------------------------------------------------------------
(* Shared memory *)

Record == [process : Process, operation : Operations, key : Name]

(***************************************************************************)
(* A request that has begun has a call; one that copies, and a get that    *)
(* was answered, has the segment it was told of.                           *)
(***************************************************************************)
HasSegment(r) ==
  /\ phase[r] = "new" => rpc[r] = "none"
  /\ phase[r] # "new" => call[r] \in Record
  /\ phase[r] = "copy" => rpc[r] = "none" /\ descriptor[r] \in Request
  /\ phase[r] = "data" /\ rpc[r] # "error" /\ Is(r, "put")
       => descriptor[r] \in Request
  /\ phase[r] = "data" /\ rpc[r] = "ok" /\ Is(r, "get")
       => descriptor[r] \in Request
  /\ rpc[r] \in {"handshake", "data"} => phase[r] = rpc[r]

ShmInv ==
  /\ SharedMemoryTypeOK
  /\ \A r \in Request : HasSegment(r)

LEMMA SharedMemoryInitially == BufferInit /\ SharedMemoryInit => ShmInv
  BY DEF BufferInit, SharedMemoryInit, ShmInv, SharedMemoryTypeOK, BufferTypeOK,
         HasSegment, Phase, Rpc, NoData

(* The other requests keep what they have. *)
LEMMA OthersKeepSegments ==
  ASSUME ShmInv, NEW r \in Request,
         \A q \in Request \ {r} :
           /\ phase'[q] = phase[q] /\ rpc'[q] = rpc[q]
           /\ call'[q] = call[q] /\ descriptor'[q] = descriptor[q],
         SharedMemoryTypeOK', HasSegment(r)'
  PROVE  ShmInv'
<1>1. ASSUME NEW q \in Request \ {r} PROVE HasSegment(q)'
  BY <1>1 DEF ShmInv, HasSegment, Is
<1> QED BY <1>1 DEF ShmInv

LEMMA SharedMemoryStep ==
  ASSUME ShmInv, SharedMemoryNext
  PROVE  ShmInv'
<1> PICK r \in Request :
      \/ \E c \in Process, o \in Operations, k \in Name : ShmStart(r, c, o, k)
      \/ ShmPostHandshake(r) \/ AttachForGet(r)
      \/ \E p \in Part : CopyIn(r, p) \/ CopyOut(r, p)
      \/ ShmPutReturns(r) \/ ShmDeleteReturns(r)
      \/ ShmRaises(r) \/ ShmCallFails(r)
      \/ ShmRecvHandshake(r) \/ ShmHandlePut(r) \/ ShmHandleGet(r)
      \/ ShmHandleDelete(r) \/ ShmRefuses(r)
  BY DEF SharedMemoryNext
<1>0. /\ SharedMemoryTypeOK /\ HasSegment(r) /\ NoRequest \notin Request
      /\ phase \in [Request -> Phase] /\ rpc \in [Request -> Rpc]
      /\ call \in [Request -> Record \cup {NoCall}]
      /\ stored \in [Name -> Request \cup {NoRequest}]
      /\ content \in [Request -> [Part -> Request \cup {NoRequest}]]
      /\ descriptor \in [Request -> Request \cup {NoRequest}]
      /\ mapped \subseteq Process \X Name \X Request
      /\ copied \in [Request -> SUBSET Part]
      /\ got \in [Request -> [Part -> Request \cup {NoRequest}]]
      /\ latest \in [Name -> SUBSET Request]
  BY NoRequestAssumption DEF ShmInv, SharedMemoryTypeOK, BufferTypeOK, Record
<1>p. /\ {"new", "handshake", "copy", "data", "done", "raised"} \subseteq Phase
      /\ {"none", "handshake", "data", "ok", "error"} \subseteq Rpc
  BY DEF Phase, Rpc
<1>c. phase[r] # "new" => /\ call[r] \in Record /\ call[r].process \in Process
                          /\ KeyOf(r) \in Name
  BY <1>0 DEF HasSegment, KeyOf, Record
(* A step of r that moves its coroutine and may give it a segment. *)
<1>m. ASSUME NEW p \in {"copy", "data", "done", "raised"},
             NEW m \in Rpc, Goto(r, p, m),
             phase[r] # "new", call' = call,
             stored' = stored, content' \in [Request -> [Part -> Request \cup {NoRequest}]],
             NEW s \in Request \cup {NoRequest},
             descriptor' = [descriptor EXCEPT ![r] = s],
             mapped' \subseteq Process \X Name \X Request,
             copied' \in [Request -> SUBSET Part],
             got' \in [Request -> [Part -> Request \cup {NoRequest}]],
             latest' \in [Name -> SUBSET Request],
             p = "copy" => m = "none" /\ s \in Request,
             p = "data" => m = "data" /\ (Is(r, "put") => s \in Request),
             p \in {"done", "raised"} => m = "none"
      PROVE  ShmInv'
  <2>1. /\ phase' \in [Request -> Phase] /\ rpc' \in [Request -> Rpc]
        /\ descriptor' \in [Request -> Request \cup {NoRequest}]
        /\ phase'[r] = p /\ rpc'[r] = m /\ descriptor'[r] = s
    BY <1>0, <1>m, <1>p DEF Goto
  <2>2. SharedMemoryTypeOK'
    BY <1>0, <1>m, <2>1 DEF SharedMemoryTypeOK, BufferTypeOK, Record
  <2>3. HasSegment(r)'
    BY <1>c, <1>m, <2>1 DEF HasSegment, Is
  <2>4. \A q \in Request \ {r} :
           /\ phase'[q] = phase[q] /\ rpc'[q] = rpc[q]
           /\ call'[q] = call[q] /\ descriptor'[q] = descriptor[q]
    BY <1>0, <1>m DEF Goto
  <2> QED BY <2>2, <2>3, <2>4, OthersKeepSegments
(* The volume, or the loss of a call, answers r. *)
<1>v. ASSUME NEW m \in {"ok", "error"}, Reply(r, m), phase[r] # "new",
             phase[r] # "copy",
             UNCHANGED <<call, content, mapped, copied, got, latest>>,
             stored' \in [Name -> Request \cup {NoRequest}],
             NEW s \in Request \cup {NoRequest},
             descriptor' = [descriptor EXCEPT ![r] = s],
             phase[r] = "data" /\ m = "ok" /\ ~Is(r, "delete") => s \in Request
      PROVE  ShmInv'
  <2>1. /\ phase' = phase /\ rpc' \in [Request -> Rpc] /\ rpc'[r] = m
        /\ descriptor' \in [Request -> Request \cup {NoRequest}]
        /\ descriptor'[r] = s
    BY <1>0, <1>v, <1>p DEF Reply
  <2>2. SharedMemoryTypeOK'
    BY <1>0, <1>v, <2>1 DEF SharedMemoryTypeOK, BufferTypeOK, Record
  <2>3. HasSegment(r)'
    BY <1>c, <1>v, <2>1 DEF HasSegment, Is
  <2>4. \A q \in Request \ {r} :
           /\ phase'[q] = phase[q] /\ rpc'[q] = rpc[q]
           /\ call'[q] = call[q] /\ descriptor'[q] = descriptor[q]
    BY <1>0, <1>v DEF Reply
  <2> QED BY <2>2, <2>3, <2>4, OthersKeepSegments
<1>s. descriptor[r] \in Request \cup {NoRequest}
      /\ descriptor = [descriptor EXCEPT ![r] = descriptor[r]]
  BY <1>0
<1>1. ASSUME NEW c \in Process, NEW o \in Operations, NEW k \in Name,
             ShmStart(r, c, o, k)
      PROVE  ShmInv'
  <2> DEFINE it == [process |-> c, operation |-> o, key |-> k]
  <2>1. /\ it \in Record /\ it.operation = o
        /\ call' = [call EXCEPT ![r] = it]
        /\ UNCHANGED <<stored, content, descriptor, mapped, copied, got>>
    BY <1>1 DEF ShmStart, Record, tensorVars
  <2>2. PICK m \in {"handshake", "data"} :
          Goto(r, m, m) /\ (m = "data" => o # "put")
    BY <1>1 DEF ShmStart
  <2>3. latest' \in [Name -> SUBSET Request]
    BY <1>0, <1>1 DEF ShmStart
  <2>4. /\ phase' \in [Request -> Phase] /\ rpc' \in [Request -> Rpc]
        /\ phase'[r] = m /\ rpc'[r] = m
    BY <1>0, <1>p, <2>2 DEF Goto
  <2> HIDE DEF it
  <2>5. call' \in [Request -> Record \cup {NoCall}] /\ call'[r] = it
    BY <1>0, <2>1
  <2>6. SharedMemoryTypeOK'
    BY <1>0, <2>1, <2>3, <2>4, <2>5 DEF SharedMemoryTypeOK, BufferTypeOK, Record
  <2>7. HasSegment(r)'
    BY <2>1, <2>2, <2>4, <2>5 DEF HasSegment, Is
  <2>8. \A q \in Request \ {r} :
           /\ phase'[q] = phase[q] /\ rpc'[q] = rpc[q]
           /\ call'[q] = call[q] /\ descriptor'[q] = descriptor[q]
    BY <1>0, <2>1, <2>2 DEF Goto
  <2> QED BY <2>6, <2>7, <2>8, OthersKeepSegments
<1>2. CASE ShmPostHandshake(r)
  <2> DEFINE s == IF descriptor[r] = NoRequest THEN r ELSE descriptor[r]
  <2>1. s \in Request
    BY <1>0
  <2>2. /\ phase[r] # "new" /\ UNCHANGED <<call, stored, content, copied, got, latest>>
    BY <1>2 DEF ShmPostHandshake
  <2>3. CASE s = r \/ Exists(s)
    <3>1. /\ Goto(r, "copy", "none") /\ descriptor' = [descriptor EXCEPT ![r] = s]
          /\ mapped' = mapped \cup {<<call[r].process, KeyOf(r), s>>}
      BY <1>2, <2>3 DEF ShmPostHandshake, Attached, Mapping
    <3>2. mapped' \subseteq Process \X Name \X Request
      BY <1>0, <1>c, <2>1, <2>2, <3>1
    <3> QED BY <1>0, <1>m, <1>p, <2>1, <2>2, <3>1, <3>2
  <2>4. CASE ~(s = r \/ Exists(s))
    <3>1. Goto(r, "raised", "none") /\ UNCHANGED <<descriptor, mapped>>
      BY <1>2, <2>4 DEF ShmPostHandshake
    <3> QED BY <1>0, <1>s, <1>m, <1>p, <2>2, <3>1
  <2> QED BY <2>3, <2>4
<1>3. CASE AttachForGet(r)
  <2>1. /\ phase[r] # "new" /\ UNCHANGED <<call, stored, content, copied, got, latest>>
        /\ descriptor[r] \in Request
    BY <1>0, <1>3 DEF AttachForGet, HasSegment
  <2>2. CASE Exists(descriptor[r])
    <3>1. /\ Goto(r, "copy", "none")
          /\ descriptor' = [descriptor EXCEPT ![r] = descriptor[r]]
          /\ mapped' = mapped \cup {<<call[r].process, KeyOf(r), descriptor[r]>>}
      BY <1>3, <2>2 DEF AttachForGet, Attached, Mapping
    <3>2. mapped' \subseteq Process \X Name \X Request
      BY <1>0, <1>c, <2>1, <3>1
    <3> QED BY <1>0, <1>m, <1>p, <2>1, <3>1, <3>2
  <2>3. CASE ~Exists(descriptor[r])
    <3>1. Goto(r, "raised", "none") /\ UNCHANGED <<descriptor, mapped>>
      BY <1>3, <2>3 DEF AttachForGet
    <3> QED BY <1>0, <1>s, <1>m, <1>p, <2>1, <3>1
  <2> QED BY <2>2, <2>3
(* A copy that is not the last leaves r where it is. *)
<1>4. ASSUME NEW p \in Part, CopyIn(r, p) PROVE ShmInv'
  <2>1. /\ phase[r] = "copy" /\ rpc[r] = "none" /\ descriptor[r] \in Request
        /\ UNCHANGED <<call, stored, descriptor, mapped, got, latest>>
    BY <1>0, <1>4 DEF CopyIn, HasSegment
  <2>2. content' \in [Request -> [Part -> Request \cup {NoRequest}]]
    <3>1. content[descriptor[r]] \in [Part -> Request \cup {NoRequest}]
      BY <1>0, <2>1
    <3>2. [content[descriptor[r]] EXCEPT ![p] = r] \in [Part -> Request \cup {NoRequest}]
      BY <3>1
    <3>3. content' = [content EXCEPT ![descriptor[r]] =
                        [content[descriptor[r]] EXCEPT ![p] = r]]
      BY <1>4 DEF CopyIn
    <3> QED BY <1>0, <2>1, <3>2, <3>3
  <2>3. copied' \in [Request -> SUBSET Part]
    BY <1>0, <1>4 DEF CopyIn
  <2>4. PICK q \in {"copy", "data"}, m \in {"none", "data"} :
          Goto(r, q, m) /\ (q = "copy" <=> m = "none")
    <3>1. CASE copied[r] \cup {p} = Part
      BY <1>4, <3>1 DEF CopyIn, SendsWhenCopied
    <3>2. CASE copied[r] \cup {p} # Part
      <4>1. phase' = phase /\ rpc' = rpc
        BY <1>4, <3>2 DEF CopyIn, SendsWhenCopied
      <4>2. Goto(r, "copy", "none")
        BY <1>0, <2>1, <4>1 DEF Goto
      <4> QED BY <4>2
    <3> QED BY <3>1, <3>2
  <2> QED BY <1>0, <1>s, <1>m, <1>p, <2>1, <2>2, <2>3, <2>4
<1>5. ASSUME NEW p \in Part, CopyOut(r, p) PROVE ShmInv'
  <2>1. /\ phase[r] = "copy" /\ rpc[r] = "none" /\ descriptor[r] \in Request
        /\ UNCHANGED <<call, stored, content, descriptor, mapped, latest>>
    BY <1>0, <1>5 DEF CopyOut, HasSegment
  <2>2. got' \in [Request -> [Part -> Request \cup {NoRequest}]]
    <3>1. /\ content[descriptor[r]][p] \in Request \cup {NoRequest}
          /\ got[r] \in [Part -> Request \cup {NoRequest}]
      BY <1>0, <2>1
    <3>2. [got[r] EXCEPT ![p] = content[descriptor[r]][p]]
            \in [Part -> Request \cup {NoRequest}]
      BY <3>1
    <3>3. got' = [got EXCEPT ![r] = [got[r] EXCEPT ![p] = content[descriptor[r]][p]]]
      BY <1>5 DEF CopyOut
    <3> QED BY <1>0, <3>2, <3>3
  <2>3. copied' \in [Request -> SUBSET Part]
    BY <1>0, <1>5 DEF CopyOut
  <2>4. PICK q \in {"copy", "done"} : Goto(r, q, "none")
    <3>1. CASE copied[r] \cup {p} = Part
      BY <1>5, <3>1 DEF CopyOut
    <3>2. CASE copied[r] \cup {p} # Part
      <4>1. phase' = phase /\ rpc' = rpc
        BY <1>5, <3>2 DEF CopyOut
      <4>2. Goto(r, "copy", "none")
        BY <1>0, <2>1, <4>1 DEF Goto
      <4> QED BY <4>2
    <3> QED BY <3>1, <3>2
  <2> QED BY <1>0, <1>s, <1>m, <1>p, <2>1, <2>2, <2>3, <2>4
<1>6. CASE ShmPutReturns(r)
  <2>1. latest' \in [Name -> SUBSET Request]
    BY <1>0, <1>6 DEF ShmPutReturns
  <2> QED BY <1>0, <1>s, <1>m, <1>p, <1>6, <2>1 DEF ShmPutReturns, tensorVars
<1>7. CASE ShmDeleteReturns(r)
  <2>1. /\ latest' \in [Name -> SUBSET Request]
        /\ mapped' \subseteq Process \X Name \X Request
    BY <1>0, <1>7 DEF ShmDeleteReturns
  <2> QED BY <1>0, <1>s, <1>m, <1>p, <1>7, <2>1 DEF ShmDeleteReturns
<1>8. CASE ShmRaises(r)
  BY <1>0, <1>s, <1>m, <1>p, <1>8 DEF ShmRaises, tensorVars, Active
<1>9. CASE ShmCallFails(r) \/ ShmRefuses(r)
  <2>1. /\ Reply(r, "error") /\ rpc[r] \in Unhandled \cup {"ok"}
        /\ UNCHANGED <<call, stored, content, descriptor, mapped, copied, got, latest>>
    BY <1>9 DEF ShmCallFails, ShmRefuses, tensorVars
  <2>2. phase[r] # "new" /\ phase[r] # "copy"
    BY <1>0, <2>1 DEF HasSegment, Unhandled
  <2> QED BY <1>0, <1>s, <1>v, <2>1, <2>2
<1>10. CASE ShmRecvHandshake(r)
  <2>1. /\ Reply(r, "ok") /\ phase[r] = "handshake"
        /\ UNCHANGED <<call, stored, content, mapped, copied, got, latest>>
        /\ descriptor' = [descriptor EXCEPT ![r] = stored[KeyOf(r)]]
    BY <1>0, <1>10 DEF ShmRecvHandshake, HasSegment
  <2>2. stored[KeyOf(r)] \in Request \cup {NoRequest}
    BY <1>0, <1>c, <2>1
  <2> QED BY <1>0, <1>v, <2>1, <2>2
<1>11. CASE ShmHandlePut(r)
  <2>1. /\ phase[r] = "data" /\ descriptor[r] \in Request
        /\ UNCHANGED <<call, content, descriptor, mapped, copied, got, latest>>
    BY <1>0, <1>11 DEF ShmHandlePut, HasSegment
  <2>2. PICK m \in {"ok", "error"} : Reply(r, m)
    BY <1>11 DEF ShmHandlePut
  <2>3. stored' \in [Name -> Request \cup {NoRequest}]
    BY <1>0, <1>11, <2>1 DEF ShmHandlePut
  <2> QED BY <1>0, <1>s, <1>v, <2>1, <2>2, <2>3
<1>12. CASE ShmHandleGet(r)
  <2>1. /\ phase[r] = "data"
        /\ UNCHANGED <<call, stored, content, mapped, copied, got, latest>>
        /\ descriptor' = [descriptor EXCEPT ![r] = stored[KeyOf(r)]]
        /\ stored[KeyOf(r)] \in Request \cup {NoRequest}
    BY <1>0, <1>c, <1>12 DEF ShmHandleGet, HasSegment
  <2>2. PICK m \in {"ok", "error"} :
          Reply(r, m) /\ (m = "ok" => stored[KeyOf(r)] # NoRequest)
    BY <1>12 DEF ShmHandleGet
  <2> QED BY <1>0, <1>v, <2>1, <2>2
<1>13. CASE ShmHandleDelete(r)
  <2>1. /\ phase[r] = "data" /\ Is(r, "delete")
        /\ UNCHANGED <<call, content, descriptor, mapped, copied, got, latest>>
    BY <1>0, <1>13 DEF ShmHandleDelete, HasSegment
  <2>2. PICK m \in {"ok", "error"} : Reply(r, m)
    BY <1>13 DEF ShmHandleDelete
  <2>3. stored' \in [Name -> Request \cup {NoRequest}]
    BY <1>0, <1>13 DEF ShmHandleDelete
  <2> QED BY <1>0, <1>s, <1>v, <2>1, <2>2, <2>3
<1> QED BY <1>1, <1>2, <1>3, <1>4, <1>5, <1>6, <1>7, <1>8, <1>9, <1>10, <1>11,
           <1>12, <1>13

-----------------------------------------------------------------------------
(* The transports together *)

(***************************************************************************)
(* The transport in use keeps its own invariant, and the caches of the     *)
(* others stay as they were made.                                          *)
(***************************************************************************)
TransportsInv ==
  /\ transport \in TransportType \cup {"refused"}
  /\ BufferTypeOK
  /\ transport = "TorchComms" => HandshakeInv
  /\ transport = "Gloo" => GlooInv
  /\ transport = "SharedMemory" => ShmInv
  /\ transport = "NIXL" => NixlInv
  /\ transport # "TorchComms" => UniflowInit
  /\ transport # "Gloo" => GlooInit
  /\ transport # "SharedMemory" => SharedMemoryInit
  /\ transport # "NIXL" => NixlInit

(* Where a request waits for another that makes the same connection. *)
PairsTogether == transport = "TorchComms" => PairInv

LEMMA InitiallyTyped == BufferInit => BufferTypeOK
  BY DEF BufferInit, BufferTypeOK, Phase, Rpc

LEMMA CreatedIsATransport ==
  ASSUME NEW offer \in SUBSET { Preferred[i] : i \in DOMAIN Preferred },
         NEW default \in TransportType \cup {"Unset"}
  PROVE  Created(default, offer) \in TransportType \cup {"refused"}
<1> DEFINE usable == { i \in DOMAIN Preferred : Preferred[i] \in offer }
<1>1. DOMAIN Preferred = 1..5 /\ \A i \in 1..5 : Preferred[i] \in TransportType
  BY DEF Preferred, TransportType
<1>2. usable \subseteq 1..5
  BY <1>1
<1>3. usable # {} => \E i \in usable : \A j \in usable : i <= j
  <2> HIDE DEF usable
  <2>1. \A j \in usable : j = 1 \/ j = 2 \/ j = 3 \/ j = 4 \/ j = 5
    BY <1>2
  <2>2. CASE 1 \in usable
    BY <2>1, <2>2
  <2>3. CASE 1 \notin usable /\ 2 \in usable
    BY <2>1, <2>3
  <2>4. CASE 1 \notin usable /\ 2 \notin usable /\ 3 \in usable
    BY <2>1, <2>4
  <2>5. CASE 1 \notin usable /\ 2 \notin usable /\ 3 \notin usable
    BY <2>1, <2>5
  <2> QED BY <2>2, <2>3, <2>4, <2>5
<1>4. usable # {} =>
        (CHOOSE i \in usable : \A j \in usable : i <= j) \in usable
  BY <1>3
<1>5. AvailableTransport(offer) \in TransportType
  <2>1. CASE usable = {}
    BY <2>1 DEF AvailableTransport, TransportType
  <2>2. CASE usable # {}
    BY <1>1, <1>2, <1>4, <2>2 DEF AvailableTransport
  <2> QED BY <2>1, <2>2
<1> QED BY <1>5 DEF Created

LEMMA TransportsInitially == Init => TransportsInv
<1> SUFFICES ASSUME Init PROVE TransportsInv
  OBVIOUS
<1>1. transport \in TransportType \cup {"refused"}
  BY CreatedIsATransport DEF Init
<1> QED BY <1>1, InitiallyTyped, UniflowInitially, GlooInitially,
           SharedMemoryInitially, NixlInitially DEF Init, TransportsInv

LEMMA TransportsStep ==
  TransportsInv /\ [Next]_<<transportVars, transport>> => TransportsInv'
<1> SUFFICES ASSUME TransportsInv, [Next]_<<transportVars, transport>>
             PROVE  TransportsInv'
  OBVIOUS
<1>1. CASE UNCHANGED <<transportVars, transport>>
  <2> USE <1>1 DEF transportVars
  <2>1. /\ UniflowInit => UniflowInit'
        /\ GlooInit => GlooInit'
        /\ SharedMemoryInit => SharedMemoryInit'
        /\ NixlInit => NixlInit'
    BY DEF endVars, connectionVars, transferVars, tensorVars, memoryVars,
           UniflowInit, GlooInit, SharedMemoryInit, NixlInit
  <2>2. BufferTypeOK => BufferTypeOK'
    BY DEF bufferVars, BufferTypeOK
  <2>3. HandshakeInv => HandshakeInv'
    BY DEF bufferVars, endVars, HandshakeInv, UniflowTypeOK, BufferTypeOK, InOrder,
           HandshakeIsKept, Prepared, Clear
  <2>4. GlooInv => GlooInv'
    BY DEF bufferVars, connectionVars, transferVars, GlooInv, GlooTypeOK,
           BufferTypeOK
  <2>5. ShmInv => ShmInv'
    BY DEF bufferVars, tensorVars, ShmInv, SharedMemoryTypeOK, BufferTypeOK,
           HasSegment, Is
  <2>6. NixlInv => NixlInv'
    BY DEF bufferVars, memoryVars, NixlInv, NixlTypeOK, BufferTypeOK, HeldInTurn,
           MemoryIsHeld, IsActive
  <2> QED BY <2>1, <2>2, <2>3, <2>4, <2>5, <2>6 DEF TransportsInv
<1>2. CASE /\ transport = "TorchComms" /\ transport' = transport /\ UniflowNext
           /\ UNCHANGED <<kind, group, connectionVars, transferVars, call,
                          tensorVars, latest, memoryVars>>
  <2>1. HandshakeInv' /\ BufferTypeOK'
    BY <1>2, HandshakeStep DEF TransportsInv, HandshakeInv, UniflowTypeOK
  <2>2. GlooInit' /\ SharedMemoryInit' /\ NixlInit'
    BY <1>2 DEF TransportsInv, connectionVars, transferVars, tensorVars, memoryVars,
                GlooInit, SharedMemoryInit, NixlInit
  <2> QED BY <1>2, <2>1, <2>2 DEF TransportsInv
<1>3. CASE /\ transport = "Gloo" /\ transport' = transport /\ GlooNext
           /\ UNCHANGED <<endVars, call, tensorVars, latest, memoryVars>>
  <2>1. GlooInv' /\ BufferTypeOK'
    BY <1>3, GlooStep DEF TransportsInv, GlooInv, GlooTypeOK
  <2>2. UniflowInit' /\ SharedMemoryInit' /\ NixlInit'
    BY <1>3 DEF TransportsInv, endVars, tensorVars, memoryVars,
                UniflowInit, SharedMemoryInit, NixlInit
  <2> QED BY <1>3, <2>1, <2>2 DEF TransportsInv
<1>4. CASE /\ transport = "SharedMemory" /\ transport' = transport
           /\ SharedMemoryNext
           /\ UNCHANGED <<endVars, kind, group, connectionVars, transferVars,
                          memoryVars>>
  <2>1. ShmInv' /\ BufferTypeOK'
    BY <1>4, SharedMemoryStep DEF TransportsInv, ShmInv, SharedMemoryTypeOK
  <2>2. UniflowInit' /\ GlooInit' /\ NixlInit'
    BY <1>4 DEF TransportsInv, endVars, connectionVars, transferVars, memoryVars,
                UniflowInit, GlooInit, NixlInit
  <2> QED BY <1>4, <2>1, <2>2 DEF TransportsInv
<1>5. CASE /\ transport = "NIXL" /\ transport' = transport /\ NixlNext
           /\ UNCHANGED <<endVars, kind, group, connectionVars, transferVars,
                          call, tensorVars, latest>>
  <2>1. NixlInv' /\ BufferTypeOK'
    BY <1>5, NixlStep DEF TransportsInv, NixlInv, NixlTypeOK
  <2>2. UniflowInit' /\ GlooInit' /\ SharedMemoryInit'
    BY <1>5 DEF TransportsInv, endVars, connectionVars, transferVars, tensorVars,
                UniflowInit, GlooInit, SharedMemoryInit
  <2> QED BY <1>5, <2>1, <2>2 DEF TransportsInv
<1> QED BY <1>1, <1>2, <1>3, <1>4, <1>5 DEF Next

THEOREM TransportsInvariant == Spec => []TransportsInv
  BY TransportsInitially, TransportsStep, PTL DEF Spec

LEMMA PairsTogetherInitially == Init => PairsTogether
  BY PairsInitially DEF Init, PairsTogether

LEMMA PairsTogetherStep ==
  ~Crossing /\ PairsTogether /\ [Next]_<<transportVars, transport>> => PairsTogether'
<1> SUFFICES ASSUME ~Crossing, PairsTogether, [Next]_<<transportVars, transport>>,
                    transport' = "TorchComms"
             PROVE  PairInv'
  BY DEF PairsTogether
<1>1. CASE UNCHANGED <<transportVars, transport>>
  <2>1. UNCHANGED <<phase, rpc, devices, connections, transports,
                    volumeTransports, handshakes>>
    BY <1>1 DEF transportVars, bufferVars, endVars
  <2>2. PairInv
    BY <1>1 DEF PairsTogether
  <2> QED BY <2>1, <2>2
          DEF PairInv, HandshakeInv, UniflowTypeOK, BufferTypeOK, InOrder,
              HandshakeIsKept, Prepared, Clear, OneConnects, ConnectsMissing, Active,
              PublishedPairsMeet
<1>2. CASE Next
  <2>1. transport = "TorchComms" /\ UniflowNext
    BY <1>2 DEF Next
  <2> QED BY <2>1, PairStep DEF PairsTogether
<1> QED BY <1>1, <1>2

THEOREM PairsInvariant == ~Crossing => (Spec => []PairsTogether)
<1> SUFFICES ASSUME ~Crossing PROVE Spec => []PairsTogether
  OBVIOUS
<1>1. PairsTogether /\ [Next]_<<transportVars, transport>> => PairsTogether'
  BY PairsTogetherStep
<1> QED BY <1>1, PairsTogetherInitially, PTL DEF Spec

-----------------------------------------------------------------------------
(***************************************************************************)
(* Whatever transport a process picks, the buffers, caches, groups,        *)
(* segments and registrations hold values of their types.                  *)
(***************************************************************************)
THEOREM TransportsTypeCorrect == Spec => []TransportsTypeOK
<1>1. TransportsInv => TransportsTypeOK
  <2> SUFFICES ASSUME TransportsInv PROVE TransportsTypeOK
    OBVIOUS
  <2>1. UniflowTypeOK
    BY DEF TransportsInv, HandshakeInv, UniflowInit, UniflowTypeOK
  <2>2. GlooTypeOK
    <3>1. BufferTypeOK /\ GlooInit => GlooTypeOK
      <4>1. [l \in Lane |-> <<>>] \in [Lane -> Seq(Request)]
        OBVIOUS
      <4> QED BY <4>1 DEF GlooInit, GlooTypeOK, Kind, Operation
    <3> QED BY <3>1 DEF TransportsInv, GlooInv
  <2>3. SharedMemoryTypeOK
    BY DEF TransportsInv, ShmInv, SharedMemoryInit, SharedMemoryTypeOK, NoData
  <2>4. NixlTypeOK
    <3>1. BufferTypeOK /\ NixlInit => NixlTypeOK
      BY DEF NixlInit, NixlTypeOK
    <3> QED BY <3>1 DEF TransportsInv, NixlInv
  <2> QED BY <2>1, <2>2, <2>3, <2>4 DEF TransportsInv, TransportsTypeOK
<1> QED BY <1>1, TransportsInvariant, PTL

(***************************************************************************)
(* The volume keeps an unpromoted end of a connection only for a request   *)
(* that is under way, was cancelled, or whose abort was lost, for any      *)
(* number of requests and devices, any failures, and also while requests   *)
(* connect the same device at once (UniflowCache._handshake_transports).   *)
(***************************************************************************)
THEOREM HandshakesOwned == Spec => []HandshakesAreOwned
<1>1. TransportsInv => HandshakesAreOwned
  <2> SUFFICES ASSUME TransportsInv, NEW h \in handshakes
               PROVE  phase[h[1]] \notin {"new", "done", "raised"}
    BY DEF HandshakesAreOwned
  <2>1. HandshakeInv
    BY DEF TransportsInv, UniflowInit
  <2>2. PICK r \in Request, d \in Device : h = <<r, d>>
    BY <2>1 DEF HandshakeInv, UniflowTypeOK
  <2>3. HandshakeIsKept(r)
    BY <2>1 DEF HandshakeInv
  <2> QED BY <2>2, <2>3 DEF HandshakeIsKept, Clear
<1> QED BY <1>1, TransportsInvariant, PTL

(***************************************************************************)
(* When no request connects a device that another one is connecting, the   *)
(* connections that the two Uniflow caches keep pair up on every device,   *)
(* whatever failed, was aborted or was cancelled before.                   *)
(***************************************************************************)
THEOREM PairsMeet == ~Crossing => (Spec => []PublishedPairsMeet)
<1>1. TransportsInv /\ PairsTogether => PublishedPairsMeet
  BY DEF TransportsInv, PairsTogether, PairInv, UniflowInit, PublishedPairsMeet
<1> QED BY <1>1, TransportsInvariant, PairsInvariant, PTL

(***************************************************************************)
(* Under the same condition every data RPC finds, on the volume, the other *)
(* ends of the connections that its client uses.                           *)
(***************************************************************************)
THEOREM TransfersAlwaysReach == ~Crossing => (Spec => []TransfersReach)
<1>1. TransportsInv /\ PairsTogether => TransfersReach
  <2> SUFFICES ASSUME TransportsInv, PairsTogether PROVE TransfersReach
    OBVIOUS
  <2>1. CASE transport = "TorchComms"
    BY <2>1, ServedReach DEF PairsTogether
  <2>2. CASE transport # "TorchComms"
    BY <2>2 DEF TransportsInv, UniflowInit, TransfersReach, Reaches
  <2> QED BY <2>1, <2>2
<1> QED BY <1>1, TransportsInvariant, PairsInvariant, PTL

(***************************************************************************)
(* While NIXL moves the data of a request whose client waits, both ends    *)
(* and the metadata for them are in place, for any number of requests,     *)
(* groups and failures, when requests do not overlap.                      *)
(***************************************************************************)
THEOREM ActiveHeld == ~Concurrent => (Spec => []ActiveIsHeld)
<1> SUFFICES ASSUME ~Concurrent PROVE Spec => []ActiveIsHeld
  OBVIOUS
<1>1. TransportsInv => ActiveIsHeld
  BY HeldIsActive DEF TransportsInv, NixlInit, ActiveIsHeld, IsActive
<1> QED BY <1>1, TransportsInvariant, PTL

-----------------------------------------------------------------------------
(* Whose tensor a Gloo request gets                                        *)

(* Where a request is when it has an end of a transfer.                    *)
Placed(r) ==
  /\ phase[r] \in {"new", "handshake", "hook"} =>
       task[r] = "none" /\ serving[r] = "none"
  /\ rpc[r] = "handshake" => phase[r] = "handshake"
  /\ rpc[r] \in {"data", "serving"} => phase[r] = "data"
  /\ rpc[r] = "data" => serving[r] = "none"
  /\ phase[r] = "data" /\ kind[r] # "object" => task[r] # "none"
  /\ task[r] # "none" \/ serving[r] # "none" => kind[r] # "object"
  /\ task[r] \in {"started", "posted"} =>
       phase[r] = "data" \/ (kind[r] = "get" /\ phase[r] = "raised")
  /\ serving[r] \in {"started", "posted"} => rpc[r] = "serving"

(* Where it has got a tensor that it still uses, the tensor is its own.    *)
Owns(r) ==
  /\ kind[r] = "get" /\ phase[r] = "done" => task[r] = "met"
  /\ kind[r] = "get" /\ task[r] = "met" /\ phase[r] # "raised" => took[r] = r
  /\ kind[r] = "put" /\ serving[r] = "met" => took[r] = r

OnePerKind ==
  \A q, r \in Request : Active(q) /\ Active(r) /\ kind[q] = kind[r] => q = r

(* What is posted on a group and not yet met.                              *)
Queued ==
  \A g \in Request : \A l \in Lane : \A i \in DOMAIN wire[g][l] :
    LET r == wire[g][l][i]
    IN  /\ group[r] = g /\ kind[r] = l[1]
        /\ l = ClientLane(r) => task[r] = "posted"
        /\ l = VolumeLane(r) => serving[r] = "posted"

PostedOnce ==
  \A g \in Request : \A l \in Lane : \A i, j \in DOMAIN wire[g][l] :
    wire[g][l][i] = wire[g][l][j] => i = j

OwnInv ==
  /\ OnePerKind /\ Queued /\ PostedOnce
  /\ \A r \in Request : Placed(r) /\ Owns(r)

LEMMA OwnInitially == BufferInit /\ GlooInit => OwnInv
<1> SUFFICES ASSUME BufferInit, GlooInit PROVE OwnInv
  OBVIOUS
<1>1. \A r \in Request : /\ phase[r] = "new" /\ rpc[r] = "none" /\ kind[r] = "object"
                         /\ task[r] = "none" /\ serving[r] = "none"
  BY DEF BufferInit, GlooInit
<1>2. \A r \in Request : Placed(r) /\ Owns(r) /\ ~Active(r)
  BY <1>1 DEF Placed, Owns, Active
<1>3. \A g \in Request : \A l \in Lane : wire[g][l] = <<>>
  BY DEF GlooInit
<1>4. Queued /\ PostedOnce
  BY <1>3 DEF Queued, PostedOnce
<1> QED BY <1>2, <1>4 DEF OwnInv, OnePerKind

(* A request whose lane is known is posted at one of its two ends.         *)
LEMMA LaneIsOfAnEnd ==
  ASSUME NEW l \in Lane, NEW r, kind[r] = l[1]
  PROVE  l = ClientLane(r) \/ l = VolumeLane(r)
BY DEF Lane, ClientLane, VolumeLane

(* What is posted stays posted when nothing posts or meets.                *)
LEMMA QueuesStay ==
  ASSUME Queued, PostedOnce, GlooTypeOK, wire' = wire,
         \A r \in Request : task[r] = "posted" \/ serving[r] = "posted" =>
           kind'[r] = kind[r] /\ group'[r] = group[r],
         \A r \in Request : task[r] = "posted" => task'[r] = "posted",
         \A r \in Request : serving[r] = "posted" => serving'[r] = "posted"
  PROVE  Queued' /\ PostedOnce'
<1>1. PostedOnce'
  BY DEF PostedOnce
<1>2. ASSUME NEW g \in Request, NEW l \in Lane, NEW i \in DOMAIN wire[g][l],
             NEW r, r = wire[g][l][i]
      PROVE  /\ group'[r] = g /\ kind'[r] = l[1]
             /\ l = ClientLane(r)' => task'[r] = "posted"
             /\ l = VolumeLane(r)' => serving'[r] = "posted"
  <2>1. r \in Request
    <3>1. wire[g][l] \in Seq(Request)
      BY DEF GlooTypeOK
    <3> QED BY <1>2, <3>1
  <2>2. /\ group[r] = g /\ kind[r] = l[1]
        /\ l = ClientLane(r) => task[r] = "posted"
        /\ l = VolumeLane(r) => serving[r] = "posted"
    BY <1>2 DEF Queued
  <2>3. task[r] = "posted" \/ serving[r] = "posted"
    BY <2>2, LaneIsOfAnEnd
  <2>4. kind'[r] = kind[r] /\ group'[r] = group[r]
    BY <2>1, <2>3
  <2>5. ClientLane(r)' = ClientLane(r) /\ VolumeLane(r)' = VolumeLane(r)
    BY <2>4 DEF ClientLane, VolumeLane
  <2> QED BY <2>1, <2>2, <2>4, <2>5
<1>3. Queued'
  BY <1>2 DEF Queued
<1> QED BY <1>1, <1>3

(* A step of one request that posts nothing and meets nothing.             *)
LEMMA OneMoves ==
  ASSUME OwnInv, GlooTypeOK, NEW r \in Request, wire' = wire,
         \A q \in Request \ {r} :
           /\ phase'[q] = phase[q] /\ rpc'[q] = rpc[q]
           /\ kind'[q] = kind[q] /\ group'[q] = group[q]
           /\ task'[q] = task[q] /\ serving'[q] = serving[q] /\ took'[q] = took[q],
         (kind'[r] = kind[r] /\ group'[r] = group[r]) \/ phase[r] = "new",
         task[r] = "posted" => task'[r] = "posted",
         serving[r] = "posted" => serving'[r] = "posted",
         \/ kind'[r] = kind[r] /\ (Active(r)' => Active(r))
         \/ \A q \in Request : Active(q) => kind[q] # kind'[r],
         Placed(r)', Owns(r)'
  PROVE  OwnInv'
<1>1. Placed(r) /\ Queued /\ PostedOnce
  BY DEF OwnInv
<1>2. \A q \in Request : task[q] = "posted" \/ serving[q] = "posted" =>
           kind'[q] = kind[q] /\ group'[q] = group[q]
  BY <1>1 DEF Placed
<1>3. Queued' /\ PostedOnce'
  BY <1>1, <1>2, QueuesStay
<1>4. ASSUME NEW q \in Request, q # r PROVE Placed(q)' /\ Owns(q)' /\ Active(q)' = Active(q)
  BY <1>4 DEF OwnInv, Placed, Owns, Active
<1>5. OnePerKind'
  <2> SUFFICES ASSUME NEW q \in Request, NEW p \in Request, Active(q)', Active(p)',
                      kind'[q] = kind'[p]
               PROVE  q = p
    BY DEF OnePerKind
  <2>1. CASE kind'[r] = kind[r] /\ (Active(r)' => Active(r))
    <3>1. Active(q) /\ Active(p) /\ kind[q] = kind[p]
      BY <1>4, <2>1
    <3> QED BY <3>1 DEF OwnInv, OnePerKind
  <2>2. CASE \A s \in Request : Active(s) => kind[s] # kind'[r]
    <3>1. CASE q # r /\ p # r
      BY <1>4, <3>1 DEF OwnInv, OnePerKind
    <3>2. CASE q = r \/ p = r
      BY <1>4, <2>2, <3>2
    <3> QED BY <3>1, <3>2
  <2> QED BY <2>1, <2>2
<1> QED BY <1>3, <1>4, <1>5 DEF OwnInv

(* A request posts on the group it has, where it was not posted before.    *)
LEMMA OnePosts ==
  ASSUME Queued, PostedOnce, GlooTypeOK, NEW r \in Request,
         group[r] \in Request, NEW lane \in Lane, kind[r] = lane[1], PostOn(r, lane),
         kind' = kind, group' = group,
         \/ /\ lane = ClientLane(r)
            /\ task[r] # "posted" /\ task' = [task EXCEPT ![r] = "posted"]
            /\ serving' = serving
         \/ /\ lane = VolumeLane(r)
            /\ serving[r] # "posted" /\ serving' = [serving EXCEPT ![r] = "posted"]
            /\ task' = task
  PROVE  Queued' /\ PostedOnce'
<1> DEFINE s == wire[group[r]][lane]
<1>1. /\ wire \in [Request -> [Lane -> Seq(Request)]] /\ s \in Seq(Request)
      /\ wire[group[r]] \in [Lane -> Seq(Request)]
      /\ task \in [Request -> Operation] /\ serving \in [Request -> Operation]
  BY DEF GlooTypeOK
<1>2. wire' = [wire EXCEPT ![group[r]] =
                [wire[group[r]] EXCEPT ![lane] = Append(s, r)]]
  BY DEF PostOn
<1>3. \A i \in DOMAIN s : s[i] # r
  <2> SUFFICES ASSUME NEW i \in DOMAIN s, s[i] = r PROVE FALSE
    OBVIOUS
  <2>1. /\ lane = ClientLane(r) => task[r] = "posted"
        /\ lane = VolumeLane(r) => serving[r] = "posted"
    BY DEF Queued
  <2> QED BY <2>1
<1> HIDE DEF s
<1>4. /\ wire'[group[r]][lane] = Append(s, r)
      /\ \A g \in Request : \A l \in Lane :
           g # group[r] \/ l # lane => wire'[g][l] = wire[g][l]
  BY <1>1, <1>2
<1>5. DOMAIN Append(s, r) = 1..(Len(s) + 1) /\ DOMAIN s = 1..Len(s) /\ Len(s) \in Nat
      /\ Append(s, r)[Len(s) + 1] = r
      /\ \A i \in 1..Len(s) : Append(s, r)[i] = s[i]
  BY <1>1
<1>6. \A q \in Request : ClientLane(q)' = ClientLane(q) /\ VolumeLane(q)' = VolumeLane(q)
  BY DEF ClientLane, VolumeLane
<1>7. \A q \in Request : /\ task[q] = "posted" => task'[q] = "posted"
                         /\ serving[q] = "posted" => serving'[q] = "posted"
  BY <1>1
<1>8. ASSUME NEW g \in Request, NEW l \in Lane, NEW i \in DOMAIN wire[g][l],
             NEW q, q = wire[g][l][i]
      PROVE  /\ q \in Request /\ group'[q] = g /\ kind'[q] = l[1]
             /\ l = ClientLane(q)' => task'[q] = "posted"
             /\ l = VolumeLane(q)' => serving'[q] = "posted"
  <2>1. q \in Request
    BY <1>1, <1>8
  <2>2. /\ group[q] = g /\ kind[q] = l[1]
        /\ l = ClientLane(q) => task[q] = "posted"
        /\ l = VolumeLane(q) => serving[q] = "posted"
    BY <1>8 DEF Queued
  <2> QED BY <1>6, <1>7, <2>1, <2>2
<1>9. /\ group'[r] = group[r] /\ kind'[r] = lane[1]
      /\ lane = ClientLane(r)' => task'[r] = "posted"
      /\ lane = VolumeLane(r)' => serving'[r] = "posted"
  <2>1. ClientLane(r) # VolumeLane(r)
    BY DEF ClientLane, VolumeLane
  <2> QED BY <1>1, <1>6, <2>1
<1>10. Queued'
  <2> SUFFICES ASSUME NEW g \in Request, NEW l \in Lane, NEW i \in DOMAIN wire'[g][l],
                      NEW q, q = wire'[g][l][i]
               PROVE  /\ group'[q] = g /\ kind'[q] = l[1]
                      /\ l = ClientLane(q)' => task'[q] = "posted"
                      /\ l = VolumeLane(q)' => serving'[q] = "posted"
    BY DEF Queued
  <2>1. CASE g # group[r] \/ l # lane
    BY <1>4, <1>8, <2>1
  <2>2. CASE g = group[r] /\ l = lane
    <3>1. wire'[g][l] = Append(s, r) /\ wire[g][l] = s
      BY <1>4, <2>2 DEF s
    <3>2. CASE i \in DOMAIN s
      BY <1>5, <1>8, <3>1, <3>2
    <3>3. CASE i \notin DOMAIN s
      BY <1>5, <1>9, <2>2, <3>1, <3>3
    <3> QED BY <3>2, <3>3
  <2> QED BY <2>1, <2>2
<1>11. PostedOnce'
  <2> SUFFICES ASSUME NEW g \in Request, NEW l \in Lane,
                      NEW i \in DOMAIN wire'[g][l], NEW j \in DOMAIN wire'[g][l],
                      wire'[g][l][i] = wire'[g][l][j]
               PROVE  i = j
    BY DEF PostedOnce
  <2>1. CASE g # group[r] \/ l # lane
    BY <1>4, <2>1 DEF PostedOnce
  <2>2. CASE g = group[r] /\ l = lane
    <3>1. wire'[g][l] = Append(s, r) /\ wire[g][l] = s
      BY <1>4, <2>2 DEF s
    <3>2. \A m, n \in DOMAIN s : s[m] = s[n] => m = n
      BY <3>1 DEF PostedOnce
    <3> QED BY <1>3, <1>5, <3>1, <3>2
  <2> QED BY <2>1, <2>2
<1> QED BY <1>10, <1>11

(* What is left behind the first of a queue was posted behind it.          *)
LEMMA TailFacts ==
  ASSUME NEW S, NEW s \in Seq(S), s # <<>>
  PROVE  /\ 1 \in DOMAIN s /\ Head(s) = s[1] /\ Head(s) \in S
         /\ \A i \in DOMAIN Tail(s) :
              i + 1 \in DOMAIN s /\ i + 1 # 1 /\ i \in Nat /\ Tail(s)[i] = s[i + 1]
OBVIOUS

LEMMA MeetsAreFirst ==
  ASSUME Queued, GlooTypeOK, NEW g \in Request, NEW k \in {"put", "get"}, Meet(g, k)
  PROVE  \E c, v \in Request :
           LET atClient == ClientLane(c)
               atVolume == VolumeLane(v)
           IN  /\ atClient \in Lane /\ atVolume \in Lane /\ atClient # atVolume
               /\ kind[c] = k /\ kind[v] = k
               /\ wire[g][atClient] # <<>> /\ Head(wire[g][atClient]) = c
               /\ wire[g][atVolume] # <<>> /\ Head(wire[g][atVolume]) = v
               /\ task[c] = "posted" /\ serving[v] = "posted"
               /\ group[c] = g /\ group[v] = g
               /\ task' = [task EXCEPT ![c] = "met"]
               /\ serving' = [serving EXCEPT ![v] = "met"]
               /\ took' = IF k = "put" THEN [took EXCEPT ![v] = c]
                                       ELSE [took EXCEPT ![c] = v]
               /\ wire' = [wire EXCEPT ![g] =
                             [wire[g] EXCEPT ![atClient] = Tail(wire[g][atClient]),
                                             ![atVolume] = Tail(wire[g][atVolume])]]
               /\ UNCHANGED <<phase, rpc, kind, group, storeAddr, clientGroups,
                              volumeGroups, broken>>
<1> DEFINE sends == wire[g][<<k, "send">>]
           receives == wire[g][<<k, "receive">>]
<1>1. /\ <<k, "send">> \in Lane /\ <<k, "receive">> \in Lane
      /\ <<k, "send">> # <<k, "receive">>
  BY DEF Lane
<1>2. wire \in [Request -> [Lane -> Seq(Request)]]
  BY DEF GlooTypeOK
<1>3. sends \in Seq(Request) /\ receives \in Seq(Request)
      /\ sends # <<>> /\ receives # <<>>
  BY <1>1, <1>2 DEF Meet
<1> HIDE DEF sends, receives
<1>4. /\ 1 \in DOMAIN sends /\ Head(sends) = sends[1] /\ Head(sends) \in Request
      /\ 1 \in DOMAIN receives /\ Head(receives) = receives[1]
      /\ Head(receives) \in Request
  BY <1>3, TailFacts
<1>5. /\ group[Head(sends)] = g /\ kind[Head(sends)] = k
      /\ <<k, "send">> = ClientLane(Head(sends)) => task[Head(sends)] = "posted"
      /\ <<k, "send">> = VolumeLane(Head(sends)) => serving[Head(sends)] = "posted"
  BY <1>1, <1>4 DEF Queued, sends
<1>6. /\ group[Head(receives)] = g /\ kind[Head(receives)] = k
      /\ <<k, "receive">> = ClientLane(Head(receives)) => task[Head(receives)] = "posted"
      /\ <<k, "receive">> = VolumeLane(Head(receives))
           => serving[Head(receives)] = "posted"
  BY <1>1, <1>4 DEF Queued, receives
<1>7. /\ wire' = [wire EXCEPT ![g][<<k, "send">>] = Tail(sends),
                              ![g][<<k, "receive">>] = Tail(receives)]
      /\ took' = [took EXCEPT ![Head(receives)] = Head(sends)]
      /\ k = "put" => /\ task' = [task EXCEPT ![Head(sends)] = "met"]
                      /\ serving' = [serving EXCEPT ![Head(receives)] = "met"]
      /\ k # "put" => /\ task' = [task EXCEPT ![Head(receives)] = "met"]
                      /\ serving' = [serving EXCEPT ![Head(sends)] = "met"]
      /\ UNCHANGED <<phase, rpc, kind, group, storeAddr, clientGroups,
                     volumeGroups, broken>>
  <2>1. wire' = [wire EXCEPT ![g][<<k, "send">>] = Tail(@),
                             ![g][<<k, "receive">>] = Tail(@)]
    BY DEF Meet
  <2>2. wire[g] \in [Lane -> Seq(Request)]
    BY <1>2
  <2> QED BY <1>1, <1>2, <2>1, <2>2 DEF Meet, sends, receives, bufferVars, connectionVars
<1>8. wire' = [wire EXCEPT ![g] = [wire[g] EXCEPT ![<<k, "send">>] = Tail(sends),
                                                  ![<<k, "receive">>] = Tail(receives)]]
  <2>1. wire[g] \in [Lane -> Seq(Request)]
    BY <1>2
  <2> QED BY <1>1, <1>2, <1>7, <2>1
<1>9. CASE k = "put"
  <2>1. /\ ClientLane(Head(sends)) = <<k, "send">>
        /\ VolumeLane(Head(receives)) = <<k, "receive">>
    BY <1>5, <1>6, <1>9 DEF ClientLane, VolumeLane
  <2> Head(sends) \in Request /\ Head(receives) \in Request
    BY <1>4
  <2> WITNESS Head(sends) \in Request, Head(receives) \in Request
  <2> QED BY <1>1, <1>3, <1>5, <1>6, <1>7, <1>8, <1>9, <2>1 DEF sends, receives
<1>10. CASE k = "get"
  <2>1. /\ ClientLane(Head(receives)) = <<k, "receive">>
        /\ VolumeLane(Head(sends)) = <<k, "send">>
    BY <1>5, <1>6, <1>10 DEF ClientLane, VolumeLane
  <2>2. wire' = [wire EXCEPT ![g] =
                   [wire[g] EXCEPT ![<<k, "receive">>] = Tail(receives),
                                   ![<<k, "send">>] = Tail(sends)]]
    <3>1. [wire[g] EXCEPT ![<<k, "receive">>] = Tail(receives),
                          ![<<k, "send">>] = Tail(sends)]
            = [wire[g] EXCEPT ![<<k, "send">>] = Tail(sends),
                              ![<<k, "receive">>] = Tail(receives)]
      BY <1>1
    <3> QED BY <1>8, <3>1
  <2> Head(sends) \in Request /\ Head(receives) \in Request
    BY <1>4
  <2> WITNESS Head(receives) \in Request, Head(sends) \in Request
  <2> QED BY <1>1, <1>3, <1>5, <1>6, <1>7, <1>10, <2>1, <2>2 DEF sends, receives
<1> QED BY <1>9, <1>10

(* The two that meet leave their queues, and were nowhere else.            *)
LEMMA MeetKeepsQueues ==
  ASSUME Queued, PostedOnce, GlooTypeOK, NEW g \in Request, NEW k \in {"put", "get"},
         Meet(g, k)
  PROVE  Queued' /\ PostedOnce'
<1>1. PICK c \in Request, v \in Request :
        LET atClient == ClientLane(c)
            atVolume == VolumeLane(v)
        IN  /\ atClient \in Lane /\ atVolume \in Lane /\ atClient # atVolume
            /\ kind[c] = k /\ kind[v] = k
            /\ wire[g][atClient] # <<>> /\ Head(wire[g][atClient]) = c
            /\ wire[g][atVolume] # <<>> /\ Head(wire[g][atVolume]) = v
            /\ task[c] = "posted" /\ serving[v] = "posted"
            /\ group[c] = g /\ group[v] = g
            /\ task' = [task EXCEPT ![c] = "met"]
            /\ serving' = [serving EXCEPT ![v] = "met"]
            /\ took' = IF k = "put" THEN [took EXCEPT ![v] = c]
                                    ELSE [took EXCEPT ![c] = v]
            /\ wire' = [wire EXCEPT ![g] =
                          [wire[g] EXCEPT ![atClient] = Tail(wire[g][atClient]),
                                          ![atVolume] = Tail(wire[g][atVolume])]]
            /\ UNCHANGED <<phase, rpc, kind, group, storeAddr, clientGroups,
                           volumeGroups, broken>>
  BY MeetsAreFirst
<1> DEFINE lc == ClientLane(c)
           lv == VolumeLane(v)
<1>2. wire \in [Request -> [Lane -> Seq(Request)]]
  BY DEF GlooTypeOK
<1>3. lc \in Lane /\ lv \in Lane /\ lc # lv
  BY <1>1
<1>4. wire[g][lc] \in Seq(Request) /\ wire[g][lv] \in Seq(Request)
      /\ wire[g] \in [Lane -> Seq(Request)]
  BY <1>2, <1>3
<1>5. /\ \A i \in DOMAIN Tail(wire[g][lc]) :
           /\ i + 1 \in DOMAIN wire[g][lc] /\ i + 1 # 1 /\ i \in Nat
           /\ Tail(wire[g][lc])[i] = wire[g][lc][i + 1]
      /\ 1 \in DOMAIN wire[g][lc] /\ wire[g][lc][1] = c
  BY <1>1, <1>4, TailFacts
<1>6. /\ \A i \in DOMAIN Tail(wire[g][lv]) :
           /\ i + 1 \in DOMAIN wire[g][lv] /\ i + 1 # 1 /\ i \in Nat
           /\ Tail(wire[g][lv])[i] = wire[g][lv][i + 1]
      /\ 1 \in DOMAIN wire[g][lv] /\ wire[g][lv][1] = v
  BY <1>1, <1>4, TailFacts
<1>7. /\ wire'[g][lc] = Tail(wire[g][lc]) /\ wire'[g][lv] = Tail(wire[g][lv])
      /\ \A h \in Request : \A l \in Lane :
           h # g \/ (l # lc /\ l # lv) => wire'[h][l] = wire[h][l]
  BY <1>1, <1>2, <1>3, <1>4
<1>8. /\ task' = [task EXCEPT ![c] = "met"] /\ serving' = [serving EXCEPT ![v] = "met"]
      /\ task \in [Request -> Operation] /\ serving \in [Request -> Operation]
      /\ kind' = kind /\ group' = group /\ group[c] = g /\ group[v] = g
      /\ kind[c] = k /\ kind[v] = k
  BY <1>1 DEF GlooTypeOK
<1>9. \A q \in Request : ClientLane(q)' = ClientLane(q) /\ VolumeLane(q)' = VolumeLane(q)
  BY <1>8 DEF ClientLane, VolumeLane
<1>10. lc = ClientLane(c) /\ lv = VolumeLane(v)
  OBVIOUS
<1> HIDE DEF lc, lv
(* Where an element of a queue was before. *)
<1>11. ASSUME NEW h \in Request, NEW l \in Lane, NEW i \in DOMAIN wire'[h][l]
       PROVE  \E j \in DOMAIN wire[h][l] :
                /\ wire'[h][l][i] = wire[h][l][j]
                /\ h = g /\ l \in {lc, lv} => j = i + 1 /\ i \in Nat /\ j # 1
                /\ ~(h = g /\ l \in {lc, lv}) => j = i
  <2>1. CASE h = g /\ l = lc
    <3>1. i \in DOMAIN Tail(wire[g][lc])
      BY <1>7, <1>11, <2>1
    <3> QED BY <1>5, <1>7, <2>1, <3>1
  <2>2. CASE h = g /\ l = lv
    <3>1. i \in DOMAIN Tail(wire[g][lv])
      BY <1>7, <1>11, <2>2
    <3> QED BY <1>6, <1>7, <2>2, <3>1
  <2>3. CASE ~(h = g /\ l \in {lc, lv})
    BY <1>7, <1>11, <2>3
  <2> QED BY <2>1, <2>2, <2>3
<1>12. PostedOnce'
  <2> SUFFICES ASSUME NEW h \in Request, NEW l \in Lane,
                      NEW i \in DOMAIN wire'[h][l], NEW j \in DOMAIN wire'[h][l],
                      wire'[h][l][i] = wire'[h][l][j]
               PROVE  i = j
    BY DEF PostedOnce
  <2>1. PICK m \in DOMAIN wire[h][l] :
          /\ wire'[h][l][i] = wire[h][l][m]
          /\ h = g /\ l \in {lc, lv} => m = i + 1 /\ i \in Nat /\ m # 1
          /\ ~(h = g /\ l \in {lc, lv}) => m = i
    BY <1>11
  <2>2. PICK n \in DOMAIN wire[h][l] :
          /\ wire'[h][l][j] = wire[h][l][n]
          /\ h = g /\ l \in {lc, lv} => n = j + 1 /\ j \in Nat /\ n # 1
          /\ ~(h = g /\ l \in {lc, lv}) => n = j
    BY <1>11
  <2>3. m = n
    BY <2>1, <2>2 DEF PostedOnce
  <2> QED BY <2>1, <2>2, <2>3
<1>13. Queued'
  <2> SUFFICES ASSUME NEW h \in Request, NEW l \in Lane, NEW i \in DOMAIN wire'[h][l],
                      NEW q, q = wire'[h][l][i]
               PROVE  /\ group'[q] = h /\ kind'[q] = l[1]
                      /\ l = ClientLane(q)' => task'[q] = "posted"
                      /\ l = VolumeLane(q)' => serving'[q] = "posted"
    BY DEF Queued
  <2>1. PICK j \in DOMAIN wire[h][l] :
          /\ q = wire[h][l][j]
          /\ h = g /\ l \in {lc, lv} => j = i + 1 /\ i \in Nat /\ j # 1
          /\ ~(h = g /\ l \in {lc, lv}) => j = i
    BY <1>11
  <2>2. /\ group[q] = h /\ kind[q] = l[1]
        /\ l = ClientLane(q) => task[q] = "posted"
        /\ l = VolumeLane(q) => serving[q] = "posted"
    BY <2>1 DEF Queued
  <2>3. q \in Request
    BY <1>2, <2>1
  <2>4. ASSUME q = c PROVE l # ClientLane(q)
    <3>1. l = ClientLane(q) => h = g /\ l = lc
      BY <1>8, <1>10, <2>2, <2>4
    <3>2. h = g /\ l = lc => j = 1
      BY <1>3, <1>5, <2>1, <2>4 DEF PostedOnce
    <3>3. ~(h = g /\ l = lc)
      BY <2>1, <3>2
    <3> QED BY <3>1, <3>3
  <2>5. ASSUME q = v PROVE l # VolumeLane(q)
    <3>1. l = VolumeLane(q) => h = g /\ l = lv
      BY <1>8, <1>10, <2>2, <2>5
    <3>2. h = g /\ l = lv => j = 1
      BY <1>3, <1>6, <2>1, <2>5 DEF PostedOnce
    <3>3. ~(h = g /\ l = lv)
      BY <2>1, <3>2
    <3> QED BY <3>1, <3>3
  <2> QED BY <1>8, <1>9, <2>2, <2>3, <2>4, <2>5
<1> QED BY <1>12, <1>13

LEMMA MeetOwns ==
  ASSUME OwnInv, GlooTypeOK, NEW g \in Request, NEW k \in {"put", "get"}, Meet(g, k)
  PROVE  OwnInv'
<1>1. PICK c \in Request, v \in Request :
        LET atClient == ClientLane(c)
            atVolume == VolumeLane(v)
        IN  /\ atClient \in Lane /\ atVolume \in Lane /\ atClient # atVolume
            /\ kind[c] = k /\ kind[v] = k
            /\ wire[g][atClient] # <<>> /\ Head(wire[g][atClient]) = c
            /\ wire[g][atVolume] # <<>> /\ Head(wire[g][atVolume]) = v
            /\ task[c] = "posted" /\ serving[v] = "posted"
            /\ group[c] = g /\ group[v] = g
            /\ task' = [task EXCEPT ![c] = "met"]
            /\ serving' = [serving EXCEPT ![v] = "met"]
            /\ took' = IF k = "put" THEN [took EXCEPT ![v] = c]
                                    ELSE [took EXCEPT ![c] = v]
            /\ wire' = [wire EXCEPT ![g] =
                          [wire[g] EXCEPT ![atClient] = Tail(wire[g][atClient]),
                                          ![atVolume] = Tail(wire[g][atVolume])]]
            /\ UNCHANGED <<phase, rpc, kind, group, storeAddr, clientGroups,
                           volumeGroups, broken>>
  BY MeetsAreFirst DEF OwnInv
<1>2. /\ kind[c] = k /\ kind[v] = k
      /\ task[c] = "posted" /\ serving[v] = "posted"
      /\ task' = [task EXCEPT ![c] = "met"]
      /\ serving' = [serving EXCEPT ![v] = "met"]
      /\ took' = IF k = "put" THEN [took EXCEPT ![v] = c] ELSE [took EXCEPT ![c] = v]
      /\ phase' = phase /\ rpc' = rpc /\ kind' = kind
  BY <1>1
<1>3. /\ task \in [Request -> Operation] /\ serving \in [Request -> Operation]
      /\ took \in [Request -> Request \cup {NoRequest}]
  BY DEF GlooTypeOK
<1>4. OnePerKind' /\ Queued' /\ PostedOnce'
  BY <1>2, MeetKeepsQueues DEF OwnInv, OnePerKind, Active
<1>5. /\ phase[v] = "data"
      /\ phase[c] = "data" \/ (k = "get" /\ phase[c] = "raised")
  BY <1>2 DEF OwnInv, Placed
<1>6. phase[c] = "data" => c = v
  BY <1>2, <1>5 DEF OwnInv, OnePerKind, Active, Ended
<1>7. ASSUME NEW q \in Request PROVE Placed(q)'
  BY <1>2, <1>3, <1>5 DEF OwnInv, Placed
<1>8. ASSUME NEW q \in Request PROVE Owns(q)'
  <2>1. Owns(q)
    BY DEF OwnInv
  <2>2. CASE k = "put"
    <3>1. c = v /\ took' = [took EXCEPT ![v] = v]
      BY <1>2, <1>5, <1>6, <2>2
    <3> QED BY <1>2, <1>3, <1>5, <2>1, <2>2, <3>1 DEF Owns
  <2>3. CASE k = "get"
    <3>1. took' = [took EXCEPT ![c] = v]
      BY <1>2, <2>3
    <3> QED BY <1>2, <1>3, <1>5, <1>6, <2>1, <2>3, <3>1 DEF Owns
  <2> QED BY <2>2, <2>3
<1> QED BY <1>4, <1>7, <1>8 DEF OwnInv

(* What fails with its group was posted there and has got nothing.         *)
LEMMA BrokenOwns ==
  ASSUME OwnInv, GlooTypeOK, NEW gs \in SUBSET Request, Broken(gs),
         UNCHANGED <<phase, rpc, kind, group>>
  PROVE  OwnInv'
<1>1. /\ wire' = [g \in Request |-> IF g \in gs THEN [l \in Lane |-> <<>>] ELSE wire[g]]
      /\ task' = FailedOn(gs, task) /\ serving' = FailedOn(gs, serving)
      /\ took' = took
  BY DEF Broken
<1>2. \A q \in Request :
        /\ task'[q] = IF group[q] \in gs /\ task[q] = "posted" THEN "failed" ELSE task[q]
        /\ serving'[q] = IF group[q] \in gs /\ serving[q] = "posted"
                         THEN "failed" ELSE serving[q]
  BY <1>1 DEF FailedOn
<1>3. ASSUME NEW q \in Request PROVE Placed(q)' /\ Owns(q)'
  BY <1>1, <1>2 DEF OwnInv, Placed, Owns
<1>4. OnePerKind'
  BY DEF OwnInv, OnePerKind, Active
<1>5. \A g \in Request : \A l \in Lane :
        /\ g \in gs => DOMAIN wire'[g][l] = {}
        /\ g \notin gs => wire'[g][l] = wire[g][l]
  BY <1>1
<1>6. PostedOnce'
  BY <1>5 DEF OwnInv, PostedOnce
<1>7. Queued'
  <2> SUFFICES ASSUME NEW g \in Request, NEW l \in Lane, NEW i \in DOMAIN wire'[g][l],
                      NEW q, q = wire'[g][l][i]
               PROVE  /\ group'[q] = g /\ kind'[q] = l[1]
                      /\ l = ClientLane(q)' => task'[q] = "posted"
                      /\ l = VolumeLane(q)' => serving'[q] = "posted"
    BY DEF Queued
  <2>1. g \notin gs /\ i \in DOMAIN wire[g][l] /\ q = wire[g][l][i]
    BY <1>5
  <2>2. wire[g][l] \in Seq(Request)
    BY DEF GlooTypeOK
  <2>3. q \in Request
    BY <2>1, <2>2
  <2>4. /\ group[q] = g /\ kind[q] = l[1]
        /\ l = ClientLane(q) => task[q] = "posted"
        /\ l = VolumeLane(q) => serving[q] = "posted"
    BY <2>1 DEF OwnInv, Queued
  <2>5. ClientLane(q)' = ClientLane(q) /\ VolumeLane(q)' = VolumeLane(q)
    BY DEF ClientLane, VolumeLane
  <2> QED BY <1>2, <2>1, <2>3, <2>4, <2>5
<1> QED BY <1>3, <1>4, <1>6, <1>7 DEF OwnInv

LEMMA OwnStep ==
  ASSUME ~Overlap, "abandon" \notin GlooFault, GlooInv, OwnInv, GlooNext
  PROVE  OwnInv'
<1> USE DEF connectionVars, transferVars, bufferVars
<1>0. /\ GlooTypeOK
      /\ phase \in [Request -> Phase] /\ rpc \in [Request -> Rpc]
      /\ kind \in [Request -> Kind] /\ group \in [Request -> Request \cup {NoRequest}]
      /\ task \in [Request -> Operation] /\ serving \in [Request -> Operation]
      /\ took \in [Request -> Request \cup {NoRequest}]
  BY DEF GlooInv, GlooTypeOK, BufferTypeOK
<1>1. ASSUME NEW r \in Request, NEW k \in Kind, GlooStart(r, k) PROVE OwnInv'
  <2>1. Placed(r) /\ phase[r] = "new" /\ \A q \in Request : Active(q) => kind[q] # k
    BY <1>1 DEF GlooStart, OwnInv
  <2>2. /\ UNCHANGED <<task, serving, took, wire>>
        /\ kind' = [kind EXCEPT ![r] = k]
        /\ \E g : group' = [group EXCEPT ![r] = g]
    BY <1>1 DEF GlooStart
  <2>3. PICK p \in {"handshake", "hook"}, m \in {"handshake", "none"} :
          Goto(r, p, m) /\ (m = "handshake" => p = "handshake")
    BY <1>1 DEF GlooStart
  <2>4. phase'[r] = p /\ rpc'[r] = m /\ kind'[r] = k
    BY <1>0, <2>2, <2>3 DEF Goto
  <2>5. Placed(r)' /\ Owns(r)'
    BY <2>1, <2>2, <2>3, <2>4 DEF Placed, Owns
  <2>6. \A q \in Request \ {r} :
           /\ phase'[q] = phase[q] /\ rpc'[q] = rpc[q]
           /\ kind'[q] = kind[q] /\ group'[q] = group[q]
           /\ task'[q] = task[q] /\ serving'[q] = serving[q] /\ took'[q] = took[q]
    BY <1>0, <2>2, <2>3 DEF Goto
  <2> QED BY <1>0, <2>1, <2>2, <2>4, <2>5, <2>6, OneMoves
(* The other steps of one request leave its kind and its group. *)
<1>m. ASSUME NEW r \in Request, UNCHANGED <<kind, group, took, wire>>,
             NEW p, NEW m, NEW t, NEW s,
             phase' = [phase EXCEPT ![r] = p], rpc' = [rpc EXCEPT ![r] = m],
             task' = [task EXCEPT ![r] = t], serving' = [serving EXCEPT ![r] = s],
             p \notin Ended \cup {"new"} => Active(r),
             task[r] = "posted" => t = "posted",
             serving[r] = "posted" => s = "posted",
             Placed(r)', Owns(r)'
      PROVE  OwnInv'
  <2>1. \A q \in Request \ {r} :
           /\ phase'[q] = phase[q] /\ rpc'[q] = rpc[q]
           /\ kind'[q] = kind[q] /\ group'[q] = group[q]
           /\ task'[q] = task[q] /\ serving'[q] = serving[q] /\ took'[q] = took[q]
    BY <1>0, <1>m
  <2>2. Active(r)' => Active(r)
    BY <1>0, <1>m DEF Active
  <2>3. task'[r] = t /\ serving'[r] = s
    BY <1>0, <1>m
  <2> QED BY <1>0, <1>m, <2>1, <2>2, <2>3, OneMoves
<1>s. \A r \in Request : /\ phase = [phase EXCEPT ![r] = phase[r]]
                         /\ rpc = [rpc EXCEPT ![r] = rpc[r]]
                         /\ task = [task EXCEPT ![r] = task[r]]
                         /\ serving = [serving EXCEPT ![r] = serving[r]]
  BY <1>0
<1>i. \A r \in Request : Placed(r) /\ Owns(r)
  BY DEF OwnInv
<1>2. ASSUME NEW r \in Request, GlooPostHandshake(r) PROVE OwnInv'
  <2>1. /\ phase[r] = "handshake" /\ phase' = [phase EXCEPT ![r] = "hook"]
        /\ rpc' = [rpc EXCEPT ![r] = "none"]
        /\ UNCHANGED <<kind, group, took, wire, task, serving>>
    BY <1>2 DEF GlooPostHandshake, Goto
  <2>2. Placed(r)' /\ Owns(r)'
    BY <1>0, <1>i, <2>1 DEF Placed, Owns
  <2> QED BY <1>m, <1>s, <2>1, <2>2 DEF Active, Ended
<1>3. ASSUME NEW r \in Request, GlooSend(r) PROVE OwnInv'
  <2> DEFINE t == IF kind[r] = "object" THEN task[r] ELSE "started"
  <2>1. /\ phase[r] = "hook" /\ phase' = [phase EXCEPT ![r] = "data"]
        /\ rpc' = [rpc EXCEPT ![r] = "data"] /\ task' = [task EXCEPT ![r] = t]
        /\ UNCHANGED <<kind, group, took, wire, serving>>
    BY <1>s, <1>3 DEF GlooSend, Goto
  <2>2. Placed(r)' /\ Owns(r)' /\ task[r] = "none"
    BY <1>0, <1>i, <2>1 DEF Placed, Owns
  <2> QED BY <1>m, <1>s, <2>1, <2>2 DEF Active, Ended
<1>4. ASSUME NEW r \in Request,
             GlooHookFails(r) \/ GlooHandshakeRaises(r) \/ GlooReturns(r)
      PROVE  OwnInv'
  <2>1. PICK p \in {"done", "raised"} :
          /\ phase' = [phase EXCEPT ![r] = p] /\ rpc' = [rpc EXCEPT ![r] = "none"]
          /\ UNCHANGED <<kind, group, took, wire, task, serving>>
          /\ phase[r] \in {"handshake", "hook", "data"}
          /\ rpc[r] # "serving" \/ phase[r] = "hook"
          /\ phase[r] = "data" =>
               \/ task[r] \in {"none", "met", "failed"}
               \/ kind[r] = "get" /\ p = "raised"
          /\ p = "done" => phase[r] = "data" /\ task[r] \in {"none", "met"}
    <3>1. CASE GlooHookFails(r) \/ GlooHandshakeRaises(r)
      BY <3>1 DEF GlooHookFails, GlooHandshakeRaises, Goto
    <3>2. CASE GlooReturns(r)
      BY <3>2 DEF GlooReturns, Goto
    <3> QED BY <1>4, <3>1, <3>2
  <2>2. phase'[r] = p /\ rpc'[r] = "none"
    BY <1>0, <2>1
  <2>3. Placed(r)'
    BY <1>i, <2>1, <2>2 DEF Placed
  <2>4. Owns(r)'
    BY <1>0, <1>i, <2>1, <2>2 DEF Placed, Owns
  <2> QED BY <1>m, <1>s, <2>1, <2>3, <2>4 DEF Active, Ended
<1>5. ASSUME NEW r \in Request,
             GlooCallFails(r) \/ GlooRecvHandshake(r) \/ GlooRefuses(r) \/ GlooServed(r)
      PROVE  OwnInv'
  <2>1. PICK m \in {"ok", "error"} :
          /\ rpc' = [rpc EXCEPT ![r] = m]
          /\ UNCHANGED <<phase, kind, group, took, wire, task, serving>>
          /\ rpc[r] = "serving" => serving[r] \in {"met", "failed"}
    <3>1. CASE GlooCallFails(r)
      BY <3>1 DEF GlooCallFails, Failing
    <3>2. CASE GlooRecvHandshake(r) \/ GlooRefuses(r)
      BY <3>2 DEF GlooRecvHandshake, GlooRefuses
    <3>3. CASE GlooServed(r)
      BY <3>3 DEF GlooServed
    <3> QED BY <1>5, <3>1, <3>2, <3>3
  <2>2. rpc'[r] = m
    BY <1>0, <2>1
  <2>3. Placed(r)' /\ Owns(r)'
    BY <1>i, <2>1, <2>2 DEF Placed, Owns
  <2>4. /\ phase' = [phase EXCEPT ![r] = phase[r]] /\ task' = [task EXCEPT ![r] = task[r]]
        /\ serving' = [serving EXCEPT ![r] = serving[r]]
    BY <1>s, <2>1
  <2> QED BY <1>m, <2>1, <2>3, <2>4 DEF Active
<1>6. ASSUME NEW r \in Request, GlooHandle(r) PROVE OwnInv'
  <2>1. PICK m \in {"ok", "error", "serving"}, s \in {"started", serving[r]} :
          /\ rpc' = [rpc EXCEPT ![r] = m] /\ serving' = [serving EXCEPT ![r] = s]
          /\ UNCHANGED <<phase, kind, group, took, wire, task>>
          /\ m = "serving" <=> s = "started"
          /\ m = "serving" => kind[r] # "object"
          /\ rpc[r] = "data" /\ serving[r] = "none"
    <3>1. rpc[r] = "data" /\ serving[r] = "none"
      BY <1>6, <1>i DEF GlooHandle, Placed
    <3>2. CASE kind[r] = "object" \/ group[r] \notin volumeGroups
      BY <1>6, <1>s, <3>1, <3>2 DEF GlooHandle
    <3>3. CASE kind[r] # "object" /\ group[r] \in volumeGroups
      BY <1>6, <3>1, <3>3 DEF GlooHandle
    <3> QED BY <3>2, <3>3
  <2>2. rpc'[r] = m /\ serving'[r] = s
    BY <1>0, <2>1
  <2>3. Placed(r)' /\ Owns(r)'
    BY <1>i, <2>1, <2>2 DEF Placed, Owns
  <2> QED BY <1>m, <1>s, <2>1, <2>3 DEF Active
<1>7. ASSUME NEW r \in Request, ClientPosts(r) PROVE OwnInv'
  <2>1. /\ task[r] = "started" /\ kind[r] \in {"put", "get"}
        /\ UNCHANGED <<phase, rpc, kind, group, serving, took>>
    BY <1>0, <1>7, <1>i DEF ClientPosts, Placed, Kind
  <2>2. CASE group[r] \in clientGroups \ broken
    <3>1. task' = [task EXCEPT ![r] = "posted"] /\ PostOn(r, ClientLane(r))
      BY <1>7, <2>2 DEF ClientPosts
    <3>2. group[r] \in Request /\ ClientLane(r) \in Lane /\ kind[r] = ClientLane(r)[1]
      BY <1>0, <2>1, <2>2 DEF GlooTypeOK, ClientLane, Lane
    <3>3. Queued' /\ PostedOnce'
      BY <1>0, <2>1, <3>1, <3>2, OnePosts DEF OwnInv
    <3>4. ASSUME NEW q \in Request PROVE Placed(q)' /\ Owns(q)'
      <4>1. Placed(q) /\ Owns(q)
        BY <1>i
      <4> QED BY <1>0, <2>1, <3>1, <4>1 DEF Placed, Owns
    <3>5. OnePerKind'
      BY <2>1 DEF OwnInv, OnePerKind, Active
    <3> QED BY <3>3, <3>4, <3>5 DEF OwnInv
  <2>3. CASE group[r] \notin clientGroups \ broken
    <3>1. task' = [task EXCEPT ![r] = "failed"] /\ wire' = wire
      BY <1>7, <2>3 DEF ClientPosts
    <3>2. Placed(r)' /\ Owns(r)'
      BY <1>0, <1>i, <2>1, <3>1 DEF Placed, Owns
    <3>3. /\ phase' = [phase EXCEPT ![r] = phase[r]] /\ rpc' = [rpc EXCEPT ![r] = rpc[r]]
          /\ serving' = [serving EXCEPT ![r] = serving[r]]
      BY <1>s, <2>1
    <3> QED BY <1>m, <2>1, <3>1, <3>2, <3>3 DEF Active
  <2> QED BY <2>2, <2>3
<1>12. ASSUME NEW r \in Request, VolumePosts(r) PROVE OwnInv'
  <2>1. /\ serving[r] = "started" /\ kind[r] \in {"put", "get"}
        /\ UNCHANGED <<phase, rpc, kind, group, task, took>>
    BY <1>0, <1>12, <1>i DEF VolumePosts, Placed, Kind
  <2>2. CASE group[r] \in Request \ broken
    <3>1. serving' = [serving EXCEPT ![r] = "posted"] /\ PostOn(r, VolumeLane(r))
      BY <1>12, <2>2 DEF VolumePosts
    <3>2. VolumeLane(r) \in Lane /\ kind[r] = VolumeLane(r)[1]
      BY <2>1 DEF VolumeLane, Lane
    <3>3. Queued' /\ PostedOnce'
      BY <1>0, <2>1, <2>2, <3>1, <3>2, OnePosts DEF OwnInv
    <3>4. ASSUME NEW q \in Request PROVE Placed(q)' /\ Owns(q)'
      <4>1. Placed(q) /\ Owns(q)
        BY <1>i
      <4> QED BY <1>0, <2>1, <3>1, <4>1 DEF Placed, Owns
    <3>5. OnePerKind'
      BY <2>1 DEF OwnInv, OnePerKind, Active
    <3> QED BY <3>3, <3>4, <3>5 DEF OwnInv
  <2>3. CASE group[r] \notin Request \ broken
    <3>1. PICK s \in {"posted", "failed"} :
            serving' = [serving EXCEPT ![r] = s] /\ wire' = wire
      <4>1. CASE group[r] \in broken
        BY <1>12, <4>1 DEF VolumePosts
      <4>2. CASE group[r] \notin broken
        <5>1. serving' = [serving EXCEPT ![r] = "posted"] /\ PostOn(r, VolumeLane(r))
          BY <1>12, <4>2 DEF VolumePosts
        <5>2. group[r] \notin DOMAIN wire
          BY <1>0, <2>3, <4>2 DEF GlooTypeOK
        <5>3. wire' = wire
          BY <1>0, <5>1, <5>2 DEF PostOn, GlooTypeOK
        <5> QED BY <5>1, <5>3
      <4> QED BY <4>1, <4>2
    <3>2. Placed(r)' /\ Owns(r)'
      BY <1>0, <1>i, <2>1, <3>1 DEF Placed, Owns
    <3>3. /\ phase' = [phase EXCEPT ![r] = phase[r]] /\ rpc' = [rpc EXCEPT ![r] = rpc[r]]
          /\ task' = [task EXCEPT ![r] = task[r]]
      BY <1>s, <2>1
    <3> QED BY <1>m, <2>1, <3>1, <3>2, <3>3 DEF Active
  <2> QED BY <2>2, <2>3
<1>8. ASSUME NEW g \in Request, TimesOut(g) PROVE OwnInv'
  BY <1>0, <1>8, BrokenOwns DEF TimesOut
<1>9. ASSUME NEW g \in Request, NEW k \in {"put", "get"}, Meet(g, k) PROVE OwnInv'
  BY <1>0, <1>9, MeetOwns
<1>10. CASE NewClient
  BY <1>10 DEF NewClient, OwnInv, OnePerKind, Queued, PostedOnce, Placed, Owns,
               Active, ClientLane, VolumeLane
<1>11. CASE NewVolume
  <2>1. volumeGroups \in SUBSET Request
    BY <1>0 DEF GlooTypeOK
  <2> QED BY <1>0, <1>11, <2>1, BrokenOwns DEF NewVolume
<1> QED BY <1>1, <1>2, <1>3, <1>4, <1>5, <1>6, <1>7, <1>8, <1>9, <1>10, <1>11,
           <1>12 DEF GlooNext

OwnTogether == transport = "Gloo" => OwnInv

LEMMA OwnTogetherStep ==
  ASSUME ~Overlap, "abandon" \notin GlooFault, TransportsInv, OwnTogether,
         [Next]_<<transportVars, transport>>
  PROVE  OwnTogether'
<1> SUFFICES ASSUME transport' = "Gloo" PROVE OwnInv'
  BY DEF OwnTogether
<1>1. CASE UNCHANGED <<transportVars, transport>>
  <2>1. UNCHANGED <<phase, rpc, kind, group, broken, task, serving, wire, took>>
    BY <1>1 DEF transportVars, bufferVars, connectionVars, transferVars
  <2>2. OwnInv
    BY <1>1 DEF OwnTogether
  <2> QED BY <2>1, <2>2 DEF OwnInv, OnePerKind, Queued, PostedOnce, Placed, Owns, Active,
                            ClientLane, VolumeLane
<1>2. CASE Next
  <2>1. transport = "Gloo" /\ GlooNext
    BY <1>2 DEF Next
  <2> QED BY <2>1, OwnStep DEF OwnTogether, TransportsInv
<1> QED BY <1>1, <1>2

(***************************************************************************)
(* When no two puts and no two gets are under way at once and no call is   *)
(* abandoned while the volume serves it, what goes over Gloo's groups      *)
(* reaches the request that it was sent for, whatever else fails: refused  *)
(* and lost calls, receives left behind, timeouts, new clients, volumes.   *)
(***************************************************************************)
THEOREM TakesOwn ==
  ~Overlap /\ "abandon" \notin GlooFault => (Spec => []TakesItsOwn)
<1> SUFFICES ASSUME ~Overlap, "abandon" \notin GlooFault PROVE Spec => []TakesItsOwn
  OBVIOUS
<1>1. Init => OwnTogether
  BY OwnInitially DEF Init, OwnTogether
<1>2. TransportsInv /\ OwnTogether /\ [Next]_<<transportVars, transport>> => OwnTogether'
  BY OwnTogetherStep
<1>3. TransportsInv /\ OwnTogether => TakesItsOwn
  <2> SUFFICES ASSUME TransportsInv, OwnTogether, NEW r \in Request
               PROVE  /\ kind[r] = "get" /\ phase[r] = "done" => took[r] = r
                      /\ kind[r] = "put" /\ serving[r] = "met" => took[r] = r
    BY DEF TakesItsOwn
  <2>1. CASE transport = "Gloo"
    BY <2>1 DEF OwnTogether, OwnInv, Owns
  <2>2. CASE transport # "Gloo"
    BY <2>2 DEF TransportsInv, GlooInit
  <2> QED BY <2>1, <2>2
<1> QED BY <1>1, <1>2, <1>3, TransportsInvariant, PTL DEF Spec

-----------------------------------------------------------------------------
(* Whose data a get of shared memory sees                                  *)

AllFrom(s, q) == \A p \in Part : content[s][p] = q

(***************************************************************************)
(* A put knows the segment that the volume holds until it is done, and has *)
(* copied all of its tensor when it tells the volume.  A get copies from   *)
(* the segment that the volume holds.  A delete has emptied its key when   *)
(* it is answered.                                                         *)
(***************************************************************************)
Sees(r) ==
  /\ rpc[r] \notin {"topology", "connect"}
  /\ phase[r] = "new" => copied[r] = {}
  /\ phase[r] = "handshake" => Is(r, "put") /\ copied[r] = {}
  /\ Is(r, "put") /\ Active(r) => r \in latest[KeyOf(r)]
  /\ Is(r, "put") /\ phase[r] = "handshake" /\ rpc[r] = "ok" =>
       descriptor[r] = stored[KeyOf(r)]
  /\ Is(r, "put") /\ phase[r] \in {"copy", "data"} =>
       /\ descriptor[r] \in Request /\ KeyOf(descriptor[r]) = KeyOf(r)
       /\ phase[descriptor[r]] # "new"
       /\ stored[KeyOf(r)] \in {NoRequest, descriptor[r]}
  /\ Is(r, "put") /\ phase[r] = "copy" =>
       \A p \in copied[r] : content[descriptor[r]][p] = r
  /\ Is(r, "put") /\ phase[r] = "data" =>
       /\ AllFrom(descriptor[r], r)
       /\ rpc[r] = "ok" => stored[KeyOf(r)] = descriptor[r]
  /\ Is(r, "get") /\ phase[r] = "data" => copied[r] = {}
  /\ Is(r, "get") /\ (phase[r] = "copy" \/ (phase[r] = "data" /\ rpc[r] = "ok")) =>
       descriptor[r] = stored[KeyOf(r)] /\ descriptor[r] # NoRequest
  /\ Is(r, "get") /\ phase[r] = "copy" =>
       \A p \in copied[r] : got[r][p] = content[descriptor[r]][p]
  /\ Is(r, "delete") /\ phase[r] = "data" /\ rpc[r] = "ok" =>
       stored[KeyOf(r)] = NoRequest

(* What the volume holds is the whole tensor of one of the latest puts,    *)
(* but for a put that is copying over it.                                  *)
KeptWhole(k) ==
  stored[k] # NoRequest =>
    /\ KeyOf(stored[k]) = k /\ phase[stored[k]] # "new"
    /\ \/ \E q \in latest[k] : AllFrom(stored[k], q)
       \/ \E r \in Request : Is(r, "put") /\ phase[r] = "copy" /\ KeyOf(r) = k

(* A put or delete of a key runs beside no other call on it.               *)
PutsRunAlone ==
  \A q, r \in Request :
    q # r /\ Active(q) /\ Active(r) /\ KeyOf(q) = KeyOf(r) => Is(q, "get")

SeesInv ==
  /\ PutsRunAlone
  /\ \A k \in Name : KeptWhole(k)
  /\ \A r \in Request : Sees(r)

LEMMA SeesInitially == BufferInit /\ SharedMemoryInit => SeesInv
<1> SUFFICES ASSUME BufferInit, SharedMemoryInit PROVE SeesInv
  OBVIOUS
<1>1. \A r \in Request : phase[r] = "new" /\ rpc[r] = "none" /\ copied[r] = {}
  BY DEF BufferInit, SharedMemoryInit
<1>2. \A k \in Name : stored[k] = NoRequest
  BY DEF SharedMemoryInit
<1>3. \A r \in Request : Sees(r) /\ ~Active(r)
  BY <1>1 DEF Sees, Active
<1>4. \A k \in Name : KeptWhole(k)
  BY <1>2 DEF KeptWhole
<1> QED BY <1>3, <1>4 DEF SeesInv, PutsRunAlone

(***************************************************************************)
(* A step of one call disturbs no other: only a put or delete changes what *)
(* the volume holds, and it runs alone on its key.                         *)
(***************************************************************************)
LEMMA OthersSee ==
  ASSUME ShmInv, SeesInv, NEW r \in Request, NEW k \in Name,
         call'[r].key = k, phase'[r] # "new",
         \/ call'[r] = call[r] /\ Active(r)
         \/ /\ phase[r] = "new"
            /\ \A q \in Request \ {r} : Active(q) /\ KeyOf(q) = k =>
                 Is(q, "get") /\ call'[r].operation = "get",
         \A q \in Request \ {r} :
           /\ phase'[q] = phase[q] /\ rpc'[q] = rpc[q] /\ call'[q] = call[q]
           /\ descriptor'[q] = descriptor[q] /\ copied'[q] = copied[q]
           /\ got'[q] = got[q],
         \/ UNCHANGED <<stored, content, latest>>
         \/ \A q \in Request \ {r} : Active(q) => KeyOf(q) # k,
         \A j \in Name \ {k} : stored'[j] = stored[j] /\ latest'[j] = latest[j],
         \A s \in Request : phase[s] # "new" /\ KeyOf(s) # k => content'[s] = content[s],
         Sees(r)', KeptWhole(k)'
  PROVE  SeesInv'
<1>0. /\ stored \in [Name -> Request \cup {NoRequest}] /\ NoRequest \notin Request
      /\ \A q \in Request : Active(q) => call[q] \in Record /\ KeyOf(q) \in Name
  BY NoRequestAssumption DEF ShmInv, SharedMemoryTypeOK, HasSegment, Active, Record, KeyOf
<1>1. \A q \in Request : phase[q] # "new" => phase'[q] # "new" /\ call'[q] = call[q]
  BY DEF Active
<1>2. PutsRunAlone'
  <2> SUFFICES ASSUME NEW q \in Request, NEW p \in Request, q # p, Active(q)', Active(p)',
                      KeyOf(q)' = KeyOf(p)'
               PROVE  Is(q, "get")'
    BY DEF PutsRunAlone
  <2>1. \A x \in Request \ {r} : (Active(x)' <=> Active(x)) /\ KeyOf(x)' = KeyOf(x)
                                /\ (Is(x, "get")' <=> Is(x, "get"))
    BY DEF Active, KeyOf, Is
  <2>2. CASE call'[r] = call[r] /\ Active(r)
    <3>1. Active(q) /\ Active(p) /\ KeyOf(q) = KeyOf(p)
      BY <2>1, <2>2 DEF KeyOf
    <3>2. Is(q, "get")
      BY <3>1 DEF SeesInv, PutsRunAlone
    <3> QED BY <2>1, <2>2, <3>2 DEF Is
  <2>3. CASE /\ phase[r] = "new"
             /\ \A x \in Request \ {r} : Active(x) /\ KeyOf(x) = k =>
                  Is(x, "get") /\ call'[r].operation = "get"
    <3>1. CASE q # r /\ p # r
      BY <2>1, <3>1 DEF SeesInv, PutsRunAlone
    <3>2. CASE q = r
      BY <2>1, <2>3, <3>2 DEF KeyOf, Is
    <3>3. CASE p = r
      BY <2>1, <2>3, <3>3 DEF KeyOf, Is
    <3> QED BY <3>1, <3>2, <3>3
  <2> QED BY <2>2, <2>3
<1>3. ASSUME NEW j \in Name \ {k} PROVE KeptWhole(j)'
  <2> SUFFICES ASSUME stored[j] # NoRequest
               PROVE  /\ call'[stored[j]].key = j /\ phase'[stored[j]] # "new"
                      /\ \/ \E q \in latest[j] : \A p \in Part : content'[stored[j]][p] = q
                         \/ \E q \in Request : /\ call'[q].operation = "put"
                                              /\ phase'[q] = "copy" /\ call'[q].key = j
    BY DEF KeptWhole, KeyOf, AllFrom, Is
  <2>1. /\ stored[j] \in Request /\ KeyOf(stored[j]) = j /\ phase[stored[j]] # "new"
        /\ \/ \E q \in latest[j] : AllFrom(stored[j], q)
           \/ \E q \in Request : Is(q, "put") /\ phase[q] = "copy" /\ KeyOf(q) = j
    BY <1>0 DEF SeesInv, KeptWhole
  <2>2. content'[stored[j]] = content[stored[j]]
    BY <2>1
  <2>3. CASE \E q \in latest[j] : AllFrom(stored[j], q)
    BY <1>1, <2>1, <2>2, <2>3 DEF KeyOf, AllFrom
  <2>4. CASE \E q \in Request : Is(q, "put") /\ phase[q] = "copy" /\ KeyOf(q) = j
    <3>1. PICK q \in Request : Is(q, "put") /\ phase[q] = "copy" /\ KeyOf(q) = j
      BY <2>4
    <3>2. q # r
      BY <1>1, <3>1 DEF KeyOf
    <3> QED BY <1>1, <2>1, <3>1, <3>2 DEF KeyOf, Is
  <2> QED BY <2>1, <2>3, <2>4
<1>4. ASSUME NEW q \in Request \ {r} PROVE Sees(q)'
  <2>1. /\ phase'[q] = phase[q] /\ rpc'[q] = rpc[q] /\ call'[q] = call[q]
        /\ descriptor'[q] = descriptor[q] /\ copied'[q] = copied[q] /\ got'[q] = got[q]
        /\ Sees(q)
    BY DEF SeesInv
  <2>2. CASE ~Active(q)
    BY <2>1, <2>2 DEF Sees, Active, Ended
  <2>3. CASE Active(q)
    <3> DEFINE j == KeyOf(q)
    <3>1. j \in Name /\ KeyOf(q)' = j
      BY <1>0, <2>1, <2>3 DEF KeyOf
    <3>2. stored'[j] = stored[j] /\ latest'[j] = latest[j]
      BY <2>3, <3>1
    <3>3. ASSUME NEW s \in Request, phase[s] # "new", KeyOf(s) = j
          PROVE  content'[s] = content[s] /\ phase'[s] # "new" /\ KeyOf(s)' = j
      BY <1>1, <2>3, <3>3 DEF KeyOf
    <3>4. stored[j] # NoRequest =>
            stored[j] \in Request /\ phase[stored[j]] # "new" /\ KeyOf(stored[j]) = j
      BY <1>0, <3>1 DEF SeesInv, KeptWhole
    <3>5. Is(q, "put")' = Is(q, "put") /\ Is(q, "get")' = Is(q, "get")
          /\ Is(q, "delete")' = Is(q, "delete") /\ Active(q)' = Active(q)
      BY <2>1 DEF Is, Active
    <3> HIDE DEF j
    <3>6. CASE Is(q, "put")
      <4>1. ~Is(q, "get") /\ ~Is(q, "delete")
        BY <3>6 DEF Is
      <4>2. phase[q] \in {"copy", "data"} =>
              /\ descriptor[q] \in Request /\ phase[descriptor[q]] # "new"
              /\ KeyOf(descriptor[q]) = j
        BY <2>1, <3>6 DEF Sees, j
      <4>3. phase[q] \in {"copy", "data"} =>
              /\ content'[descriptor[q]] = content[descriptor[q]]
              /\ phase'[descriptor[q]] # "new" /\ call'[descriptor[q]].key = j
        BY <3>3, <4>2 DEF KeyOf
      <4> QED BY <2>1, <3>1, <3>2, <3>5, <3>6, <4>1, <4>2, <4>3
              DEF Sees, AllFrom, j, KeyOf, Is, Active
    <3>7. CASE ~Is(q, "put")
      <4>1. phase[q] = "copy" /\ Is(q, "get") =>
              /\ descriptor[q] = stored[j]
              /\ content'[descriptor[q]] = content[descriptor[q]]
        BY <2>1, <3>3, <3>4 DEF Sees, j
      <4> QED BY <2>1, <3>1, <3>2, <3>5, <3>7, <4>1
              DEF Sees, AllFrom, j, KeyOf, Is, Active
    <3> QED BY <3>6, <3>7
  <2> QED BY <2>2, <2>3
<1> QED BY <1>2, <1>3, <1>4 DEF SeesInv

LEMMA SeesStep ==
  ASSUME ~Racing, ShmInv, ShmInv', SeesInv, SharedMemoryNext
  PROVE  SeesInv'
<1> PICK r \in Request :
      \/ \E c \in Process, o \in Operations, k \in Name : ShmStart(r, c, o, k)
      \/ ShmPostHandshake(r) \/ AttachForGet(r)
      \/ \E p \in Part : CopyIn(r, p) \/ CopyOut(r, p)
      \/ ShmPutReturns(r) \/ ShmDeleteReturns(r)
      \/ ShmRaises(r) \/ ShmCallFails(r)
      \/ ShmRecvHandshake(r) \/ ShmHandlePut(r) \/ ShmHandleGet(r)
      \/ ShmHandleDelete(r) \/ ShmRefuses(r)
  BY DEF SharedMemoryNext
<1>0. /\ HasSegment(r) /\ Sees(r) /\ NoRequest \notin Request
      /\ phase \in [Request -> Phase] /\ rpc \in [Request -> Rpc]
      /\ call \in [Request -> Record \cup {NoCall}]
      /\ stored \in [Name -> Request \cup {NoRequest}]
      /\ content \in [Request -> [Part -> Request \cup {NoRequest}]]
      /\ descriptor \in [Request -> Request \cup {NoRequest}]
      /\ copied \in [Request -> SUBSET Part]
      /\ got \in [Request -> [Part -> Request \cup {NoRequest}]]
      /\ latest \in [Name -> SUBSET Request]
  BY NoRequestAssumption
     DEF ShmInv, SharedMemoryTypeOK, BufferTypeOK, Record, SeesInv
(* A step that leaves alone what the volume holds.                         *)
<1>g. ASSUME NEW k \in Name, call[r].key = k, call' = call, Active(r), phase'[r] # "new",
             \A q \in Request \ {r} :
               /\ phase'[q] = phase[q] /\ rpc'[q] = rpc[q]
               /\ descriptor'[q] = descriptor[q] /\ copied'[q] = copied[q]
               /\ got'[q] = got[q],
             UNCHANGED <<stored, content, latest>>,
             phase[r] # "copy" \/ phase'[r] = "copy" \/ ~Is(r, "put"),
             Sees(r)'
      PROVE  SeesInv'
  <2>1. KeptWhole(k)'
    <3> SUFFICES ASSUME stored[k] # NoRequest
                 PROVE  /\ call[stored[k]].key = k /\ phase'[stored[k]] # "new"
                        /\ \/ \E q \in latest[k] : AllFrom(stored[k], q)
                           \/ \E q \in Request : /\ call[q].operation = "put"
                                                /\ phase'[q] = "copy" /\ call[q].key = k
      BY <1>g DEF KeptWhole, KeyOf, AllFrom, Is
    <3>1. /\ stored[k] \in Request /\ KeyOf(stored[k]) = k /\ phase[stored[k]] # "new"
          /\ \/ \E q \in latest[k] : AllFrom(stored[k], q)
             \/ \E q \in Request : Is(q, "put") /\ phase[q] = "copy" /\ KeyOf(q) = k
      BY <1>0 DEF SeesInv, KeptWhole
    <3>2. ASSUME NEW q \in Request, Is(q, "put"), phase[q] = "copy" PROVE phase'[q] = "copy"
      BY <1>g, <3>2
    <3>3. phase'[stored[k]] # "new"
      BY <1>g, <3>1
    <3> QED BY <3>1, <3>2, <3>3 DEF KeyOf, Is
  <2> QED BY <1>g, <2>1, OthersSee
(* A put or delete runs alone on its key.                                  *)
<1>w. ASSUME Active(r), ~Is(r, "get")
      PROVE  \A q \in Request \ {r} : Active(q) => KeyOf(q) # KeyOf(r)
  BY <1>w DEF SeesInv, PutsRunAlone
<1> PICK key : key = KeyOf(r)
  OBVIOUS
<1>k. phase[r] # "new" => call[r] \in Record /\ key \in Name
  BY <1>0 DEF HasSegment, Record, KeyOf
<1>a. {"handshake", "copy", "data"} \cap (Ended \cup {"new"}) = {}
  BY DEF Ended
<1>1. ASSUME NEW c \in Process, NEW o \in Operations, NEW k \in Name,
             ShmStart(r, c, o, k)
      PROVE  SeesInv'
  <2> DEFINE it == [process |-> c, operation |-> o, key |-> k]
  <2>1. /\ it.operation = o /\ it.key = k /\ phase[r] = "new" /\ copied[r] = {}
        /\ call' = [call EXCEPT ![r] = it]
        /\ UNCHANGED <<stored, content, descriptor, mapped, copied, got>>
    BY <1>0, <1>1 DEF ShmStart, tensorVars, Sees
  <2>2. PICK m \in {"handshake", "data"} :
          Goto(r, m, m) /\ (m = "handshake" <=> o = "put")
    BY <1>1 DEF ShmStart
  <2> HIDE DEF it
  <2>3. /\ phase'[r] = m /\ rpc'[r] = m /\ call'[r] = it /\ copied'[r] = {}
        /\ \A q \in Request \ {r} :
             phase'[q] = phase[q] /\ rpc'[q] = rpc[q] /\ call'[q] = call[q]
    BY <1>0, <2>1, <2>2 DEF Goto
  <2>4. /\ latest'[k] = IF o = "put" THEN latest[k] \cup {r} ELSE latest[k]
        /\ \A j \in Name \ {k} : latest'[j] = latest[j]
        /\ o # "put" => latest' = latest
    BY <1>0, <1>1 DEF ShmStart
  <2>5. \A q \in Request \ {r} :
          Active(q) /\ KeyOf(q) = k => o = "get" /\ Is(q, "get")
    BY <1>1, RacingAssumption DEF ShmStart
  <2>6. Sees(r)'
    BY <2>1, <2>2, <2>3, <2>4 DEF Sees, Is, KeyOf, Active
  <2>7. KeptWhole(k)'
    <3> SUFFICES ASSUME stored[k] # NoRequest
                 PROVE  /\ call'[stored[k]].key = k /\ phase'[stored[k]] # "new"
                        /\ \/ \E q \in latest'[k] : AllFrom(stored[k], q)
                           \/ \E q \in Request : /\ call'[q].operation = "put"
                                                /\ phase'[q] = "copy" /\ call'[q].key = k
      BY <2>1 DEF KeptWhole, KeyOf, AllFrom, Is
    <3>1. /\ stored[k] \in Request /\ KeyOf(stored[k]) = k /\ phase[stored[k]] # "new"
          /\ \/ \E q \in latest[k] : AllFrom(stored[k], q)
             \/ \E q \in Request : Is(q, "put") /\ phase[q] = "copy" /\ KeyOf(q) = k
      BY <1>0 DEF SeesInv, KeptWhole
    <3> QED BY <2>1, <2>3, <2>4, <3>1 DEF KeyOf, Is
  <2>8. UNCHANGED <<stored, content, latest>>
        \/ \A q \in Request \ {r} : Active(q) => KeyOf(q) # k
    BY <2>1, <2>4, <2>5
  <2> QED BY <2>1, <2>2, <2>3, <2>4, <2>5, <2>6, <2>7, <2>8, OthersSee
<1>2. CASE ShmPostHandshake(r)
  <2> DEFINE s == IF descriptor[r] = NoRequest THEN r ELSE descriptor[r]
  <2>1. /\ phase[r] = "handshake" /\ rpc[r] = "ok" /\ Is(r, "put") /\ copied[r] = {}
        /\ UNCHANGED <<call, stored, content, copied, got, latest>>
        /\ descriptor[r] = stored[key] /\ key \in Name /\ Active(r) /\ r \in latest[key]
    BY <1>0, <1>2, <1>a, <1>k DEF ShmPostHandshake, Sees, Active
  <2>2. s \in Request /\ KeyOf(s) = key /\ phase[s] # "new" /\ stored[key] \in {NoRequest, s}
    BY <1>0, <2>1 DEF SeesInv, KeptWhole
  <2> HIDE DEF s
  <2>3. CASE s = r \/ Exists(s)
    <3>1. Goto(r, "copy", "none") /\ descriptor' = [descriptor EXCEPT ![r] = s]
      BY <1>2, <2>3 DEF ShmPostHandshake, Attached, s
    <3>2. /\ phase'[r] = "copy" /\ rpc'[r] = "none" /\ descriptor'[r] = s
          /\ \A q \in Request \ {r} :
               phase'[q] = phase[q] /\ rpc'[q] = rpc[q] /\ descriptor'[q] = descriptor[q]
      BY <1>0, <3>1 DEF Goto
    <3>3. Sees(r)'
      BY <2>1, <2>2, <3>2 DEF Sees, Is, KeyOf, Active
    <3> QED BY <1>g, <2>1, <3>2, <3>3 DEF KeyOf
  <2>4. CASE ~(s = r \/ Exists(s))
    <3>1. Goto(r, "raised", "none") /\ UNCHANGED descriptor
      BY <1>2, <2>4 DEF ShmPostHandshake, s
    <3>2. /\ phase'[r] = "raised" /\ rpc'[r] = "none"
          /\ \A q \in Request \ {r} : phase'[q] = phase[q] /\ rpc'[q] = rpc[q]
      BY <1>0, <3>1 DEF Goto
    <3>3. Sees(r)'
      BY <3>2 DEF Sees, Active, Ended
    <3> QED BY <1>g, <2>1, <3>1, <3>2, <3>3 DEF KeyOf
  <2> QED BY <2>3, <2>4
<1>3. CASE AttachForGet(r)
  <2>1. /\ phase[r] = "data" /\ rpc[r] = "ok" /\ Is(r, "get") /\ copied[r] = {}
        /\ UNCHANGED <<call, stored, content, copied, got, latest>>
        /\ descriptor[r] = stored[key] /\ descriptor[r] # NoRequest
        /\ key \in Name /\ Active(r)
    BY <1>0, <1>3, <1>a, <1>k DEF AttachForGet, Sees, Active
  <2>2. PICK p \in {"copy", "raised"} : Goto(r, p, "none") /\ descriptor' = descriptor
    <3>1. CASE Exists(descriptor[r])
      BY <1>0, <1>3, <3>1 DEF AttachForGet, Attached
    <3>2. CASE ~Exists(descriptor[r])
      BY <1>3, <3>2 DEF AttachForGet
    <3> QED BY <3>1, <3>2
  <2>3. /\ phase'[r] = p /\ rpc'[r] = "none"
        /\ \A q \in Request \ {r} : phase'[q] = phase[q] /\ rpc'[q] = rpc[q]
    BY <1>0, <2>2 DEF Goto
  <2>4. Sees(r)'
    BY <2>1, <2>2, <2>3 DEF Sees, Is, KeyOf, Active, Ended
  <2> QED BY <1>g, <2>1, <2>2, <2>3, <2>4 DEF KeyOf
<1>4. ASSUME NEW p \in Part, CopyIn(r, p) PROVE SeesInv'
  <2> DEFINE d == descriptor[r]
  <2>1. /\ phase[r] = "copy" /\ rpc[r] = "none" /\ Is(r, "put") /\ Active(r)
        /\ UNCHANGED <<call, stored, descriptor, got, latest>>
        /\ key \in Name /\ r \in latest[key] /\ d \in Request /\ KeyOf(d) = key
        /\ phase[d] # "new" /\ stored[key] \in {NoRequest, d}
        /\ \A x \in copied[r] : content[d][x] = r
    BY <1>0, <1>4, <1>a, <1>k DEF CopyIn, Sees, Active, HasSegment
  <2>2. /\ content' = [content EXCEPT ![d][p] = r]
        /\ copied' = [copied EXCEPT ![r] = copied[r] \cup {p}]
        /\ SendsWhenCopied(r, p)
    BY <1>4 DEF CopyIn
  <2> HIDE DEF d
  <2>3. /\ copied'[r] = copied[r] \cup {p} /\ copied'[r] \subseteq Part
        /\ \A q \in Request \ {r} : copied'[q] = copied[q]
    BY <1>0, <2>2
  <2>4. /\ \A x \in copied[r] \cup {p} : content'[d][x] = r
        /\ \A s \in Request \ {d} : content'[s] = content[s]
    <3>1. /\ content[d] \in [Part -> Request \cup {NoRequest}]
          /\ content'[d] = [content[d] EXCEPT ![p] = r]
          /\ \A s \in Request \ {d} : content'[s] = content[s]
      BY <1>0, <2>1, <2>2
    <3> QED BY <1>0, <2>1, <3>1
  <2>5. PICK q \in {"copy", "data"}, m \in {"none", "data"} :
          /\ phase' = [phase EXCEPT ![r] = q] /\ rpc' = [rpc EXCEPT ![r] = m]
          /\ q = "data" => copied[r] \cup {p} = Part /\ m = "data"
    <3>1. CASE copied[r] \cup {p} = Part
      BY <2>2, <3>1 DEF SendsWhenCopied, Goto
    <3>2. CASE copied[r] \cup {p} # Part
      BY <1>0, <2>1, <2>2, <3>2 DEF SendsWhenCopied
    <3> QED BY <3>1, <3>2
  <2>6. /\ phase'[r] = q /\ rpc'[r] = m
        /\ \A x \in Request \ {r} : phase'[x] = phase[x] /\ rpc'[x] = rpc[x]
    BY <1>0, <2>5
  <2>7. q = "data" => m = "data" /\ \A x \in Part : content'[d][x] = r
    BY <2>4, <2>5
  <2>8. phase'[d] # "new"
    BY <2>1, <2>6
  <2>9. Sees(r)'
    BY <2>1, <2>3, <2>4, <2>6, <2>7, <2>8 DEF Sees, Is, KeyOf, Active, AllFrom, d
  <2>10. KeptWhole(key)'
    <3> SUFFICES ASSUME stored[key] # NoRequest
                 PROVE  /\ call[stored[key]].key = key /\ phase'[stored[key]] # "new"
                        /\ \/ \E x \in latest[key] : \A y \in Part : content'[stored[key]][y] = x
                           \/ \E x \in Request : /\ call[x].operation = "put"
                                                /\ phase'[x] = "copy" /\ call[x].key = key
      BY <2>1 DEF KeptWhole, KeyOf, AllFrom, Is
    <3>1. stored[key] = d /\ call[d].key = key
      BY <2>1 DEF KeyOf
    <3> QED BY <2>1, <2>6, <2>7, <2>8, <3>1 DEF KeyOf, Is
  <2>11. \A x \in Request \ {r} : Active(x) => KeyOf(x) # key
    BY <1>w, <2>1 DEF Is
  <2> QED BY <2>1, <2>3, <2>4, <2>6, <2>9, <2>10, <2>11, OthersSee DEF KeyOf
<1>5. ASSUME NEW p \in Part, CopyOut(r, p) PROVE SeesInv'
  <2> DEFINE d == descriptor[r]
  <2>1. /\ phase[r] = "copy" /\ rpc[r] = "none" /\ Is(r, "get") /\ Active(r)
        /\ UNCHANGED <<call, stored, content, descriptor, latest>>
        /\ key \in Name /\ d = stored[key] /\ d # NoRequest
        /\ \A x \in copied[r] : got[r][x] = content[d][x]
    BY <1>0, <1>5, <1>a, <1>k DEF CopyOut, Sees, Active, HasSegment
  <2>2. /\ got' = [got EXCEPT ![r][p] = content[d][p]]
        /\ copied' = [copied EXCEPT ![r] = copied[r] \cup {p}]
    BY <1>5 DEF CopyOut
  <2> HIDE DEF d
  <2>3. /\ copied'[r] = copied[r] \cup {p}
        /\ \A q \in Request \ {r} : copied'[q] = copied[q] /\ got'[q] = got[q]
    BY <1>0, <2>2
  <2>4. \A x \in copied[r] \cup {p} : got'[r][x] = content[d][x]
    <3>1. /\ got[r] \in [Part -> Request \cup {NoRequest}]
          /\ got'[r] = [got[r] EXCEPT ![p] = content[d][p]]
      BY <1>0, <2>2
    <3> QED BY <1>0, <2>1, <3>1
  <2>5. PICK q \in {"copy", "done"} :
          phase' = [phase EXCEPT ![r] = q] /\ rpc' = [rpc EXCEPT ![r] = "none"]
    <3>1. CASE copied[r] \cup {p} = Part
      BY <1>5, <3>1 DEF CopyOut, Goto
    <3>2. CASE copied[r] \cup {p} # Part
      BY <1>0, <1>5, <2>1, <3>2 DEF CopyOut
    <3> QED BY <3>1, <3>2
  <2>6. /\ phase'[r] = q /\ rpc'[r] = "none"
        /\ \A x \in Request \ {r} : phase'[x] = phase[x] /\ rpc'[x] = rpc[x]
    BY <1>0, <2>5
  <2>7. Sees(r)'
    BY <2>1, <2>3, <2>4, <2>6 DEF Sees, Is, KeyOf, Active, Ended, d
  <2> QED BY <1>g, <2>1, <2>3, <2>6, <2>7 DEF KeyOf, Is
<1>6. CASE ShmPutReturns(r)
  <2> DEFINE d == descriptor[r]
  <2>1. /\ phase[r] = "data" /\ rpc[r] = "ok" /\ Is(r, "put") /\ Active(r)
        /\ UNCHANGED <<call, stored, content, descriptor, copied, got>>
        /\ key \in Name /\ d \in Request /\ KeyOf(d) = key /\ phase[d] # "new"
        /\ AllFrom(d, r) /\ stored[key] = d
    BY <1>0, <1>6, <1>a, <1>k DEF ShmPutReturns, Sees, Active, tensorVars
  <2>2. /\ phase'[r] = "done" /\ rpc'[r] = "none"
        /\ \A x \in Request \ {r} : phase'[x] = phase[x] /\ rpc'[x] = rpc[x]
        /\ latest'[key] = {r} /\ \A j \in Name \ {key} : latest'[j] = latest[j]
    BY <1>0, <1>6, <2>1 DEF ShmPutReturns, Goto
  <2> HIDE DEF d
  <2>3. Sees(r)'
    BY <2>2 DEF Sees, Active, Ended
  <2>4. phase'[d] # "new"
    BY <2>1, <2>2
  <2>5. KeptWhole(key)'
    <3>1. stored'[key] = d /\ call'[d].key = key /\ \A p \in Part : content'[d][p] = r
      BY <2>1 DEF KeyOf, AllFrom
    <3> QED BY <2>2, <2>4, <3>1 DEF KeptWhole, KeyOf, AllFrom
  <2>6. \A x \in Request \ {r} : Active(x) => KeyOf(x) # key
    BY <1>w, <2>1 DEF Is
  <2> QED BY <2>1, <2>2, <2>3, <2>5, <2>6, OthersSee DEF KeyOf
<1>7. CASE ShmDeleteReturns(r)
  <2>1. /\ phase[r] = "data" /\ rpc[r] = "ok" /\ Is(r, "delete") /\ Active(r)
        /\ UNCHANGED <<call, stored, content, descriptor, copied, got>>
        /\ key \in Name /\ stored[key] = NoRequest
    BY <1>0, <1>7, <1>a, <1>k DEF ShmDeleteReturns, Sees, Active
  <2>2. /\ phase'[r] = "done" /\ rpc'[r] = "none"
        /\ \A x \in Request \ {r} : phase'[x] = phase[x] /\ rpc'[x] = rpc[x]
        /\ \A j \in Name \ {key} : latest'[j] = latest[j]
    BY <1>0, <1>7 DEF ShmDeleteReturns, Goto
  <2>3. Sees(r)'
    BY <2>2 DEF Sees, Active, Ended
  <2>4. KeptWhole(key)'
    BY <2>1 DEF KeptWhole
  <2>5. \A x \in Request \ {r} : Active(x) => KeyOf(x) # key
    BY <1>w, <2>1 DEF Is
  <2> QED BY <2>1, <2>2, <2>3, <2>4, <2>5, OthersSee DEF KeyOf
<1>8. CASE ShmRaises(r)
  <2>1. /\ Active(r) /\ phase[r] # "copy" /\ KeyOf(r) \in Name
        /\ UNCHANGED <<call, stored, content, descriptor, copied, got, latest>>
    BY <1>0, <1>8, <1>k DEF ShmRaises, tensorVars, HasSegment, Active
  <2>2. /\ phase'[r] = "raised" /\ rpc'[r] = "none"
        /\ \A x \in Request \ {r} : phase'[x] = phase[x] /\ rpc'[x] = rpc[x]
    BY <1>0, <1>8 DEF ShmRaises, Goto
  <2>3. Sees(r)'
    BY <2>2 DEF Sees, Active, Ended
  <2> QED BY <1>g, <2>1, <2>2, <2>3 DEF KeyOf
<1>9. CASE ShmCallFails(r) \/ ShmRefuses(r)
  <2>1. /\ rpc' = [rpc EXCEPT ![r] = "error"] /\ rpc[r] \in Unhandled \cup {"ok"}
        /\ UNCHANGED <<phase, call, stored, content, descriptor, copied, got, latest>>
    BY <1>9 DEF ShmCallFails, ShmRefuses, tensorVars, Reply
  <2>2. rpc'[r] = "error" /\ \A x \in Request \ {r} : rpc'[x] = rpc[x]
    BY <1>0, <2>1
  <2>3. phase[r] # "new" /\ KeyOf(r) \in Name
    BY <1>0, <1>k, <2>1 DEF HasSegment, Unhandled
  <2>4. Active(r)
    <3>1. CASE ShmCallFails(r)
      BY <3>1 DEF ShmCallFails
    <3>2. CASE ShmRefuses(r)
      BY <1>0, <1>a, <3>2 DEF ShmRefuses, HasSegment, Sees, Unhandled, Active
    <3> QED BY <1>9, <3>1, <3>2
  <2>5. Sees(r)'
    BY <1>0, <2>1, <2>2 DEF Sees, Is, KeyOf, Active, AllFrom
  <2> QED BY <1>g, <2>1, <2>2, <2>3, <2>4, <2>5 DEF KeyOf
<1>10. CASE ShmRecvHandshake(r)
  <2>1. /\ phase[r] = "handshake" /\ Active(r) /\ KeyOf(r) \in Name
        /\ UNCHANGED <<phase, call, stored, content, copied, got, latest>>
    BY <1>0, <1>10, <1>a, <1>k DEF ShmRecvHandshake, HasSegment, Reply, Active
  <2>2. /\ rpc'[r] = "ok" /\ descriptor'[r] = stored[KeyOf(r)]
        /\ \A x \in Request \ {r} : rpc'[x] = rpc[x] /\ descriptor'[x] = descriptor[x]
    BY <1>0, <1>10 DEF ShmRecvHandshake, Reply
  <2>3. Sees(r)'
    BY <1>0, <2>1, <2>2 DEF Sees, Is, KeyOf, Active
  <2> QED BY <1>g, <2>1, <2>2, <2>3 DEF KeyOf
<1>11. CASE ShmHandlePut(r)
  <2> DEFINE d == descriptor[r]
  <2>1. /\ phase[r] = "data" /\ Is(r, "put") /\ Active(r)
        /\ UNCHANGED <<phase, call, content, descriptor, copied, got, latest>>
        /\ key \in Name /\ d \in Request /\ KeyOf(d) = key /\ phase[d] # "new"
        /\ AllFrom(d, r) /\ stored[key] \in {NoRequest, d} /\ r \in latest[key]
    BY <1>0, <1>11, <1>a, <1>k DEF ShmHandlePut, HasSegment, Sees, Active, Reply
  <2> HIDE DEF d
  <2>2. PICK m \in {"ok", "error"} :
          /\ rpc' = [rpc EXCEPT ![r] = m]
          /\ m = "ok" => stored' = [stored EXCEPT ![key] = d]
          /\ m = "error" => stored' = stored
    BY <1>11 DEF ShmHandlePut, Reply, d
  <2>3. /\ rpc'[r] = m /\ \A x \in Request \ {r} : rpc'[x] = rpc[x]
        /\ m = "ok" => stored'[key] = d
        /\ stored'[key] \in {NoRequest, d}
        /\ \A j \in Name \ {key} : stored'[j] = stored[j]
    BY <1>0, <2>1, <2>2
  <2>4. Sees(r)'
    BY <1>0, <2>1, <2>3 DEF Sees, Is, KeyOf, Active, AllFrom, d
  <2>5. KeptWhole(key)'
    <3>1. /\ call'[d].key = key /\ \A p \in Part : content'[d][p] = r
          /\ phase'[d] # "new" /\ r \in latest'[key] /\ stored'[key] \in {NoRequest, d}
      BY <2>1, <2>3 DEF KeyOf, AllFrom
    <3> QED BY <3>1 DEF KeptWhole, KeyOf, AllFrom
  <2>6. \A x \in Request \ {r} : Active(x) => KeyOf(x) # key
    BY <1>w, <2>1 DEF Is
  <2> QED BY <2>1, <2>3, <2>4, <2>5, <2>6, OthersSee DEF KeyOf
<1>12. CASE ShmHandleGet(r)
  <2>1. /\ phase[r] = "data" /\ Active(r) /\ KeyOf(r) \in Name /\ copied[r] = {}
        /\ Is(r, "get")
        /\ UNCHANGED <<phase, call, stored, content, copied, got, latest>>
    BY <1>0, <1>12, <1>a, <1>k DEF ShmHandleGet, HasSegment, Reply, Active, Sees
  <2>2. PICK m \in {"ok", "error"} :
          /\ rpc' = [rpc EXCEPT ![r] = m]
          /\ m = "ok" => stored[KeyOf(r)] # NoRequest
    BY <1>12 DEF ShmHandleGet, Reply
  <2>3. /\ rpc'[r] = m /\ descriptor'[r] = stored[KeyOf(r)]
        /\ \A x \in Request \ {r} : rpc'[x] = rpc[x] /\ descriptor'[x] = descriptor[x]
    BY <1>0, <1>12, <2>2 DEF ShmHandleGet
  <2>4. Sees(r)'
    BY <1>0, <2>1, <2>2, <2>3 DEF Sees, Is, KeyOf, Active
  <2> QED BY <1>g, <2>1, <2>3, <2>4 DEF KeyOf
<1>13. CASE ShmHandleDelete(r)
  <2>1. /\ phase[r] = "data" /\ Is(r, "delete") /\ Active(r) /\ key \in Name
        /\ UNCHANGED <<phase, call, content, descriptor, copied, got, latest>>
    BY <1>0, <1>13, <1>a, <1>k DEF ShmHandleDelete, HasSegment, Active, Reply
  <2>2. /\ rpc'[r] \in {"ok", "error"} /\ \A x \in Request \ {r} : rpc'[x] = rpc[x]
        /\ stored'[key] = NoRequest
        /\ \A j \in Name \ {key} : stored'[j] = stored[j]
    BY <1>0, <1>13, <2>1 DEF ShmHandleDelete, Reply
  <2>3. Sees(r)'
    BY <1>0, <2>1, <2>2 DEF Sees, Is, KeyOf, Active
  <2>4. KeptWhole(key)'
    BY <2>2 DEF KeptWhole
  <2>5. \A x \in Request \ {r} : Active(x) => KeyOf(x) # key
    BY <1>w, <2>1 DEF Is
  <2> QED BY <2>1, <2>2, <2>3, <2>4, <2>5, OthersSee DEF KeyOf
<1> QED BY <1>1, <1>2, <1>3, <1>4, <1>5, <1>6, <1>7, <1>8, <1>9, <1>10, <1>11,
           <1>12, <1>13

(***************************************************************************)
(* A get that returns has copied every part from the segment that the      *)
(* volume still holds, and no put is copying over it.                      *)
(***************************************************************************)
LEMMA GetsLatest ==
  ASSUME ShmInv, SeesInv, SharedMemoryNext, NEW r \in Request,
         Is(r, "get"), phase[r] = "copy", phase'[r] = "done"
  PROVE  \E q \in latest[KeyOf(r)] : \A p \in Part : got'[r][p] = q
<1> DEFINE k == KeyOf(r)
           d == descriptor[r]
<1>0. /\ HasSegment(r) /\ Sees(r) /\ NoRequest \notin Request
      /\ phase \in [Request -> Phase] /\ rpc \in [Request -> Rpc]
      /\ got \in [Request -> [Part -> Request \cup {NoRequest}]]
      /\ rpc[r] = "none" /\ call[r] \in Record /\ k \in Name
  BY NoRequestAssumption
     DEF ShmInv, SharedMemoryTypeOK, BufferTypeOK, SeesInv, HasSegment, Record, KeyOf
<1>1. PICK p \in Part : CopyOut(r, p) /\ copied[r] \cup {p} = Part
  <2>1. PICK q \in Request :
      \/ \E c \in Process, o \in Operations, j \in Name : ShmStart(q, c, o, j)
      \/ ShmPostHandshake(q) \/ AttachForGet(q)
      \/ \E p \in Part : CopyIn(q, p) \/ CopyOut(q, p)
      \/ ShmPutReturns(q) \/ ShmDeleteReturns(q)
      \/ ShmRaises(q) \/ ShmCallFails(q)
      \/ ShmRecvHandshake(q) \/ ShmHandlePut(q) \/ ShmHandleGet(q)
      \/ ShmHandleDelete(q) \/ ShmRefuses(q)
    BY DEF SharedMemoryNext
  <2>2. (\E x \in Phase, m \in Rpc : Goto(q, x, m)) \/ UNCHANGED phase
    <3>1. /\ {"handshake", "copy", "data", "done", "raised"} \subseteq Phase
          /\ {"none", "handshake", "data"} \subseteq Rpc
      BY DEF Phase, Rpc
    <3> QED BY <2>1, <3>1
            DEF ShmStart, ShmPostHandshake, AttachForGet, CopyIn, CopyOut,
                SendsWhenCopied, ShmPutReturns, ShmDeleteReturns, ShmRaises,
                ShmCallFails, ShmRecvHandshake, ShmHandlePut, ShmHandleGet,
                ShmHandleDelete, ShmRefuses, Reply
  <2>3. q = r
    BY <1>0, <2>2 DEF Goto
  <2>4. PICK p \in Part : CopyIn(r, p) \/ CopyOut(r, p)
    BY <1>0, <2>1, <2>3
       DEF ShmStart, ShmPostHandshake, AttachForGet, ShmPutReturns, ShmDeleteReturns,
           ShmRaises, ShmCallFails, ShmRecvHandshake, ShmHandlePut, ShmHandleGet,
           ShmHandleDelete, ShmRefuses, Unhandled
  <2>5. CopyOut(r, p)
    BY <2>4 DEF CopyIn, Is
  <2>6. copied[r] \cup {p} = Part
    BY <2>5 DEF CopyOut
  <2> QED BY <2>5, <2>6
<1>2. \A x \in Part : got'[r][x] = content[d][x]
  <2>1. got'[r] = [got[r] EXCEPT ![p] = content[d][p]]
    BY <1>0, <1>1 DEF CopyOut
  <2>2. \A x \in copied[r] : got[r][x] = content[d][x]
    BY <1>0 DEF Sees
  <2>3. got[r] \in [Part -> Request \cup {NoRequest}]
    BY <1>0
  <2> QED BY <1>1, <2>1, <2>2, <2>3
<1>3. d = stored[k] /\ d # NoRequest
  BY <1>0 DEF Sees
<1>4. \/ \E q \in latest[k] : AllFrom(d, q)
      \/ \E q \in Request : Is(q, "put") /\ phase[q] = "copy" /\ KeyOf(q) = k
  BY <1>0, <1>3 DEF SeesInv, KeptWhole
<1>5. ~ \E q \in Request : Is(q, "put") /\ phase[q] = "copy" /\ KeyOf(q) = k
  BY DEF SeesInv, PutsRunAlone, Active, Ended, Is
<1> QED BY <1>2, <1>4, <1>5 DEF AllFrom

(***************************************************************************)
(* Only a request over shared memory returns from its copying.             *)
(***************************************************************************)
LEMMA OthersNeverCopy ==
  ASSUME BufferTypeOK, Next, NEW r \in Request, phase[r] = "copy", phase'[r] = "done"
  PROVE  transport = "SharedMemory"
<1> SUFFICES ASSUME transport # "SharedMemory" PROVE FALSE
  OBVIOUS
<1>1. ASSUME NEW q \in Request, NEW p, phase' = [phase EXCEPT ![q] = p],
             p = "done" => phase[q] = "data"
      PROVE  FALSE
  BY <1>1 DEF BufferTypeOK
<1>2. CASE UniflowNext
  <2> PICK q \in Request :
        \/ \E ds \in SUBSET Device : UniflowStart(q, ds)
        \/ PostTopology(q) \/ PostConnect(q) \/ UniflowSend(q) \/ Publish(q)
        \/ UniflowCallFails(q) \/ UniflowRaises(q) \/ UniflowClientFails(q)
        \/ UniflowCancelled(q) \/ UniflowHandlerFails(q)
        \/ RecvTopology(q) \/ RecvConnect(q) \/ UniflowHandle(q)
        \/ RecvAbort(q) \/ AbortIsLost(q)
    BY <1>2 DEF UniflowNext
  <2>1. \/ phase' = phase
        \/ \E p \in Phase : /\ phase' = [phase EXCEPT ![q] = p]
                            /\ p = "done" => phase[q] = "data"
    <3>1. {"topology", "connect", "hook", "data", "aborting", "done", "raised",
           "forsaken"} \subseteq Phase
      BY DEF Phase
    <3> QED BY <3>1
        DEF UniflowStart, PostTopology, PostConnect, UniflowSend, Publish,
            UniflowCallFails, UniflowRaises, UniflowClientFails, UniflowCancelled,
            UniflowHandlerFails, RecvTopology, RecvConnect, UniflowHandle, RecvAbort,
            AbortIsLost, EndRequest, Goto, Reply
  <2> QED BY <1>1, <2>1
<1>3. CASE GlooNext
  <2>1. CASE UNCHANGED phase
    BY <2>1
  <2>2. CASE \E q \in Request :
               \/ \E k \in Kind : GlooStart(q, k)
               \/ GlooPostHandshake(q) \/ GlooSend(q) \/ GlooHookFails(q)
               \/ GlooReturns(q) \/ GlooHandshakeRaises(q)
    <3> PICK q \in Request :
               \/ \E k \in Kind : GlooStart(q, k)
               \/ GlooPostHandshake(q) \/ GlooSend(q) \/ GlooHookFails(q)
               \/ GlooReturns(q) \/ GlooHandshakeRaises(q)
      BY <2>2
    <3>1. PICK p \in Phase : /\ phase' = [phase EXCEPT ![q] = p]
                             /\ p = "done" => phase[q] = "data"
      <4>1. {"handshake", "hook", "data", "done", "raised"} \subseteq Phase
        BY DEF Phase
      <4>2. CASE GlooReturns(q)
        BY <4>1, <4>2 DEF GlooReturns, Goto
      <4>3. CASE \E k \in Kind : GlooStart(q, k)
        BY <4>1, <4>3 DEF GlooStart, Goto
      <4>4. CASE GlooPostHandshake(q) \/ GlooSend(q)
        BY <4>1, <4>4 DEF GlooPostHandshake, GlooSend, Goto
      <4>5. CASE GlooHookFails(q) \/ GlooHandshakeRaises(q)
        BY <4>1, <4>5 DEF GlooHookFails, GlooHandshakeRaises, Goto
      <4> QED BY <4>2, <4>3, <4>4, <4>5
    <3> QED BY <1>1, <3>1
  <2> QED BY <1>3, <2>1, <2>2
          DEF GlooNext, GlooCallFails, NewClient, GlooRecvHandshake, GlooHandle,
              GlooRefuses, GlooServed, ClientPosts, VolumePosts, Meet, TimesOut,
              NewVolume, bufferVars
<1>4. CASE NixlNext
  <2> PICK q \in Request :
        \/ NixlSend(q) \/ NixlRefuses(q) \/ NixlReturns(q) \/ NixlAbandons(q)
        \/ NixlMovesNothing(q) \/ TensorFreed(q)
        \/ \E n \in Groups, raises \in BOOLEAN : NixlDispatch(q, n, raises)
        \/ \E fails \in BOOLEAN : TransferEnds(q, fails)
        \/ \E timedOut \in BOOLEAN : NixlServed(q, timedOut)
    BY <1>4 DEF NixlNext
  <2>1. \/ phase' = phase
        \/ \E p \in Phase : /\ phase' = [phase EXCEPT ![q] = p]
                            /\ p = "done" => phase[q] = "data"
    <3>1. {"data", "done", "raised", "forsaken"} \subseteq Phase
      BY DEF Phase
    <3> QED BY <3>1
        DEF NixlSend, NixlRefuses, NixlReturns, NixlAbandons, TensorFreed,
            NixlMovesNothing, NixlDispatch, TransferEnds, NixlServed,
            Goto, Reply, bufferVars
  <2> QED BY <1>1, <2>1
<1> QED BY <1>2, <1>3, <1>4 DEF Next

SeesTogether == transport = "SharedMemory" => SeesInv

LEMMA SeesTogetherStep ==
  ASSUME ~Racing, TransportsInv, TransportsInv', SeesTogether,
         [Next]_<<transportVars, transport>>
  PROVE  SeesTogether'
<1> SUFFICES ASSUME transport' = "SharedMemory" PROVE SeesInv'
  BY DEF SeesTogether
<1>1. CASE UNCHANGED <<transportVars, transport>>
  <2>1. UNCHANGED <<phase, rpc, call, stored, content, descriptor, copied, got, latest>>
    BY <1>1 DEF transportVars, bufferVars, tensorVars
  <2>2. SeesInv
    BY <1>1 DEF SeesTogether
  <2> QED BY <2>1, <2>2 DEF SeesInv, PutsRunAlone, KeptWhole, Sees, AllFrom, Active, Is,
                            KeyOf
<1>2. CASE Next
  <2>1. transport = "SharedMemory" /\ SharedMemoryNext
    BY <1>2 DEF Next
  <2> QED BY <2>1, SeesStep DEF SeesTogether, TransportsInv
<1> QED BY <1>1, <1>2

(***************************************************************************)
(* When a put or delete of a key does not overlap other calls on it, a get *)
(* over shared memory returns the whole tensor of one put: the last that   *)
(* returned or one that failed since, never a mix of two, and never what a *)
(* delete has left mapped, for any number of processes, keys and parts and *)
(* whatever calls fail or are refused.                                     *)
(***************************************************************************)
THEOREM LatestSeen == ~Racing => (Spec => GetSeesLatest)
<1> SUFFICES ASSUME ~Racing PROVE Spec => GetSeesLatest
  OBVIOUS
<1>1. Init => SeesTogether
  BY SeesInitially DEF Init, SeesTogether
<1>2. TransportsInv /\ TransportsInv' /\ SeesTogether
        /\ [Next]_<<transportVars, transport>> => SeesTogether'
  BY SeesTogetherStep
<1>3. TransportsInv /\ SeesTogether /\ [Next]_<<transportVars, transport>> =>
        [\A r \in Request :
           Is(r, "get") /\ phase[r] = "copy" /\ phase'[r] = "done" =>
             \E q \in latest[KeyOf(r)] : \A p \in Part : got'[r][p] = q]_shmVars
  <2> SUFFICES ASSUME TransportsInv, SeesTogether, [Next]_<<transportVars, transport>>,
                      NEW r \in Request, Is(r, "get"), phase[r] = "copy",
                      phase'[r] = "done"
               PROVE  \E q \in latest[KeyOf(r)] : \A p \in Part : got'[r][p] = q
    OBVIOUS
  <2>1. Next
    BY DEF transportVars, bufferVars
  <2>2. transport = "SharedMemory"
    BY <2>1, OthersNeverCopy DEF TransportsInv
  <2> QED BY <2>1, <2>2, GetsLatest DEF Next, TransportsInv, SeesTogether
<1> QED BY <1>1, <1>2, <1>3, TransportsInvariant, PTL DEF Spec, GetSeesLatest
=============================================================================
