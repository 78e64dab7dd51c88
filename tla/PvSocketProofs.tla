--------------------------- MODULE PvSocketProofs ---------------------------
(***************************************************************************)
(* Proofs about PvSocket, for any clients, PVs and closures, any cap and   *)
(* any number of values.                                                   *)
(***************************************************************************)
EXTENDS PvSocket, FiniteSetTheorems, TLAPS

LEMMA CallbackFacts ==
    /\ \A cb \in Callback : PvOf(cb) \in PV /\ cb # NoCallback
    /\ \A p \in PV, k \in Copy : <<p, k>> \in Callback /\ PvOf(<<p, k>>) = p
  BY NoCallbackAssumption DEF Callback, PvOf

-----------------------------------------------------------------------------
(* Type correctness                                                        *)

\* The variables of the monitor keep their types under its operations.
LEMMA CallTypes ==
    ASSUME M!TypeInvariant, NEW p \in PV, NEW cb \in Callback \cup {NoCallback},
           NEW v \in Value \cup {NoValue},
           \/ M!Track(p, cb, v)
           \/ M!TrackAndRaise(p, v)
           \/ cb \in Callback /\ M!Join(p, cb)
           \/ M!Release(p, cb)
    PROVE  M!TypeInvariant'
<1> USE DEF M!TypeInvariant, M!Given
<1>1. CASE M!Track(p, cb, v)
  BY <1>1 DEF M!Track
<1>2. CASE M!TrackAndRaise(p, v)
  BY <1>2 DEF M!TrackAndRaise
<1>3. CASE cb \in Callback /\ M!Join(p, cb)
  BY <1>3 DEF M!Join
<1>4. CASE M!Release(p, cb)
  BY <1>4 DEF M!Release
<1> QED
  BY <1>1, <1>2, <1>3, <1>4

LEMMA UpdateTypes ==
    ASSUME M!TypeInvariant, NEW p \in PV, NEW v \in Value,
           \/ M!ReadValue(p, v)
           \/ M!Owe(p)
           \/ M!Update(p, v)
           \/ \E cb \in Callback : M!Call(cb)
    PROVE  M!TypeInvariant'
<1> USE DEF M!TypeInvariant
<1>1. CASE M!ReadValue(p, v)
  BY <1>1 DEF M!ReadValue
<1>2. CASE M!Owe(p)
  BY <1>2 DEF M!Owe
<1>3. CASE M!Update(p, v)
  BY <1>3 DEF M!Update
<1>4. CASE \E cb \in Callback : M!Call(cb)
  BY <1>4 DEF M!Call
<1> QED
  BY <1>1, <1>2, <1>3, <1>4

\* A PV has a callback as long as it has clients: this is why the callbacks the
\* last client takes with it are ones.
Linked == \A p \in PV : pvClients[p] # {} <=> pvCallback[p] # NoCallback

Types == TypeOK /\ Linked

LEMMA EnteringTypes ==
    ASSUME Types, NEW c \in Client, NEW ps \in SUBSET PV, EnterSubscriptions(c, ps),
           M!TypeInvariant', UNCHANGED <<current, phase, connections>>,
           probing' \in [Client -> SUBSET PV]
    PROVE  Types'
<1> USE DEF Types, TypeOK
<1> DEFINE new == {p \in ps : pvClients[p] = {}}
<1>1. PICK copy \in [new -> Copy] :
        /\ pvCallback' = [p \in PV |-> IF p \in new THEN <<p, copy[p]>> ELSE pvCallback[p]]
        /\ toSubscribe' = [toSubscribe EXCEPT ![c] = {<<p, copy[p]>> : p \in new}]
  BY DEF EnterSubscriptions
<1>2. \A p \in new : <<p, copy[p]>> \in Callback /\ <<p, copy[p]>> # NoCallback
  BY CallbackFacts
<1>3. pvClients' = [p \in PV |-> IF p \in ps THEN pvClients[p] \cup {c} ELSE pvClients[p]]
  BY DEF EnterSubscriptions
<1>4. /\ pvCallback' \in [PV -> Callback \cup {NoCallback}]
      /\ toSubscribe' \in [Client -> SUBSET Callback]
  BY <1>1, <1>2
<1>5. Linked'
  BY <1>1, <1>2, <1>3 DEF Linked
<1>6. /\ seen' \in [Client -> [PV -> Value \cup {NoValue}]]
      /\ early' \subseteq Client \X PV
  BY DEF EnterSubscriptions
<1> HIDE DEF new
<1> QED
  BY <1>3, <1>4, <1>5, <1>6 DEF EnterSubscriptions

LEMMA LeavingTypes ==
    ASSUME Types, NEW c \in Client, NEW ps \in SUBSET PV, LeavePVs(c, ps),
           UNCHANGED <<monitor, current, probing, toSubscribe, failed, toFetch, fetched>>,
           phase' \in [Client -> {"new", "open", "left"}], connections' \subseteq Client,
           subscriptions' \in [Client -> SUBSET PV]
    PROVE  Types'
<1> USE DEF Types, TypeOK
<1> DEFINE last == {p \in ps : pvClients[p] # {} /\ pvClients[p] \subseteq {c}}
<1>1. /\ pvClients' = [p \in PV |-> IF p \in ps THEN pvClients[p] \ {c} ELSE pvClients[p]]
      /\ pvCallback' = [p \in PV |-> IF p \in last THEN NoCallback ELSE pvCallback[p]]
      /\ toUnsubscribe' = [toUnsubscribe EXCEPT ![c] = {pvCallback[p] : p \in last}]
  BY DEF LeavePVs
<1>2. \A p \in last : pvCallback[p] \in Callback
  BY DEF Linked
<1>3. Linked'
  BY <1>1 DEF Linked
<1>4. toUnsubscribe' \in [Client -> SUBSET Callback]
  <2>1. {pvCallback[p] : p \in last} \subseteq Callback
    BY <1>2
  <2> HIDE DEF last
  <2> QED
    BY <1>1, <2>1
<1>5. M!TypeInvariant'
  BY DEF monitor, M!TypeInvariant
<1>6. /\ pvClients' \in [PV -> SUBSET Client]
      /\ pvCallback' \in [PV -> Callback \cup {NoCallback}]
      /\ early' \subseteq early /\ UNCHANGED <<broadcasts, outbox, seen>>
  <2> HIDE DEF last
  <2> QED
    BY <1>1 DEF LeavePVs
<1> HIDE DEF last
<1> QED
  BY <1>3, <1>4, <1>5, <1>6

LEMMA TypesStep == Types /\ [Next]_vars => Types'
<1> SUFFICES ASSUME Types, [Next]_vars PROVE Types'
  OBVIOUS
<1> USE MaxVersionAssumption DEF Types, TypeOK
<1>1. ASSUME NEW c \in Client, HandlerStep(c) PROVE Types'
  <2>1. ASSUME NEW cb \in Callback, SubscribeReturns(c, cb) PROVE Types'
    <3>1. \A v \in {current[PvOf(cb)], NoValue} : v \in Value \cup {NoValue}
      BY CallbackFacts
    <3>2. M!TypeInvariant'
      BY <2>1, <3>1, CallbackFacts, CallTypes DEF SubscribeReturns
    <3> QED
      BY <2>1, <3>2 DEF SubscribeReturns, routes, delivery, Linked
  <2>2. ASSUME NEW cb \in Callback, SubscribeRaises(c, cb) PROVE Types'
    <3>1. \A v \in {current[PvOf(cb)], NoValue} : v \in Value \cup {NoValue}
      BY CallbackFacts
    <3>2. M!TypeInvariant'
      <4>1. CASE UNCHANGED monitor
        BY <4>1 DEF monitor, M!TypeInvariant
      <4>2. CASE \E v \in {current[PvOf(cb)], NoValue} : M!TrackAndRaise(PvOf(cb), v)
        BY <3>1, <4>2, CallbackFacts, CallTypes
      <4> QED
        BY <2>2, <4>1, <4>2 DEF SubscribeRaises
    <3> QED
      BY <2>2, <3>2, CallbackFacts DEF SubscribeRaises, routes, delivery, Linked
  <2>3. ASSUME NEW cb \in Callback, UnsubscribeReturns(c, cb) PROVE Types'
    <3>1. M!TypeInvariant'
      BY <2>3, CallbackFacts, CallTypes DEF UnsubscribeReturns
    <3> QED
      BY <2>3, <3>1 DEF UnsubscribeReturns, routes, delivery, Linked
  <2>4. CASE HandleFailure(c)
    BY <2>4 DEF HandleFailure, monitor, delivery, M!TypeInvariant, Linked
  <2>5. ASSUME NEW p \in PV, FetchValue(c, p) PROVE Types'
    BY <2>5 DEF FetchValue, monitor, routes, delivery, M!TypeInvariant, Linked
  <2>6. ASSUME NEW p \in PV, SendFetched(c, p) PROVE Types'
    BY <2>6 DEF SendFetched, Send, monitor, routes, M!TypeInvariant, Linked
  <2>7. ASSUME NEW p \in PV, ProbeConnects(c, p) PROVE Types'
    <3>1. \A v \in {current[p], NoValue} : v \in Value \cup {NoValue}
      OBVIOUS
    <3>2. M!TypeInvariant'
      BY <2>7, <3>1, CallTypes DEF ProbeConnects
    <3> QED
      BY <2>7, <3>2 DEF ProbeConnects, routes, handler, delivery, Linked
  <2>8. ASSUME NEW p \in PV, ProbeAccepts(c, p) PROVE Types'
    <3>1. /\ probing' \in [Client -> SUBSET PV] /\ M!TypeInvariant'
          /\ UNCHANGED <<current, phase, connections>>
      BY <2>8 DEF ProbeAccepts, monitor, M!TypeInvariant
    <3>2. CASE c \in connections
      BY <2>8, <3>1, <3>2, EnteringTypes DEF ProbeAccepts
    <3>3. CASE c \notin connections
      BY <2>8, <3>1, <3>3 DEF ProbeAccepts, routes, delivery, Linked
    <3> QED
      BY <3>2, <3>3
  <2>9. ASSUME NEW p \in PV, ProbeRejects(c, p) PROVE Types'
    BY <2>9 DEF ProbeRejects, monitor, routes, delivery, M!TypeInvariant, Linked
  <2> QED
    BY <1>1, <2>1, <2>2, <2>3, <2>4, <2>5, <2>6, <2>7, <2>8, <2>9 DEF HandlerStep
<1>2. ASSUME NEW c \in Client, ClientRequest(c) PROVE Types'
  <2>1. CASE Connect(c)
    BY <2>1 DEF Connect, monitor, routes, handler, delivery, M!TypeInvariant, Linked
  <2>2. ASSUME NEW ps \in SUBSET PV, Subscribe(c, ps) PROVE Types'
    <3>1. M!TypeInvariant'
      BY <2>2 DEF Subscribe, monitor, M!TypeInvariant
    <3> QED
      BY <2>2, <3>1, EnteringTypes DEF Subscribe
  <2>3. ASSUME NEW ps \in SUBSET PV, Unsubscribe(c, ps) PROVE Types'
    BY <2>3, LeavingTypes DEF Unsubscribe
  <2>4. ASSUME NEW p \in PV, SubscribeSafely(c, p) PROVE Types'
    BY <2>4 DEF SubscribeSafely, monitor, routes, delivery, M!TypeInvariant, Linked
  <2>5. CASE Refresh(c)
    BY <2>5 DEF Refresh, monitor, routes, delivery, M!TypeInvariant, Linked
  <2>6. CASE Disconnect(c)
    <3>1. /\ subscriptions[c] \in SUBSET PV
          /\ phase' \in [Client -> {"new", "open", "left"}] /\ connections' \subseteq Client
          /\ subscriptions' \in [Client -> SUBSET PV]
      BY <2>6 DEF Disconnect
    <3> QED
      BY <2>6, <3>1, LeavingTypes DEF Disconnect
  <2> QED
    BY <1>2, <2>1, <2>2, <2>3, <2>4, <2>5, <2>6 DEF ClientRequest
<1>3. CASE Delivery
  <2>1. ASSUME NEW cb \in Callback, CallCallback(cb) PROVE Types'
    <3>1. valueCalls[cb] \in Value /\ M!TypeInvariant'
      BY <2>1 DEF CallCallback, M!Call, M!TypeInvariant
    <3> QED
      BY <2>1, <3>1, CallbackFacts DEF CallCallback, routes, handler, Linked
  <2>2. ASSUME NEW p \in PV, NEW v \in Value, StartBroadcast(p, v) PROVE Types'
    <3>1. pvClients[p] \X {p} \X {v} \subseteq Client \X PV \X Value
      OBVIOUS
    <3> QED
      BY <2>2, <3>1 DEF StartBroadcast, monitor, routes, handler, M!TypeInvariant, Linked
  <2>3. ASSUME NEW p \in PV, NEW v \in Value, NEW c \in Client, SendBroadcast(c, p, v) PROVE Types'
    BY <2>3 DEF SendBroadcast, Send, monitor, routes, handler, M!TypeInvariant, Linked
  <2> QED
    BY <1>3, <2>1, <2>2, <2>3 DEF Delivery
<1>4. CASE World
  <2>1. CASE CloseAll
    BY <2>1 DEF CloseAll, monitor, routes, handler, delivery, M!TypeInvariant, Linked
  <2>2. ASSUME NEW p \in PV, HttpSubscribes(p) \/ GetValueReads(p) PROVE Types'
    <3>1. \A v \in {current[p], NoValue} : v \in Value \cup {NoValue}
      OBVIOUS
    <3>2. M!TypeInvariant'
      BY <2>2, <3>1, CallTypes, UpdateTypes DEF HttpSubscribes, GetValueReads
    <3> QED
      BY <2>2, <3>2 DEF HttpSubscribes, GetValueReads, Rest, routes, handler, delivery, Linked
  <2>3. ASSUME NEW p \in PV, IocChanges(p) PROVE Types'
    <3>1. current' \in [PV -> Value]
      BY <2>3 DEF IocChanges, Value
    <3>2. current[p] \in Value
      OBVIOUS
    <3>3. M!TypeInvariant'
      BY <2>3, <3>2, UpdateTypes DEF IocChanges, monitor, M!TypeInvariant
    <3> QED
      BY <2>3, <3>1, <3>3 DEF IocChanges, Rest, routes, handler, delivery, Linked
  <2>4. ASSUME NEW p \in PV, MonitorUpdates(p) PROVE Types'
    <3>1. \A v \in 1 .. current[p] : v \in Value
      BY DEF Value
    <3>2. M!TypeInvariant'
      BY <2>4, <3>1, UpdateTypes DEF MonitorUpdates
    <3> QED
      BY <2>4, <3>2 DEF MonitorUpdates, Rest, routes, handler, delivery, Linked
  <2> QED
    BY <1>4, <2>1, <2>2, <2>3, <2>4 DEF World
<1>5. CASE UNCHANGED vars
  BY <1>5 DEF vars, monitor, routes, handler, delivery, M!TypeInvariant, Linked
<1> QED
  BY <1>1, <1>2, <1>3, <1>4, <1>5 DEF Next

LEMMA TypesInvariance == Spec => []Types
<1>1. Init => Types
  BY MaxVersionAssumption DEF Init, Types, TypeOK, Linked, M!Init, M!TypeInvariant, Value, NoValue
<1> QED
  BY <1>1, TypesStep, PTL DEF Spec

\* The types hold; what the monitor is told to remove are callbacks.
THEOREM TypeCorrect == Spec => []TypeOK
<1>1. Types => TypeOK
  BY DEF Types
<1> QED
  BY <1>1, TypesInvariance, PTL

-----------------------------------------------------------------------------
(* The cap                                                                 *)

\* A PV being probed fits under the cap: nothing else enters PVs for the client
\* meanwhile.
CapInv ==
    \A c \in Client :
        /\ IsFiniteSet(subscriptions[c])
        /\ Cap > 0 => Cardinality(subscriptions[c]) <= Cap
        /\ Cap > 0 /\ probing[c] # {} => Cardinality(subscriptions[c]) + 1 <= Cap

LEMMA UnionFits ==
    ASSUME NEW S, NEW T, IsFiniteSet(S), IsFiniteSet(T)
    PROVE  /\ IsFiniteSet(S \cup T)
           /\ Cardinality(S) \in Nat /\ Cardinality(T) \in Nat /\ Cardinality(S \cup T) \in Nat
           /\ Cardinality(S \cup T) <= Cardinality(S) + Cardinality(T)
<1>1. /\ IsFiniteSet(S \cup T) /\ IsFiniteSet(S \cap T)
      /\ Cardinality(S \cup T) = Cardinality(S) + Cardinality(T) - Cardinality(S \cap T)
  BY FS_Union, FS_Intersection
<1>2. /\ Cardinality(S) \in Nat /\ Cardinality(T) \in Nat
      /\ Cardinality(S \cup T) \in Nat /\ Cardinality(S \cap T) \in Nat
  BY <1>1, FS_CardinalityType
<1> QED
  BY <1>1, <1>2

\* No step but five touches what the cap is about.
LEMMA CapFrame ==
    ASSUME TypeOK, [Next]_vars,
           ~ \E c \in Client :
                \/ Disconnect(c)
                \/ \E ps \in SUBSET PV : Subscribe(c, ps) \/ Unsubscribe(c, ps)
                \/ \E p \in PV : SubscribeSafely(c, p) \/ ProbeAccepts(c, p)
    PROVE  subscriptions' = subscriptions /\ \A c \in Client : probing'[c] \subseteq probing[c]
<1> USE DEF TypeOK
<1>1. ASSUME NEW c \in Client, HandlerStep(c)
      PROVE  subscriptions' = subscriptions /\ \A e \in Client : probing'[e] \subseteq probing[e]
  BY <1>1 DEF HandlerStep, SubscribeReturns, SubscribeRaises, UnsubscribeReturns, HandleFailure,
     FetchValue, SendFetched, ProbeConnects, ProbeRejects, routes, handler
<1>2. ASSUME NEW c \in Client, ClientRequest(c)
      PROVE  subscriptions' = subscriptions /\ probing' = probing
  BY <1>2 DEF ClientRequest, Connect, Refresh, routes, handler
<1>3. CASE Delivery
  BY <1>3 DEF Delivery, CallCallback, StartBroadcast, SendBroadcast, routes, handler
<1>4. CASE World
  BY <1>4 DEF World, CloseAll, HttpSubscribes, GetValueReads, IocChanges, MonitorUpdates, Rest,
     routes, handler
<1>5. CASE UNCHANGED vars
  BY <1>5 DEF vars, routes, handler
<1> QED
  BY <1>1, <1>2, <1>3, <1>4, <1>5 DEF Next

\* However requests, probes and failures interleave, no client ever has more
\* PVs than the cap allows.
THEOREM CapNeverExceeded == Spec => []CapHolds
<1> USE CapAssumption DEF TypeOK
<1>1. Init => CapInv
  BY FS_EmptySet DEF Init, CapInv
<1>2. TypeOK /\ CapInv /\ [Next]_vars => CapInv'
  <2> SUFFICES ASSUME TypeOK, CapInv, [Next]_vars PROVE CapInv'
    OBVIOUS
  <2>1. ASSUME NEW c \in Client, NEW ps \in SUBSET PV, Subscribe(c, ps) PROVE CapInv'
    <3>1. /\ subscriptions' = [subscriptions EXCEPT ![c] = @ \cup ps]
          /\ probing' = probing /\ probing[c] = {}
          /\ Cap = 0 \/ Cardinality(subscriptions[c]) + Cardinality(ps) <= Cap
      BY <2>1 DEF Subscribe, EnterSubscriptions, Receiving, WithinCap
    <3>2. IsFiniteSet(ps) /\ IsFiniteSet(subscriptions[c])
      BY PVAssumption, FS_Subset DEF CapInv
    <3>3. /\ IsFiniteSet(subscriptions[c] \cup ps)
          /\ Cap > 0 => Cardinality(subscriptions[c] \cup ps) <= Cap
      <4>1. /\ IsFiniteSet(subscriptions[c] \cup ps)
            /\ Cardinality(subscriptions[c]) \in Nat /\ Cardinality(ps) \in Nat
            /\ Cardinality(subscriptions[c] \cup ps) \in Nat
            /\ Cardinality(subscriptions[c] \cup ps) <= Cardinality(subscriptions[c]) + Cardinality(ps)
        BY <3>2, UnionFits, Zenon
      <4> QED
        BY <3>1, <4>1
    <3> QED
      BY <3>1, <3>3 DEF CapInv
  <2>2. ASSUME NEW c \in Client, NEW p \in PV, ProbeAccepts(c, p) PROVE CapInv'
    <3>1. probing' = [probing EXCEPT ![c] = {}] /\ probing[c] # {}
      BY <2>2 DEF ProbeAccepts
    <3>2. \/ subscriptions' = [subscriptions EXCEPT ![c] = @ \cup {p}]
          \/ subscriptions' = subscriptions
      BY <2>2 DEF ProbeAccepts, EnterSubscriptions, routes
    <3>3. IsFiniteSet({p}) /\ Cardinality({p}) = 1 /\ IsFiniteSet(subscriptions[c])
      BY FS_Singleton DEF CapInv
    <3>4. /\ IsFiniteSet(subscriptions[c] \cup {p})
          /\ Cap > 0 => Cardinality(subscriptions[c] \cup {p}) <= Cap
      <4>1. Cap > 0 => Cardinality(subscriptions[c]) + 1 <= Cap
        BY <3>1 DEF CapInv
      <4>2. /\ IsFiniteSet(subscriptions[c] \cup {p})
            /\ Cardinality(subscriptions[c]) \in Nat /\ Cardinality(subscriptions[c] \cup {p}) \in Nat
            /\ Cardinality(subscriptions[c] \cup {p}) <= Cardinality(subscriptions[c]) + Cardinality({p})
        BY <3>3, UnionFits, Zenon
      <4> QED
        BY <3>3, <4>1, <4>2
    <3> QED
      BY <3>1, <3>2, <3>4 DEF CapInv
  <2>3. ASSUME NEW c \in Client, NEW p \in PV, SubscribeSafely(c, p) PROVE CapInv'
    BY <2>3 DEF SubscribeSafely, WithinCap, routes, CapInv
  <2>4. ASSUME NEW c \in Client, NEW ps \in SUBSET PV, Unsubscribe(c, ps) PROVE CapInv'
    <3>1. /\ subscriptions' = [subscriptions EXCEPT ![c] = @ \ ps]
          /\ probing' = probing /\ probing[c] = {}
      BY <2>4 DEF Unsubscribe, Receiving
    <3>2. /\ IsFiniteSet(subscriptions[c] \ ps)
          /\ Cardinality(subscriptions[c] \ ps) <= Cardinality(subscriptions[c])
      BY FS_Subset DEF CapInv
    <3>3. Cardinality(subscriptions[c]) \in Nat /\ Cardinality(subscriptions[c] \ ps) \in Nat
      BY <3>2, FS_CardinalityType DEF CapInv
    <3> QED
      BY <3>1, <3>2, <3>3 DEF CapInv
  <2>5. ASSUME NEW c \in Client, Disconnect(c) PROVE CapInv'
    BY <2>5, FS_EmptySet DEF Disconnect, Receiving, CapInv
  <2>6. CASE subscriptions' = subscriptions /\ \A c \in Client : probing'[c] \subseteq probing[c]
    BY <2>6 DEF CapInv
  <2> QED
    BY <2>1, <2>2, <2>3, <2>4, <2>5, <2>6, CapFrame
<1>3. CapInv => CapHolds
  BY DEF CapInv, CapHolds
<1> QED
  BY <1>1, <1>2, <1>3, TypeCorrect, PTL DEF Spec

-----------------------------------------------------------------------------
(* The routes and the monitor                                              *)

\* A callback is on its way to the monitor for one client only, a failure is
\* handled by one client only, and a client that probes a PV does nothing else.
HandlerInv ==
    /\ \A c \in Client : probing[c] # {} =>
        phase[c] = "open" /\ toSubscribe[c] = {} /\ failed[c] = {} /\ toUnsubscribe[c] = {}
    /\ \A c, e \in Client : \A cb \in toSubscribe[c] : cb \in toSubscribe[e] => c = e
    /\ \A c, e \in Client : \A p \in failed[c] : p \in failed[e] => c = e

\* A callback on its way to the monitor is the routed one of a PV its client is
\* entered for, and not there yet.
Arriving ==
    \A c \in Client : \A cb \in toSubscribe[c] :
        /\ pvCallback[PvOf(cb)] = cb
        /\ c \in pvClients[PvOf(cb)]
        /\ cb \notin callbacks[PvOf(cb)]

\* One whose subscribe raised stays routed until that is handled, and is neither
\* there nor on its way.
Failing ==
    \A c \in Client : \A p \in failed[c] :
        /\ pvCallback[p] # NoCallback
        /\ c \in pvClients[p]
        /\ pvCallback[p] \notin callbacks[p]
        /\ \A e \in Client : pvCallback[p] \notin toSubscribe[e]

\* One on its way out of the monitor is not routed.
Departing ==
    \A c \in Client : \A cb \in toUnsubscribe[c] : pvCallback[PvOf(cb)] # cb

\* Callbacks are kept with the PV they are bound to.
Bound ==
    /\ \A p \in PV : \A cb \in callbacks[p] : PvOf(cb) = p
    /\ \A p \in PV : pvCallback[p] # NoCallback => PvOf(pvCallback[p]) = p

IInv ==
    /\ HandlerInv /\ Arriving /\ Failing /\ Departing /\ Bound
    /\ RoutesAgree /\ MonitorMatchesRoutes

routing ==
    <<phase, routes, callbacks, probing, toSubscribe, failed, toUnsubscribe>>

\* Most steps leave all of this alone.
LEMMA RoutingFrame == ASSUME IInv, UNCHANGED routing PROVE IInv'
  BY DEF IInv, HandlerInv, Arriving, Failing, Departing, Bound, RoutesAgree,
     MonitorMatchesRoutes, routing, routes

\* The PVs without clients get a callback nobody has.
LEMMA Entering ==
    ASSUME TypeOK, TypeOK', IInv, NEW c \in Client, NEW ps \in SUBSET PV,
           EnterSubscriptions(c, ps),
           phase[c] = "open", toSubscribe[c] = {}, failed[c] = {}, toUnsubscribe[c] = {},
           probing' = [probing EXCEPT ![c] = {}],
           UNCHANGED <<phase, callbacks>>
    PROVE  IInv'
<1>0. /\ subscriptions \in [Client -> SUBSET PV] /\ pvClients \in [PV -> SUBSET Client]
      /\ pvClients' \in [PV -> SUBSET Client]
      /\ pvCallback \in [PV -> Callback \cup {NoCallback}] /\ callbacks \in [PV -> SUBSET Callback]
      /\ probing \in [Client -> SUBSET PV] /\ failed \in [Client -> SUBSET PV]
      /\ toSubscribe \in [Client -> SUBSET Callback]
      /\ toUnsubscribe \in [Client -> SUBSET Callback]
  BY DEF TypeOK, M!TypeInvariant
<1> DEFINE new == {p \in ps : pvClients[p] = {}}
<1>1. PICK copy \in [new -> Copy] :
        /\ \A p \in new : Fresh(<<p, copy[p]>>)
        /\ pvCallback' = [p \in PV |-> IF p \in new THEN <<p, copy[p]>> ELSE pvCallback[p]]
        /\ toSubscribe' = [toSubscribe EXCEPT ![c] = {<<p, copy[p]>> : p \in new}]
  BY DEF EnterSubscriptions
<1> DEFINE made(p) == <<p, copy[p]>>
<1>2. \A p \in new : /\ made(p) \in Callback /\ made(p) # NoCallback /\ PvOf(made(p)) = p
                     /\ Fresh(made(p))
  BY <1>1, CallbackFacts
<1>3. \A p \in PV : p \in new <=> p \in ps /\ pvClients[p] = {}
  OBVIOUS
<1>4. new \subseteq PV
  OBVIOUS
<1> HIDE DEF made, new
<1>5. /\ \A p \in PV : pvCallback'[p] = IF p \in new THEN made(p) ELSE pvCallback[p]
      /\ \A cb \in toSubscribe'[c] : \E p \in new : cb = made(p)
      /\ \A p \in new : made(p) \in toSubscribe'[c]
      /\ \A e \in Client \ {c} : toSubscribe'[e] = toSubscribe[e]
  BY <1>0, <1>1, <1>4 DEF made
<1>6. /\ \A p \in PV : pvClients'[p] = IF p \in ps THEN pvClients[p] \cup {c} ELSE pvClients[p]
      /\ \A e \in Client : subscriptions'[e] = IF e = c THEN subscriptions[c] \cup ps
                                               ELSE subscriptions[e]
      /\ UNCHANGED <<failed, toUnsubscribe>>
  BY <1>0 DEF EnterSubscriptions
<1>7. \A p \in new : pvCallback[p] = NoCallback
  BY <1>3, <1>4 DEF IInv, RoutesAgree
<1>8. \A e \in Client : \A cb \in toSubscribe[e] :
        e # c /\ cb \in Callback /\ PvOf(cb) \in PV /\ PvOf(cb) \notin new
  BY <1>0, <1>3, CallbackFacts DEF IInv, Arriving
<1>9. \A e \in Client : \A p \in failed[e] : e # c /\ p \in PV /\ p \notin new
  BY <1>0, <1>3 DEF IInv, Failing
<1>10. HandlerInv'
  <2>1. \A e \in Client : probing'[e] # {} =>
          phase'[e] = "open" /\ toSubscribe'[e] = {} /\ failed'[e] = {} /\ toUnsubscribe'[e] = {}
    BY <1>0, <1>5, <1>6 DEF IInv, HandlerInv
  <2>2. \A e, f \in Client : \A cb \in toSubscribe'[e] : cb \in toSubscribe'[f] => e = f
    <3> SUFFICES ASSUME NEW e \in Client, NEW f \in Client, NEW cb, cb \in toSubscribe'[e],
                        cb \in toSubscribe'[f], e # f
                 PROVE  FALSE
      OBVIOUS
    <3>1. CASE e # c /\ f # c
      BY <1>5, <3>1 DEF IInv, HandlerInv
    <3>2. CASE e = c \/ f = c
      <4>1. PICK p \in new : cb = made(p)
        BY <1>5, <3>2
      <4>2. cb \in toSubscribe[e] \/ cb \in toSubscribe[f]
        BY <1>5, <3>2
      <4> QED
        BY <1>2, <4>1, <4>2 DEF Fresh
    <3> QED
      BY <3>1, <3>2
  <2>3. \A e, f \in Client : \A p \in failed'[e] : p \in failed'[f] => e = f
    BY <1>6 DEF IInv, HandlerInv
  <2> QED
    BY <2>1, <2>2, <2>3 DEF HandlerInv
<1>11. Arriving'
  <2> SUFFICES ASSUME NEW e \in Client, NEW cb \in toSubscribe'[e]
               PROVE  /\ pvCallback'[PvOf(cb)] = cb
                      /\ e \in pvClients'[PvOf(cb)]
                      /\ cb \notin callbacks'[PvOf(cb)]
    BY DEF Arriving
  <2>1. CASE e = c
    <3>1. PICK p \in new : cb = made(p)
      BY <1>5, <2>1
    <3>2. PvOf(cb) = p /\ p \in PV /\ p \in ps /\ Fresh(cb)
      BY <1>2, <1>3, <1>4, <3>1
    <3>3. cb \notin callbacks[p]
      BY <3>2 DEF Fresh
    <3> QED
      BY <1>5, <1>6, <2>1, <3>1, <3>2, <3>3
  <2>2. CASE e # c
    <3>1. cb \in toSubscribe[e]
      BY <1>5, <2>2
    <3>2. PvOf(cb) \in PV /\ PvOf(cb) \notin new
      BY <1>8, <3>1
    <3>3. pvCallback[PvOf(cb)] = cb /\ e \in pvClients[PvOf(cb)] /\ cb \notin callbacks[PvOf(cb)]
      BY <3>1 DEF IInv, Arriving
    <3> QED
      BY <1>5, <1>6, <3>2, <3>3
  <2> QED
    BY <2>1, <2>2
<1>12. Failing'
  <2> SUFFICES ASSUME NEW e \in Client, NEW p \in failed[e]
               PROVE  /\ pvCallback'[p] # NoCallback
                      /\ e \in pvClients'[p]
                      /\ pvCallback'[p] \notin callbacks'[p]
                      /\ \A f \in Client : pvCallback'[p] \notin toSubscribe'[f]
    BY <1>6 DEF Failing
  <2>1. p \in PV /\ pvCallback'[p] = pvCallback[p] /\ e \in pvClients'[p]
    BY <1>5, <1>6, <1>9 DEF IInv, Failing
  <2>2. pvCallback[p] # NoCallback /\ pvCallback[p] \notin callbacks[p]
    BY DEF IInv, Failing
  <2>3. ASSUME NEW f \in Client PROVE pvCallback[p] \notin toSubscribe'[f]
    <3>1. CASE f = c
      <4>1. PvOf(pvCallback[p]) = p
        BY <2>1, <2>2 DEF IInv, Bound
      <4> QED
        BY <1>2, <1>5, <1>9, <3>1, <4>1
    <3>2. CASE f # c
      BY <1>5, <3>2 DEF IInv, Failing
    <3> QED
      BY <3>1, <3>2
  <2> QED
    BY <2>1, <2>2, <2>3
<1>13. Departing'
  <2> SUFFICES ASSUME NEW e \in Client, NEW cb \in toUnsubscribe[e] PROVE pvCallback'[PvOf(cb)] # cb
    BY <1>6 DEF Departing
  <2>1. PvOf(cb) \in PV
    BY <1>0, CallbackFacts
  <2>2. CASE PvOf(cb) \in new
    BY <1>2, <1>5, <2>1, <2>2 DEF Fresh
  <2>3. CASE PvOf(cb) \notin new
    BY <1>5, <2>1, <2>3 DEF IInv, Departing
  <2> QED
    BY <2>2, <2>3
<1>14. Bound'
  BY <1>2, <1>5 DEF IInv, Bound
<1>15. RoutesAgree'
  <2> SUFFICES ASSUME NEW p \in PV
               PROVE  /\ \A e \in pvClients'[p] : phase'[e] = "open" /\ p \in subscriptions'[e]
                      /\ pvClients'[p] # {} <=> pvCallback'[p] # NoCallback
    BY DEF RoutesAgree
  <2>1. \A e \in pvClients'[p] : phase'[e] = "open" /\ p \in subscriptions'[e]
    BY <1>0, <1>6 DEF IInv, RoutesAgree
  <2>2. pvClients'[p] # {} <=> pvCallback'[p] # NoCallback
    <3>1. CASE p \in new
      BY <1>2, <1>3, <1>5, <1>6, <3>1
    <3>2. CASE p \notin new
      <4>1. pvCallback'[p] = pvCallback[p] /\ (pvClients'[p] # {} <=> pvClients[p] # {})
        BY <1>3, <1>5, <1>6, <3>2
      <4> QED
        BY <4>1 DEF IInv, RoutesAgree
    <3> QED
      BY <3>1, <3>2
  <2> QED
    BY <2>1, <2>2
<1>16. MonitorMatchesRoutes'
  <2> SUFFICES ASSUME NEW p \in PV
               PROVE  /\ \A cb \in callbacks[p] :
                            cb = pvCallback'[p] \/ \E e \in Client : cb \in toUnsubscribe[e]
                      /\ pvCallback'[p] # NoCallback =>
                            \/ pvCallback'[p] \in callbacks[p]
                            \/ \E e \in pvClients'[p] :
                                pvCallback'[p] \in toSubscribe'[e] \/ p \in failed[e]
    BY <1>6 DEF MonitorMatchesRoutes
  <2>1. CASE p \in new
    <3>1. \A cb \in callbacks[p] : \E e \in Client : cb \in toUnsubscribe[e]
      <4>1. \A cb \in callbacks[p] : cb # NoCallback
        BY <1>0, CallbackFacts
      <4> QED
        BY <1>7, <2>1, <4>1 DEF IInv, MonitorMatchesRoutes
    <3>2. c \in pvClients'[p] /\ pvCallback'[p] \in toSubscribe'[c]
      BY <1>3, <1>5, <1>6, <2>1
    <3> QED
      BY <3>1, <3>2
  <2>2. CASE p \notin new
    <3>1. pvCallback'[p] = pvCallback[p] /\ pvClients[p] \subseteq pvClients'[p]
      BY <1>5, <1>6, <2>2
    <3>2. \A e \in Client : toSubscribe[e] \subseteq toSubscribe'[e]
      BY <1>5
    <3> QED
      BY <1>0, <3>1, <3>2 DEF IInv, MonitorMatchesRoutes
  <2> QED
    BY <2>1, <2>2
<1> QED
  BY <1>10, <1>11, <1>12, <1>13, <1>14, <1>15, <1>16 DEF IInv

\* The last client takes the callback of the PV with it, which is on its way out
\* of the monitor from then on.
LEMMA Leaving ==
    ASSUME TypeOK, TypeOK', IInv, NEW c \in Client, NEW ps \in SUBSET PV,
           Receiving(c), LeavePVs(c, ps),
           subscriptions' = [subscriptions EXCEPT ![c] = @ \ ps],
           \A e \in Client \ {c} : phase'[e] = phase[e],
           phase'[c] = "open" \/ subscriptions'[c] = {},
           UNCHANGED <<callbacks, probing, toSubscribe, failed>>
    PROVE  IInv'
<1>0. /\ subscriptions \in [Client -> SUBSET PV] /\ pvClients \in [PV -> SUBSET Client]
      /\ pvClients' \in [PV -> SUBSET Client]
      /\ pvCallback \in [PV -> Callback \cup {NoCallback}] /\ callbacks \in [PV -> SUBSET Callback]
      /\ probing \in [Client -> SUBSET PV] /\ failed \in [Client -> SUBSET PV]
      /\ toSubscribe \in [Client -> SUBSET Callback]
      /\ toUnsubscribe \in [Client -> SUBSET Callback]
  BY DEF TypeOK, M!TypeInvariant
<1> DEFINE last == {p \in ps : pvClients[p] # {} /\ pvClients[p] \subseteq {c}}
<1>1. /\ \A p \in PV : pvClients'[p] = IF p \in ps THEN pvClients[p] \ {c} ELSE pvClients[p]
      /\ \A p \in PV : pvCallback'[p] = IF p \in last THEN NoCallback ELSE pvCallback[p]
      /\ toUnsubscribe' = [toUnsubscribe EXCEPT ![c] = {pvCallback[p] : p \in last}]
  BY <1>0 DEF LeavePVs
<1>2. /\ phase[c] = "open" /\ probing[c] = {}
      /\ toSubscribe[c] = {} /\ failed[c] = {} /\ toUnsubscribe[c] = {}
  BY DEF Receiving
<1>3. last \subseteq PV /\ \A p \in PV : p \in last <=> pvClients[p] # {} /\ pvClients'[p] = {}
  <2> SUFFICES ASSUME NEW p \in PV
               PROVE  p \in last <=> pvClients[p] # {} /\ pvClients'[p] = {}
    OBVIOUS
  <2>1. pvClients'[p] = IF p \in ps THEN pvClients[p] \ {c} ELSE pvClients[p]
    BY <1>1
  <2> QED
    BY <2>1
<1> HIDE DEF last
<1>4. /\ \A p \in last : pvCallback[p] \in toUnsubscribe'[c]
      /\ \A cb \in toUnsubscribe'[c] : \E p \in last : cb = pvCallback[p]
      /\ \A e \in Client : toUnsubscribe[e] \subseteq toUnsubscribe'[e]
      /\ \A e \in Client \ {c} : toUnsubscribe'[e] = toUnsubscribe[e]
  BY <1>0, <1>1, <1>2
<1>5. \A e \in Client, p \in PV : e # c /\ e \in pvClients[p] => e \in pvClients'[p] /\ p \notin last
  <2> SUFFICES ASSUME NEW e \in Client, NEW p \in PV, e # c, e \in pvClients[p]
               PROVE  e \in pvClients'[p]
    BY <1>3
  <2> QED
    BY <1>1
<1>6. \A p \in PV : p \notin last => pvCallback'[p] = pvCallback[p]
  BY <1>1
<1>7. HandlerInv'
  <2>1. ASSUME NEW e \in Client, probing[e] # {} PROVE phase'[e] = "open" /\ toUnsubscribe'[e] = {}
    BY <1>2, <1>4, <2>1 DEF IInv, HandlerInv
  <2> QED
    BY <2>1 DEF IInv, HandlerInv
<1>8. Arriving'
  <2> SUFFICES ASSUME NEW e \in Client, NEW cb \in toSubscribe[e]
               PROVE  /\ pvCallback'[PvOf(cb)] = cb
                      /\ e \in pvClients'[PvOf(cb)]
                      /\ cb \notin callbacks[PvOf(cb)]
    BY DEF Arriving
  <2>1. e # c /\ PvOf(cb) \in PV
    BY <1>0, <1>2, CallbackFacts
  <2>2. pvCallback[PvOf(cb)] = cb /\ e \in pvClients[PvOf(cb)] /\ cb \notin callbacks[PvOf(cb)]
    BY DEF IInv, Arriving
  <2> QED
    BY <1>5, <1>6, <2>1, <2>2
<1>9. Failing'
  <2> SUFFICES ASSUME NEW e \in Client, NEW p \in failed[e]
               PROVE  /\ pvCallback'[p] # NoCallback
                      /\ e \in pvClients'[p]
                      /\ pvCallback'[p] \notin callbacks[p]
                      /\ \A f \in Client : pvCallback'[p] \notin toSubscribe[f]
    BY DEF Failing
  <2>1. e # c /\ p \in PV
    BY <1>0, <1>2
  <2>2. e \in pvClients[p]
    BY DEF IInv, Failing
  <2>3. pvCallback'[p] = pvCallback[p] /\ e \in pvClients'[p]
    BY <1>5, <1>6, <2>1, <2>2
  <2> QED
    BY <2>3 DEF IInv, Failing
<1>10. Departing'
  <2> SUFFICES ASSUME NEW e \in Client, NEW cb \in toUnsubscribe'[e]
               PROVE  pvCallback'[PvOf(cb)] # cb
    BY DEF Departing
  <2>1. CASE e = c
    <3>1. PICK p \in last : cb = pvCallback[p]
      BY <1>4, <2>1
    <3>2. p \in PV /\ pvCallback[p] # NoCallback
      BY <1>3 DEF IInv, RoutesAgree
    <3>3. PvOf(cb) = p
      BY <3>1, <3>2 DEF IInv, Bound
    <3> QED
      BY <1>1, <3>1, <3>2, <3>3
  <2>2. CASE e # c
    <3>1. cb \in toUnsubscribe[e] /\ cb \in Callback /\ PvOf(cb) \in PV /\ cb # NoCallback
      BY <1>0, <1>4, <2>2, CallbackFacts
    <3>2. pvCallback[PvOf(cb)] # cb
      BY <3>1 DEF IInv, Departing
    <3> QED
      BY <1>1, <3>1, <3>2
  <2> QED
    BY <2>1, <2>2
<1>11. Bound'
  BY <1>1 DEF IInv, Bound
<1>12. RoutesAgree'
  <2> SUFFICES ASSUME NEW p \in PV
               PROVE  /\ \A e \in pvClients'[p] : phase'[e] = "open" /\ p \in subscriptions'[e]
                      /\ pvClients'[p] # {} <=> pvCallback'[p] # NoCallback
    BY DEF RoutesAgree
  <2>1. ASSUME NEW e \in pvClients'[p] PROVE phase'[e] = "open" /\ p \in subscriptions'[e]
    <3>1. e \in Client /\ e \in pvClients[p] /\ (e = c => p \notin ps)
      BY <1>0, <1>1
    <3>2. phase[e] = "open" /\ p \in subscriptions[e]
      BY <3>1 DEF IInv, RoutesAgree
    <3>3. p \in subscriptions'[e]
      BY <1>0, <3>1, <3>2
    <3> QED
      BY <3>1, <3>2, <3>3
  <2>2. pvClients'[p] # {} <=> pvCallback'[p] # NoCallback
    <3>1. pvClients[p] # {} <=> pvCallback[p] # NoCallback
      BY DEF IInv, RoutesAgree
    <3>2. pvClients'[p] # {} => pvClients[p] # {}
      BY <1>1
    <3> QED
      BY <1>1, <1>3, <3>1, <3>2
  <2> QED
    BY <2>1, <2>2
<1>13. MonitorMatchesRoutes'
  <2> SUFFICES ASSUME NEW p \in PV
               PROVE  /\ \A cb \in callbacks[p] :
                            cb = pvCallback'[p] \/ \E e \in Client : cb \in toUnsubscribe'[e]
                      /\ pvCallback'[p] # NoCallback =>
                            \/ pvCallback'[p] \in callbacks[p]
                            \/ \E e \in pvClients'[p] :
                                pvCallback'[p] \in toSubscribe[e] \/ p \in failed[e]
    BY DEF MonitorMatchesRoutes
  <2>1. ASSUME NEW cb \in callbacks[p]
        PROVE  cb = pvCallback'[p] \/ \E e \in Client : cb \in toUnsubscribe'[e]
    <3>1. cb = pvCallback[p] \/ \E e \in Client : cb \in toUnsubscribe[e]
      BY DEF IInv, MonitorMatchesRoutes
    <3> QED
      BY <1>4, <1>6, <3>1
  <2>2. ASSUME pvCallback'[p] # NoCallback
        PROVE  \/ pvCallback'[p] \in callbacks[p]
               \/ \E e \in pvClients'[p] : pvCallback'[p] \in toSubscribe[e] \/ p \in failed[e]
    <3>1. pvCallback'[p] = pvCallback[p]
      BY <1>1, <2>2
    <3>2. \/ pvCallback[p] \in callbacks[p]
          \/ \E e \in pvClients[p] : pvCallback[p] \in toSubscribe[e] \/ p \in failed[e]
      BY <2>2, <3>1 DEF IInv, MonitorMatchesRoutes
    <3>3. \A e \in pvClients[p] :
            pvCallback[p] \in toSubscribe[e] \/ p \in failed[e] => e \in pvClients'[p]
      BY <1>0, <1>2, <1>5
    <3> QED
      BY <3>1, <3>2, <3>3
  <2> QED
    BY <2>1, <2>2
<1> QED
  BY <1>7, <1>8, <1>9, <1>10, <1>11, <1>12, <1>13 DEF IInv

\* A call of subscribe came back: the routed callback is in the monitor.
LEMMA Registering ==
    ASSUME TypeOK, TypeOK', IInv, NEW c \in Client, NEW cb \in Callback, SubscribeReturns(c, cb)
    PROVE  IInv'
<1>0. /\ callbacks \in [PV -> SUBSET Callback] /\ toSubscribe \in [Client -> SUBSET Callback]
      /\ pvClients \in [PV -> SUBSET Client] /\ failed \in [Client -> SUBSET PV]
      /\ PvOf(cb) \in PV /\ cb # NoCallback
  BY CallbackFacts DEF TypeOK, M!TypeInvariant
<1>1. /\ cb \in toSubscribe[c]
      /\ \A e \in Client : toSubscribe'[e] \subseteq toSubscribe[e]
      /\ \A e \in Client : \A b \in toSubscribe[e] : b # cb => b \in toSubscribe'[e]
      /\ cb \notin toSubscribe'[c]
      /\ UNCHANGED <<phase, subscriptions, pvClients, pvCallback, probing, failed, toUnsubscribe>>
  BY <1>0 DEF SubscribeReturns, routes
<1>2. callbacks' = [callbacks EXCEPT ![PvOf(cb)] = @ \cup {cb}]
  BY <1>0 DEF SubscribeReturns, M!Join, M!Track, M!Given
<1>3. /\ \A p \in PV : callbacks[p] \subseteq callbacks'[p]
      /\ \A p \in PV : \A b \in callbacks'[p] : b \in callbacks[p] \/ (b = cb /\ p = PvOf(cb))
      /\ cb \in callbacks'[PvOf(cb)]
  BY <1>0, <1>2
<1>4. pvCallback[PvOf(cb)] = cb
  BY <1>1 DEF IInv, Arriving
<1>5. \A e \in Client : cb \notin toSubscribe'[e]
  BY <1>1 DEF IInv, HandlerInv
<1>6. HandlerInv'
  BY <1>1 DEF IInv, HandlerInv
<1>7. Arriving'
  <2> SUFFICES ASSUME NEW e \in Client, NEW b \in toSubscribe'[e]
               PROVE  /\ pvCallback[PvOf(b)] = b
                      /\ e \in pvClients[PvOf(b)]
                      /\ b \notin callbacks'[PvOf(b)]
    BY <1>1 DEF Arriving
  <2>1. b \in toSubscribe[e] /\ b # cb /\ PvOf(b) \in PV
    BY <1>0, <1>1, <1>5, CallbackFacts
  <2> QED
    BY <1>3, <2>1 DEF IInv, Arriving
<1>8. Failing'
  <2> SUFFICES ASSUME NEW e \in Client, NEW p \in failed[e]
               PROVE  /\ pvCallback[p] # NoCallback
                      /\ e \in pvClients[p]
                      /\ pvCallback[p] \notin callbacks'[p]
                      /\ \A f \in Client : pvCallback[p] \notin toSubscribe'[f]
    BY <1>1 DEF Failing
  <2>1. pvCallback[p] # cb /\ p \in PV
    BY <1>0, <1>1 DEF IInv, Failing
  <2> QED
    BY <1>1, <1>3, <2>1 DEF IInv, Failing
<1>9. Departing' /\ RoutesAgree'
  BY <1>1 DEF IInv, Departing, RoutesAgree
<1>10. Bound'
  BY <1>1, <1>3 DEF IInv, Bound
<1>11. MonitorMatchesRoutes'
  <2> SUFFICES ASSUME NEW p \in PV
               PROVE  /\ \A b \in callbacks'[p] :
                            b = pvCallback[p] \/ \E e \in Client : b \in toUnsubscribe[e]
                      /\ pvCallback[p] # NoCallback =>
                            \/ pvCallback[p] \in callbacks'[p]
                            \/ \E e \in pvClients[p] : pvCallback[p] \in toSubscribe'[e] \/ p \in failed[e]
    BY <1>1 DEF MonitorMatchesRoutes
  <2>1. \A b \in callbacks'[p] : b = pvCallback[p] \/ \E e \in Client : b \in toUnsubscribe[e]
    BY <1>3, <1>4 DEF IInv, MonitorMatchesRoutes
  <2>2. ASSUME pvCallback[p] # NoCallback
        PROVE  \/ pvCallback[p] \in callbacks'[p]
               \/ \E e \in pvClients[p] : pvCallback[p] \in toSubscribe'[e] \/ p \in failed[e]
    <3>1. CASE pvCallback[p] = cb
      BY <1>3, <2>2, <3>1 DEF IInv, Bound
    <3>2. CASE pvCallback[p] # cb
      BY <1>0, <1>1, <1>3, <2>2, <3>2 DEF IInv, MonitorMatchesRoutes
    <3> QED
      BY <3>1, <3>2
  <2> QED
    BY <2>1, <2>2
<1> QED
  BY <1>6, <1>7, <1>8, <1>9, <1>10, <1>11 DEF IInv

\* A call of subscribe raised: the callback stays routed until that is handled.
LEMMA Raising ==
    ASSUME TypeOK, TypeOK', IInv, NEW c \in Client, NEW cb \in Callback, SubscribeRaises(c, cb)
    PROVE  IInv'
<1>0. /\ callbacks \in [PV -> SUBSET Callback] /\ toSubscribe \in [Client -> SUBSET Callback]
      /\ pvClients \in [PV -> SUBSET Client] /\ failed \in [Client -> SUBSET PV]
      /\ PvOf(cb) \in PV /\ cb # NoCallback
  BY CallbackFacts DEF TypeOK, M!TypeInvariant
<1>1. /\ cb \in toSubscribe[c] /\ failed[c] = {}
      /\ \A e \in Client : toSubscribe'[e] \subseteq toSubscribe[e]
      /\ \A e \in Client : \A b \in toSubscribe[e] : b # cb => b \in toSubscribe'[e]
      /\ cb \notin toSubscribe'[c]
      /\ \A e \in Client : failed'[e] = IF e = c THEN {PvOf(cb)} ELSE failed[e]
      /\ UNCHANGED <<phase, subscriptions, pvClients, pvCallback, probing, toUnsubscribe>>
  BY <1>0 DEF SubscribeRaises, routes
<1>2. callbacks' = callbacks
  BY DEF SubscribeRaises, M!TrackAndRaise, monitor
<1>3. pvCallback[PvOf(cb)] = cb /\ c \in pvClients[PvOf(cb)] /\ cb \notin callbacks[PvOf(cb)]
  BY <1>1 DEF IInv, Arriving
<1>4. \A e \in Client : cb \notin toSubscribe'[e]
  BY <1>1 DEF IInv, HandlerInv
<1>5. \A e \in Client : PvOf(cb) \notin failed[e]
  BY <1>1, <1>3 DEF IInv, Failing
<1>6. HandlerInv'
  <2>1. \A e \in Client : probing[e] # {} => e # c
    BY <1>1 DEF IInv, HandlerInv
  <2> QED
    BY <1>1, <1>5, <2>1 DEF IInv, HandlerInv
<1>7. Arriving'
  BY <1>1, <1>2 DEF IInv, Arriving
<1>8. Failing'
  <2> SUFFICES ASSUME NEW e \in Client, NEW p \in failed'[e]
               PROVE  /\ pvCallback[p] # NoCallback
                      /\ e \in pvClients[p]
                      /\ pvCallback[p] \notin callbacks[p]
                      /\ \A f \in Client : pvCallback[p] \notin toSubscribe'[f]
    BY <1>1, <1>2 DEF Failing
  <2>1. CASE e = c
    BY <1>0, <1>1, <1>3, <1>4, <2>1
  <2>2. CASE e # c
    BY <1>1, <2>2 DEF IInv, Failing
  <2> QED
    BY <2>1, <2>2
<1>9. Departing' /\ RoutesAgree' /\ Bound'
  BY <1>1, <1>2 DEF IInv, Departing, RoutesAgree, Bound
<1>10. MonitorMatchesRoutes'
  <2> SUFFICES ASSUME NEW p \in PV, pvCallback[p] # NoCallback, pvCallback[p] \notin callbacks[p]
               PROVE  \E e \in pvClients[p] : pvCallback[p] \in toSubscribe'[e] \/ p \in failed'[e]
    BY <1>1, <1>2 DEF IInv, MonitorMatchesRoutes
  <2>1. CASE p = PvOf(cb)
    BY <1>1, <1>3, <2>1
  <2>2. CASE p # PvOf(cb)
    <3>1. PvOf(pvCallback[p]) = p
      BY DEF IInv, Bound
    <3>2. PICK e \in pvClients[p] : pvCallback[p] \in toSubscribe[e] \/ p \in failed[e]
      BY DEF IInv, MonitorMatchesRoutes
    <3>3. e \in Client /\ pvCallback[p] # cb /\ (p \in failed[e] => e # c)
      BY <1>0, <1>1, <2>2, <3>1
    <3> QED
      BY <1>1, <3>2, <3>3
  <2> QED
    BY <2>1, <2>2
<1> QED
  BY <1>6, <1>7, <1>8, <1>9, <1>10 DEF IInv

\* A failure is handled: the PV has neither clients nor callback, and nothing of
\* it is left in the monitor but what is on its way out.
LEMMA Handling ==
    ASSUME TypeOK, TypeOK', IInv, NEW c \in Client, HandleFailure(c)
    PROVE  IInv'
<1>0. /\ callbacks \in [PV -> SUBSET Callback] /\ toSubscribe \in [Client -> SUBSET Callback]
      /\ pvClients \in [PV -> SUBSET Client] /\ failed \in [Client -> SUBSET PV]
      /\ toUnsubscribe \in [Client -> SUBSET Callback]
  BY DEF TypeOK, M!TypeInvariant
<1>1. /\ \A p \in PV : pvCallback'[p] = IF p \in failed[c] THEN NoCallback ELSE pvCallback[p]
      /\ \A p \in PV : pvClients'[p] = IF p \in failed[c] THEN {} ELSE pvClients[p]
      /\ \A e \in Client : failed'[e] = IF e = c THEN {} ELSE failed[e]
      /\ UNCHANGED <<phase, subscriptions, callbacks, probing, toSubscribe, toUnsubscribe>>
  BY <1>0 DEF HandleFailure, monitor
<1>2. \A e \in Client : \A cb \in toSubscribe[e] : PvOf(cb) \in PV /\ PvOf(cb) \notin failed[c]
  BY <1>0, CallbackFacts DEF IInv, Arriving, Failing
<1>3. \A e \in Client : \A p \in failed'[e] : e # c /\ p \in failed[e] /\ p \in PV /\ p \notin failed[c]
  BY <1>0, <1>1 DEF IInv, HandlerInv
<1>4. HandlerInv'
  BY <1>1, <1>3 DEF IInv, HandlerInv
<1>5. Arriving'
  BY <1>1, <1>2 DEF IInv, Arriving
<1>6. Failing'
  BY <1>1, <1>3 DEF IInv, Failing
<1>7. Departing'
  <2> SUFFICES ASSUME NEW e \in Client, NEW cb \in toUnsubscribe[e] PROVE pvCallback'[PvOf(cb)] # cb
    BY <1>1 DEF Departing
  <2>1. PvOf(cb) \in PV /\ cb # NoCallback
    BY <1>0, CallbackFacts
  <2> QED
    BY <1>1, <2>1 DEF IInv, Departing
<1>8. Bound'
  BY <1>1 DEF IInv, Bound
<1>9. RoutesAgree'
  BY <1>1 DEF IInv, RoutesAgree
<1>10. MonitorMatchesRoutes'
  <2> SUFFICES ASSUME NEW p \in PV
               PROVE  /\ \A cb \in callbacks[p] :
                            cb = pvCallback'[p] \/ \E e \in Client : cb \in toUnsubscribe[e]
                      /\ pvCallback'[p] # NoCallback =>
                            \/ pvCallback'[p] \in callbacks[p]
                            \/ \E e \in pvClients'[p] :
                                pvCallback'[p] \in toSubscribe[e] \/ p \in failed'[e]
    BY <1>1 DEF MonitorMatchesRoutes
  <2>1. CASE p \in failed[c]
    <3>1. pvCallback[p] \notin callbacks[p] /\ pvCallback'[p] = NoCallback
      BY <1>1, <2>1 DEF IInv, Failing
    <3> QED
      BY <3>1 DEF IInv, MonitorMatchesRoutes
  <2>2. CASE p \notin failed[c]
    <3>1. pvCallback'[p] = pvCallback[p] /\ pvClients'[p] = pvClients[p]
      BY <1>1, <2>2
    <3>2. \A e \in pvClients[p] : p \in failed[e] => p \in failed'[e]
      BY <1>0, <1>1, <2>2
    <3> QED
      BY <3>1, <3>2 DEF IInv, MonitorMatchesRoutes
  <2> QED
    BY <2>1, <2>2
<1> QED
  BY <1>4, <1>5, <1>6, <1>7, <1>8, <1>9, <1>10 DEF IInv

\* A call of unsubscribe came back: what the monitor drops is not routed.
LEMMA Unregistering ==
    ASSUME TypeOK, TypeOK', IInv, NEW c \in Client, NEW cb \in Callback, UnsubscribeReturns(c, cb)
    PROVE  IInv'
<1>0. /\ callbacks \in [PV -> SUBSET Callback] /\ toUnsubscribe \in [Client -> SUBSET Callback]
      /\ PvOf(cb) \in PV /\ cb # NoCallback
  BY CallbackFacts DEF TypeOK, M!TypeInvariant
<1>1. /\ cb \in toUnsubscribe[c]
      /\ toUnsubscribe' = [toUnsubscribe EXCEPT ![c] = @ \ {cb}]
      /\ UNCHANGED <<phase, subscriptions, pvClients, pvCallback, probing, toSubscribe, failed>>
  BY DEF UnsubscribeReturns, routes
<1>2. callbacks' = [callbacks EXCEPT ![PvOf(cb)] = @ \ {cb}]
  BY <1>0 DEF UnsubscribeReturns, M!Release
<1>3. /\ \A e \in Client : toUnsubscribe'[e] \subseteq toUnsubscribe[e]
      /\ \A e \in Client : \A b \in toUnsubscribe[e] : b # cb => b \in toUnsubscribe'[e]
  BY <1>0, <1>1
<1>4. /\ \A p \in PV : callbacks'[p] \subseteq callbacks[p]
      /\ \A p \in PV : \A b \in callbacks[p] : b # cb => b \in callbacks'[p]
      /\ cb \notin callbacks'[PvOf(cb)]
  BY <1>0, <1>2
<1>5. \A p \in PV : pvCallback[p] # NoCallback => pvCallback[p] # cb
  BY <1>1 DEF IInv, Departing, Bound
<1>6. HandlerInv'
  <2>1. \A e \in Client : probing[e] # {} => toUnsubscribe'[e] = {}
    BY <1>3 DEF IInv, HandlerInv
  <2> QED
    BY <1>1, <2>1 DEF IInv, HandlerInv
<1>7. Arriving'
  <2>1. \A e \in Client : \A b \in toSubscribe[e] : PvOf(b) \in PV
    BY CallbackFacts DEF TypeOK
  <2> QED
    BY <1>1, <1>4, <2>1 DEF IInv, Arriving
<1>8. Failing'
  <2>1. \A e \in Client : \A p \in failed[e] : p \in PV
    BY DEF TypeOK
  <2> QED
    BY <1>1, <1>4, <2>1 DEF IInv, Failing
<1>9. Departing' /\ RoutesAgree' /\ Bound'
  BY <1>1, <1>3, <1>4 DEF IInv, Departing, RoutesAgree, Bound
<1>10. MonitorMatchesRoutes'
  <2> SUFFICES ASSUME NEW p \in PV
               PROVE  /\ \A b \in callbacks'[p] :
                            b = pvCallback[p] \/ \E e \in Client : b \in toUnsubscribe'[e]
                      /\ pvCallback[p] # NoCallback =>
                            \/ pvCallback[p] \in callbacks'[p]
                            \/ \E e \in pvClients[p] : pvCallback[p] \in toSubscribe[e] \/ p \in failed[e]
    BY <1>1 DEF MonitorMatchesRoutes
  <2>1. ASSUME NEW b \in callbacks'[p]
        PROVE  b = pvCallback[p] \/ \E e \in Client : b \in toUnsubscribe'[e]
    <3>1. b \in callbacks[p] /\ PvOf(b) = p
      BY <1>4 DEF IInv, Bound
    <3>2. b # cb
      BY <1>4, <3>1
    <3> QED
      BY <1>3, <3>1, <3>2 DEF IInv, MonitorMatchesRoutes
  <2>2. ASSUME pvCallback[p] # NoCallback
        PROVE  \/ pvCallback[p] \in callbacks'[p]
               \/ \E e \in pvClients[p] : pvCallback[p] \in toSubscribe[e] \/ p \in failed[e]
    BY <1>4, <1>5, <2>2 DEF IInv, MonitorMatchesRoutes
  <2> QED
    BY <2>1, <2>2
<1> QED
  BY <1>6, <1>7, <1>8, <1>9, <1>10 DEF IInv

LEMMA RoutingStarts == Init => IInv
  BY DEF Init, M!Init, IInv, HandlerInv, Arriving, Failing, Departing, Bound, RoutesAgree,
     MonitorMatchesRoutes

LEMMA RoutingSteps == ASSUME TypeOK, TypeOK', IInv, [Next]_vars PROVE IInv'
<1>1. ASSUME NEW c \in Client, HandlerStep(c) PROVE IInv'
  <2>1. ASSUME NEW p \in PV, FetchValue(c, p) \/ SendFetched(c, p) PROVE IInv'
    BY <2>1, RoutingFrame DEF FetchValue, SendFetched, routing, monitor
  <2>2. ASSUME NEW p \in PV, ProbeConnects(c, p) PROVE IInv'
    <3>1. callbacks' = callbacks
      BY <2>2 DEF ProbeConnects, M!Track, M!Given, TypeOK, M!TypeInvariant
    <3> QED
      BY <2>2, <3>1, RoutingFrame DEF ProbeConnects, routing, handler
  <2>3. ASSUME NEW p \in PV, ProbeRejects(c, p) \/ (ProbeAccepts(c, p) /\ c \notin connections)
        PROVE  IInv'
    <3>1. /\ \A e \in Client : probing'[e] # {} => probing[e] # {}
          /\ UNCHANGED <<phase, routes, callbacks, toSubscribe, failed, toUnsubscribe>>
      BY <2>3 DEF ProbeRejects, ProbeAccepts, monitor, TypeOK
    <3> QED
      BY <3>1 DEF IInv, HandlerInv, Arriving, Failing, Departing, Bound, RoutesAgree,
         MonitorMatchesRoutes, routes
  <2>4. ASSUME NEW p \in PV, ProbeAccepts(c, p), c \in connections PROVE IInv'
    <3>1. /\ {p} \in SUBSET PV /\ EnterSubscriptions(c, {p})
          /\ probing[c] # {} /\ probing' = [probing EXCEPT ![c] = {}]
          /\ UNCHANGED <<phase, callbacks>>
      BY <2>4 DEF ProbeAccepts, monitor
    <3>2. phase[c] = "open" /\ toSubscribe[c] = {} /\ failed[c] = {} /\ toUnsubscribe[c] = {}
      BY <3>1 DEF IInv, HandlerInv
    <3> QED
      BY <3>1, <3>2, Entering
  <2> QED
    BY <1>1, <2>1, <2>2, <2>3, <2>4, Registering, Raising, Handling, Unregistering DEF HandlerStep
<1>2. ASSUME NEW c \in Client, ClientRequest(c) PROVE IInv'
  <2>1. CASE Connect(c)
    <3>1. /\ \A e \in Client : phase[e] = "open" => phase'[e] = "open"
          /\ UNCHANGED <<routes, callbacks, probing, toSubscribe, failed, toUnsubscribe>>
      BY <2>1 DEF Connect, monitor, handler, TypeOK
    <3>2. RoutesAgree'
      BY <3>1 DEF IInv, RoutesAgree, routes, TypeOK
    <3> QED
      BY <3>1, <3>2 DEF IInv, HandlerInv, Arriving, Failing, Departing, Bound,
         MonitorMatchesRoutes, routes
  <2>2. ASSUME NEW ps \in SUBSET PV, Subscribe(c, ps) PROVE IInv'
    <3>1. /\ EnterSubscriptions(c, ps)
          /\ phase[c] = "open" /\ toSubscribe[c] = {} /\ failed[c] = {} /\ toUnsubscribe[c] = {}
          /\ probing' = [probing EXCEPT ![c] = {}]
          /\ UNCHANGED <<phase, callbacks>>
      BY <2>2 DEF Subscribe, Receiving, monitor, TypeOK
    <3> QED
      BY <3>1, Entering
  <2>3. ASSUME NEW ps \in SUBSET PV, Unsubscribe(c, ps) PROVE IInv'
    <3>1. /\ Receiving(c) /\ LeavePVs(c, ps)
          /\ subscriptions' = [subscriptions EXCEPT ![c] = @ \ ps]
          /\ phase' = phase /\ phase[c] = "open"
          /\ UNCHANGED <<callbacks, probing, toSubscribe, failed>>
      BY <2>3 DEF Unsubscribe, Receiving, monitor
    <3> QED
      BY <3>1, Leaving
  <2>4. ASSUME NEW p \in PV, SubscribeSafely(c, p) PROVE IInv'
    <3>1. /\ phase[c] = "open" /\ toSubscribe[c] = {} /\ failed[c] = {} /\ toUnsubscribe[c] = {}
          /\ \A e \in Client \ {c} : probing'[e] = probing[e]
          /\ UNCHANGED <<phase, routes, callbacks, toSubscribe, failed, toUnsubscribe>>
      BY <2>4 DEF SubscribeSafely, Receiving, monitor, TypeOK
    <3>2. HandlerInv'
      BY <3>1 DEF IInv, HandlerInv
    <3> QED
      BY <3>1, <3>2 DEF IInv, Arriving, Failing, Departing, Bound, RoutesAgree,
         MonitorMatchesRoutes, routes
  <2>5. CASE Refresh(c)
    BY <2>5, RoutingFrame DEF Refresh, routing, monitor
  <2>6. CASE Disconnect(c)
    <3>1. /\ Receiving(c) /\ subscriptions[c] \in SUBSET PV /\ LeavePVs(c, subscriptions[c])
          /\ subscriptions' = [subscriptions EXCEPT ![c] = {}]
          /\ \A e \in Client \ {c} : phase'[e] = phase[e]
          /\ UNCHANGED <<callbacks, probing, toSubscribe, failed>>
      BY <2>6 DEF Disconnect, monitor, TypeOK
    <3>2. /\ subscriptions' = [subscriptions EXCEPT ![c] = @ \ subscriptions[c]]
          /\ subscriptions'[c] = {}
      BY <3>1 DEF TypeOK
    <3> QED
      BY <3>1, <3>2, Leaving
  <2> QED
    BY <1>2, <2>1, <2>2, <2>3, <2>4, <2>5, <2>6 DEF ClientRequest
<1>3. CASE Delivery
  BY <1>3, RoutingFrame
     DEF Delivery, CallCallback, StartBroadcast, SendBroadcast, M!Call, routing, handler, monitor
<1>4. CASE World
  <2>1. CASE CloseAll
    BY <2>1, RoutingFrame DEF CloseAll, routing, handler, monitor
  <2>2. ASSUME NEW p \in PV, HttpSubscribes(p) PROVE IInv'
    <3>1. callbacks' = callbacks
      BY <2>2 DEF HttpSubscribes, M!Track, M!Given, TypeOK, M!TypeInvariant
    <3> QED
      BY <2>2, <3>1, RoutingFrame DEF HttpSubscribes, Rest, routing, handler
  <2>3. ASSUME NEW p \in PV, GetValueReads(p) \/ IocChanges(p) \/ MonitorUpdates(p) PROVE IInv'
    BY <2>3, RoutingFrame
       DEF GetValueReads, IocChanges, MonitorUpdates, M!ReadValue, M!Owe, M!Update, Rest, routing,
           handler, monitor
  <2> QED
    BY <1>4, <2>1, <2>2, <2>3 DEF World
<1>5. CASE UNCHANGED vars
  BY <1>5, RoutingFrame DEF vars, monitor, handler, routing
<1> QED
  BY <1>1, <1>2, <1>3, <1>4, <1>5 DEF Next

LEMMA Invariance == Spec => []IInv
<1>1. TypeOK /\ IInv /\ TypeOK' /\ [Next]_vars => IInv'
  BY RoutingSteps
<1> QED
  BY <1>1, RoutingStarts, TypeCorrect, PTL DEF Spec

\* However subscribes, failures, probes, unsubscribes and disconnects of any
\* clients interleave, _subscriptions, _pv_clients and _pv_callbacks agree.
THEOREM RoutesCorrect == Spec => []RoutesAgree
<1>1. IInv => RoutesAgree
  BY DEF IInv
<1> QED
  BY <1>1, Invariance, PTL

\* Up to the calls under way, the monitor has exactly the routed callbacks: none
\* is left behind by a teardown that overlaps a new first client, none is lost.
THEOREM MonitorCorrect == Spec => []MonitorMatchesRoutes
<1>1. IInv => MonitorMatchesRoutes
  BY DEF IInv
<1> QED
  BY <1>1, Invariance, PTL

-----------------------------------------------------------------------------
(* No gap between the initial value and the updates                        *)

\* The monitor has the value of a PV, or will be told it.
OneOwed == \A p \in tracked : latest[p] = NoValue => p \in owed

\* As long as the routed callback is not in the monitor, the client that brings
\* it there has its values yet to fetch.
FirstFetches ==
    \A p \in PV : \A c \in pvClients[p] :
        <<c, p>> \notin early /\ pvCallback[p] \notin callbacks[p] =>
            p \in toFetch[c] /\ (pvCallback[p] \in toSubscribe[c] \/ p \in failed[c])

\* Where the monitor's value of p, or a newer one, is on its way to c.
OnItsWay(c, p) ==
    \/ p \in owed
    \/ valueCalls[pvCallback[p]] >= latest[p]
    \/ \E v \in Value : v >= latest[p] /\ (<<p, v>> \in broadcasts \/ <<c, p, v>> \in outbox)
    \/ p \in toFetch[c]
    \/ fetched[c][p] >= latest[p]
    \/ seen[c][p] >= latest[p]

Coming ==
    \A p \in PV : \A c \in pvClients[p] \cap connections :
        <<c, p>> \notin early => OnItsWay(c, p)

ProbesFetchNothing == \A c \in Client : probing[c] # {} => toFetch[c] = {}

Carried == OneOwed /\ FirstFetches /\ Coming /\ ProbesFetchNothing

\* The types the provers need of these.
LEMMA CarryingTypes ==
    ASSUME TypeOK
    PROVE  /\ pvClients \in [PV -> SUBSET Client] /\ connections \subseteq Client
           /\ pvCallback \in [PV -> Callback \cup {NoCallback}]
           /\ tracked \subseteq PV /\ owed \subseteq PV
           /\ callbacks \in [PV -> SUBSET Callback]
           /\ latest \in [PV -> Value \cup {NoValue}]
           /\ valueCalls \in [Callback -> Value \cup {NoValue}]
           /\ toSubscribe \in [Client -> SUBSET Callback]
           /\ failed \in [Client -> SUBSET PV] /\ toFetch \in [Client -> SUBSET PV]
           /\ fetched \in [Client -> [PV -> Value \cup {NoValue}]]
           /\ seen \in [Client -> [PV -> Value \cup {NoValue}]]
           /\ current \in [PV -> Value] /\ NoValue = 0 /\ Value \subseteq Nat
  BY DEF TypeOK, M!TypeInvariant, NoValue, Value

\* Every operation but an update leaves a PV its value, or loses it, or is
\* followed by an update.
LEMMA MonitorCalls ==
    ASSUME TypeOK, OneOwed, NEW p \in PV, NEW cb \in Callback \cup {NoCallback},
           NEW v \in Value \cup {NoValue},
           \/ UNCHANGED monitor
           \/ cb \in Callback /\ M!Join(p, cb)
           \/ M!Track(p, cb, v)
           \/ M!TrackAndRaise(p, v) /\ p \in owed'
           \/ v \in Value /\ M!ReadValue(p, v)
           \/ M!Owe(p)
           \/ M!Release(p, cb)
    PROVE  /\ OneOwed' /\ valueCalls' = valueCalls
           /\ \A q \in PV : \/ latest'[q] = latest[q]
                            \/ latest'[q] = NoValue
                            \/ q \in owed'
           /\ \A q \in owed : q \in owed' \/ latest'[q] = NoValue
<1> USE CarryingTypes
<1>1. CASE UNCHANGED monitor
  BY <1>1 DEF monitor, OneOwed
<1>2. CASE cb \in Callback /\ M!Join(p, cb)
  BY <1>2 DEF M!Join, OneOwed
<1>3. CASE M!Track(p, cb, v) \/ (M!TrackAndRaise(p, v) /\ p \in owed')
  <2>1. /\ tracked' = tracked \cup {p} /\ owed' = owed \cup {p} /\ valueCalls' = valueCalls
        /\ latest' = [latest EXCEPT ![p] = v]
    BY <1>3 DEF M!Track, M!TrackAndRaise
  <2> QED BY <2>1 DEF OneOwed
<1>4. CASE v \in Value /\ M!ReadValue(p, v)
  <2>1. /\ UNCHANGED <<tracked, owed, valueCalls>> /\ p \in tracked /\ latest[p] = NoValue
        /\ latest' = [latest EXCEPT ![p] = v]
    BY <1>4 DEF M!ReadValue
  <2> QED BY <2>1 DEF OneOwed
<1>5. CASE M!Owe(p)
  BY <1>5 DEF M!Owe, OneOwed
<1>6. CASE M!Release(p, cb)
  <2>1. /\ valueCalls' = valueCalls
        /\ \/ UNCHANGED <<tracked, latest, owed>>
           \/ /\ tracked' = tracked \ {p} /\ owed' = owed \ {p}
              /\ latest' = [latest EXCEPT ![p] = NoValue]
    BY <1>6 DEF M!Release
  <2> QED BY <2>1 DEF OneOwed
<1> QED BY <1>1, <1>2, <1>3, <1>4, <1>5, <1>6

LEMMA ComingFrame ==
    ASSUME TypeOK, Coming,
           \A q \in PV : latest'[q] = latest[q] \/ latest'[q] = NoValue \/ q \in owed',
           \A q \in owed : q \in owed' \/ latest'[q] = NoValue,
           \A q \in PV : \A c \in pvClients[q] : c \in connections' => c \in connections,
           UNCHANGED <<valueCalls, pvClients, pvCallback, toFetch, fetched, delivery>>
    PROVE  Coming'
<1> USE CarryingTypes
<1>1. SUFFICES ASSUME NEW p \in PV, NEW c \in pvClients[p] \cap connections',
                      <<c, p>> \notin early
               PROVE  OnItsWay(c, p)'
  BY DEF Coming, delivery
<1>2. OnItsWay(c, p) /\ c \in Client
  BY <1>1 DEF Coming
<1>3. CASE latest'[p] = NoValue
  <2>1. seen'[c][p] >= latest'[p]
    BY <1>2, <1>3 DEF delivery
  <2> QED BY <2>1 DEF OnItsWay
<1>4. CASE p \in owed'
  BY <1>4 DEF OnItsWay
<1>5. CASE latest'[p] = latest[p] /\ latest'[p] # NoValue
  BY <1>2, <1>5 DEF OnItsWay, delivery
<1> QED BY <1>3, <1>4, <1>5

LEMMA FirstFrame ==
    ASSUME TypeOK, FirstFetches, \A q \in PV : callbacks[q] \subseteq callbacks'[q],
           UNCHANGED <<pvClients, pvCallback, early, toFetch, toSubscribe, failed>>
    PROVE  FirstFetches'
BY DEF FirstFetches

\* Most steps concern neither the routes nor what is on its way.
LEMMA CarriedFrame ==
    ASSUME TypeOK, Carried, NEW p \in PV, NEW cb \in Callback \cup {NoCallback},
           NEW v \in Value \cup {NoValue},
           \/ UNCHANGED monitor
           \/ M!Track(p, cb, v)
           \/ v \in Value /\ M!ReadValue(p, v)
           \/ M!Owe(p),
           \A q \in PV : \A c \in pvClients[q] : c \in connections' => c \in connections,
           \A c \in Client : probing'[c] # {} => probing[c] # {} \/ toFetch[c] = {},
           UNCHANGED <<pvClients, pvCallback, toSubscribe, failed, toFetch, fetched, delivery>>
    PROVE  Carried'
<1> USE CarryingTypes
<1>1. \A q \in PV : callbacks[q] \subseteq callbacks'[q]
  BY DEF monitor, M!Track, M!ReadValue, M!Owe
<1>2. OneOwed' /\ Coming'
  BY MonitorCalls, ComingFrame DEF Carried
<1>3. FirstFetches'
  BY <1>1, FirstFrame DEF Carried, delivery
<1> QED BY <1>2, <1>3 DEF Carried, ProbesFetchNothing

\* The first client of a PV brings its callback to the monitor, or fails to, and
\* has its values yet to fetch.
LEMMA CarriedSubscribe ==
    ASSUME TypeOK, IInv, Carried, NEW c \in Client, NEW cb \in Callback,
           SubscribeReturns(c, cb) \/ SubscribeRaises(c, cb)
    PROVE  Carried'
<1> USE CarryingTypes
<1> DEFINE p == PvOf(cb)
<1>0. p \in PV /\ cb # NoCallback
  BY CallbackFacts
<1> HIDE DEF p
<1>1. /\ UNCHANGED <<connections, pvClients, pvCallback, probing, toFetch, fetched, delivery>>
      /\ toSubscribe' = [toSubscribe EXCEPT ![c] = @ \ {cb}]
  BY DEF SubscribeReturns, SubscribeRaises, routes
<1>2. OneOwed' /\ Coming'
  <2>1. \/ UNCHANGED monitor
        \/ M!Join(p, cb)
        \/ \E v \in {current[p], NoValue} :
             M!Track(p, cb, v) \/ (M!TrackAndRaise(p, v) /\ p \in owed')
    BY DEF SubscribeReturns, SubscribeRaises, p
  <2>2. PICK v \in Value \cup {NoValue} :
          \/ UNCHANGED monitor
          \/ M!Join(p, cb)
          \/ M!Track(p, cb, v) \/ (M!TrackAndRaise(p, v) /\ p \in owed')
    BY <1>0, <2>1
  <2> QED BY <1>0, <1>1, <2>2, MonitorCalls, ComingFrame DEF Carried
<1>3. /\ \A q \in PV : callbacks[q] \subseteq callbacks'[q]
      /\ (cb \in callbacks'[p] /\ failed' = failed) \/ failed'[c] = {p}
      /\ \A e \in Client \ {c} : failed'[e] = failed[e]
  <2>1. CASE SubscribeReturns(c, cb)
    <3>1. callbacks' = [callbacks EXCEPT ![p] = @ \cup {cb}]
      BY <1>0, <2>1 DEF SubscribeReturns, M!Join, M!Track, M!Given, p
    <3>2. failed' = failed
      BY <2>1 DEF SubscribeReturns
    <3> QED BY <1>0, <3>1, <3>2
  <2>2. CASE SubscribeRaises(c, cb)
    BY <2>2 DEF SubscribeRaises, M!TrackAndRaise, monitor, p
  <2> QED BY <2>1, <2>2
<1>4. FirstFetches'
  <2> SUFFICES ASSUME NEW q \in PV, NEW e \in pvClients[q], <<e, q>> \notin early,
                      pvCallback[q] \notin callbacks'[q]
               PROVE  /\ q \in toFetch[e]
                      /\ pvCallback[q] \in toSubscribe'[e] \/ q \in failed'[e]
    BY <1>1 DEF FirstFetches, delivery
  <2>1. /\ e \in Client /\ q \in toFetch[e]
        /\ pvCallback[q] \in toSubscribe[e] \/ q \in failed[e]
    BY <1>3 DEF Carried, FirstFetches
  <2>2. CASE e # c
    BY <1>1, <1>3, <2>1, <2>2
  <2>3. CASE e = c /\ pvCallback[q] # cb
    <3>1. failed[c] = {}
      BY DEF SubscribeReturns, SubscribeRaises
    <3> QED BY <1>1, <2>1, <2>3, <3>1
  <2>4. CASE e = c /\ pvCallback[q] = cb
    <3>1. q = p
      BY <1>0, <2>4 DEF IInv, Bound, p
    <3> QED BY <1>3, <2>1, <2>4, <3>1
  <2> QED BY <2>2, <2>3, <2>4
<1> QED BY <1>1, <1>2, <1>4 DEF Carried, ProbesFetchNothing

\* When a failure is handled, the PV has no clients left to send anything to.
LEMMA CarriedFailure ==
    ASSUME TypeOK, Carried, NEW c \in Client, HandleFailure(c) PROVE Carried'
<1> USE CarryingTypes
<1>1. /\ \A p \in PV : pvClients'[p] = IF p \in failed[c] THEN {} ELSE pvClients[p]
      /\ \A p \in PV : pvCallback'[p] = IF p \in failed[c] THEN NoCallback ELSE pvCallback[p]
      /\ \A e \in Client : failed'[e] = IF e = c THEN {} ELSE failed[e]
      /\ UNCHANGED <<monitor, connections, probing, toSubscribe, toFetch, fetched, delivery>>
  BY DEF HandleFailure
<1>2. \A p \in PV : \A e \in pvClients'[p] :
        /\ e \in pvClients[p] /\ e \in Client /\ p \notin failed[c]
        /\ pvCallback'[p] = pvCallback[p]
        /\ p \in failed[e] => p \in failed'[e]
  BY <1>1
<1>3. FirstFetches'
  BY <1>1, <1>2 DEF Carried, FirstFetches, monitor, delivery
<1>4. Coming'
  BY <1>1, <1>2 DEF Carried, Coming, OnItsWay, monitor, delivery
<1> QED BY <1>1, <1>3, <1>4 DEF Carried, OneOwed, ProbesFetchNothing, monitor

\* What the monitor drops is not a routed callback.
LEMMA CarriedUnsubscribe ==
    ASSUME TypeOK, IInv, Carried, NEW c \in Client, NEW cb \in Callback,
           UnsubscribeReturns(c, cb)
    PROVE  Carried'
<1> USE CarryingTypes
<1> DEFINE p == PvOf(cb)
<1>0. p \in PV /\ cb # NoCallback /\ pvCallback[p] # cb
  BY CallbackFacts DEF UnsubscribeReturns, IInv, Departing
<1> HIDE DEF p
<1>1. /\ M!Release(p, cb)
      /\ UNCHANGED <<connections, pvClients, pvCallback, probing, toSubscribe, failed, toFetch,
                     fetched, delivery>>
  BY DEF UnsubscribeReturns, routes, p
<1>2. OneOwed' /\ Coming'
  <2>1. NoValue \in Value \cup {NoValue}
    OBVIOUS
  <2> QED BY <1>0, <1>1, <2>1, MonitorCalls, ComingFrame DEF Carried
<1>3. callbacks' = [callbacks EXCEPT ![p] = @ \ {cb}]
  BY <1>0, <1>1 DEF M!Release
<1>4. FirstFetches'
  BY <1>0, <1>1, <1>3 DEF Carried, FirstFetches, delivery
<1> QED BY <1>1, <1>2, <1>4 DEF Carried, ProbesFetchNothing

LEMMA EntrySet ==
    ASSUME NEW S, NEW T, NEW V, NEW f \in [S -> [T -> V]], NEW c \in S, NEW p \in T, NEW v
    PROVE  \A e \in S, q \in T :
             [f EXCEPT ![c][p] = v][e][q] = IF e = c /\ q = p THEN v ELSE f[e][q]
<1>1. [f EXCEPT ![c][p] = v] = [f EXCEPT ![c] = [f[c] EXCEPT ![p] = v]]
  OBVIOUS
<1>2. ASSUME NEW e \in S, NEW q \in T
      PROVE  [f EXCEPT ![c] = [f[c] EXCEPT ![p] = v]][e][q]
               = IF e = c /\ q = p THEN v ELSE f[e][q]
  <2>1. f[c] \in [T -> V]
    OBVIOUS
  <2> QED BY <2>1
<1> QED BY <1>1, <1>2

\* Nothing is sent that is older than what was sent before.
LEMMA SendFacts ==
    ASSUME TypeOK, NEW c \in Client, NEW p \in PV, NEW v \in Value \cup {NoValue}, Send(c, p, v)
    PROVE  /\ \A e \in Client, q \in PV : seen'[e][q] \in Nat /\ seen'[e][q] >= seen[e][q]
           /\ c \in connections => seen'[c][p] >= v
<1> USE CarryingTypes
<1>0. v \in Nat /\ \A e \in Client, q \in PV : seen[e][q] \in Nat
  OBVIOUS
<1>1. CASE c \in connections /\ v > seen[c][p]
  <2>1. \A e \in Client, q \in PV : seen'[e][q] = IF e = c /\ q = p THEN v ELSE seen[e][q]
    BY <1>1, EntrySet DEF Send
  <2>2. ASSUME NEW e \in Client, NEW q \in PV
        PROVE  seen'[e][q] \in Nat /\ seen'[e][q] >= seen[e][q]
    <3>1. CASE e = c /\ q = p
      BY <1>0, <1>1, <2>1, <3>1
    <3>2. CASE ~(e = c /\ q = p)
      BY <1>0, <2>1, <3>2
    <3> QED BY <3>1, <3>2
  <2>3. seen'[c][p] = v
    BY <2>1
  <2> QED BY <1>0, <2>2, <2>3
<1>2. CASE ~(c \in connections /\ v > seen[c][p])
  BY <1>0, <1>2 DEF Send
<1> QED BY <1>1, <1>2

\* A value that was fetched is the monitor's, and is sent next.
LEMMA CarriedFetch ==
    ASSUME TypeOK, Carried, NEW c \in Client, NEW p \in PV,
           FetchValue(c, p) \/ SendFetched(c, p)
    PROVE  Carried'
<1> USE CarryingTypes
<1>1. CASE FetchValue(c, p)
  <2>1. /\ toSubscribe[c] = {} /\ failed[c] = {}
        /\ toFetch' = [toFetch EXCEPT ![c] = @ \ {p}]
        /\ fetched' = [fetched EXCEPT ![c][p] = latest[p]]
        /\ UNCHANGED <<monitor, connections, pvClients, pvCallback, probing, toSubscribe, failed,
                       delivery>>
    BY <1>1 DEF FetchValue, routes
  <2>2. FirstFetches'
    BY <2>1 DEF Carried, FirstFetches, monitor, delivery
  <2>3. Coming'
    <3>1. SUFFICES ASSUME NEW q \in PV, NEW e \in pvClients[q] \cap connections,
                          <<e, q>> \notin early
                   PROVE  OnItsWay(e, q)'
      BY <2>1 DEF Coming, delivery
    <3>2. OnItsWay(e, q) /\ e \in Client
      BY <3>1 DEF Carried, Coming
    <3>3. CASE e = c /\ q = p
      <4>1. fetched'[e][q] >= latest'[q]
        BY <2>1, <3>3, EntrySet DEF monitor
      <4> QED BY <4>1 DEF OnItsWay
    <3>4. CASE ~(e = c /\ q = p)
      <4>1. fetched'[e][q] = fetched[e][q]
        BY <2>1, <3>2, <3>4, EntrySet
      <4>2. q \in toFetch[e] => q \in toFetch'[e]
        BY <2>1, <3>2, <3>4
      <4> QED BY <2>1, <3>2, <4>1, <4>2 DEF OnItsWay, monitor, delivery
    <3> QED BY <3>3, <3>4
  <2> QED BY <2>1, <2>2, <2>3 DEF Carried, OneOwed, ProbesFetchNothing, monitor
<1>2. CASE SendFetched(c, p)
  <2>1. /\ fetched' = [fetched EXCEPT ![c][p] = NoValue] /\ Send(c, p, fetched[c][p])
        /\ UNCHANGED <<monitor, connections, pvClients, pvCallback, probing, toSubscribe, failed,
                       toFetch, broadcasts, outbox, early>>
    BY <1>2 DEF SendFetched, routes
  <2>2. FirstFetches'
    BY <2>1 DEF Carried, FirstFetches, monitor
  <2>3. Coming'
    <3>1. SUFFICES ASSUME NEW q \in PV, NEW e \in pvClients[q] \cap connections,
                          <<e, q>> \notin early
                   PROVE  OnItsWay(e, q)'
      BY <2>1 DEF Coming
    <3>2. OnItsWay(e, q) /\ e \in Client
      BY <3>1 DEF Carried, Coming
    <3>3. /\ fetched[c][p] \in Value \cup {NoValue}
          /\ seen[e][q] \in Nat /\ fetched[e][q] \in Nat /\ latest[q] \in Nat
      BY <3>2
    <3>4. /\ seen'[e][q] \in Nat /\ seen'[e][q] >= seen[e][q]
          /\ c \in connections => seen'[c][p] >= fetched[c][p]
      BY <2>1, <3>2, <3>3, SendFacts
    <3>5. seen[e][q] >= latest[q] => seen'[e][q] >= latest[q]
      BY <3>3, <3>4
    <3>6. CASE e = c /\ q = p
      <4>1. fetched[e][q] >= latest[q] => seen'[e][q] >= latest[q]
        BY <3>1, <3>3, <3>4, <3>6
      <4> QED BY <2>1, <3>2, <3>5, <4>1 DEF OnItsWay, monitor
    <3>7. CASE ~(e = c /\ q = p)
      <4>1. fetched'[e][q] = fetched[e][q]
        BY <2>1, <3>2, <3>7, EntrySet
      <4> QED BY <2>1, <3>2, <3>5, <4>1 DEF OnItsWay, monitor
    <3> QED BY <3>6, <3>7
  <2> QED BY <2>1, <2>2, <2>3 DEF Carried, OneOwed, ProbesFetchNothing, monitor
<1> QED BY <1>1, <1>2

\* A client that enters a PV fetches its value; one that enters a PV whose
\* callback is not in the monitor has made it, or is early.
LEMMA CarriedEnter ==
    ASSUME TypeOK, Carried, NEW c \in Client, NEW ps \in SUBSET PV,
           EnterSubscriptions(c, ps), toFetch[c] = {}, probing' = [probing EXCEPT ![c] = {}],
           UNCHANGED <<monitor, connections>>
    PROVE  Carried'
<1> USE CarryingTypes
<1> DEFINE new == {p \in ps : pvClients[p] = {}}
           joined == {p \in ps : c \notin pvClients[p]}
           unready == {p \in joined \ new : pvCallback[p] \notin callbacks[p]}
<1>1. PICK copy \in [new -> Copy] :
        /\ pvCallback' = [p \in PV |-> IF p \in new THEN <<p, copy[p]>> ELSE pvCallback[p]]
        /\ toSubscribe' = [toSubscribe EXCEPT ![c] = {<<p, copy[p]>> : p \in new}]
  BY DEF EnterSubscriptions
<1>2. /\ pvClients' = [p \in PV |-> IF p \in ps THEN pvClients[p] \cup {c} ELSE pvClients[p]]
      /\ toFetch' = [toFetch EXCEPT ![c] = ps]
      /\ seen' = [seen EXCEPT ![c] =
                    [p \in PV |-> IF p \in ps /\ c \notin pvClients[p] THEN NoValue ELSE @[p]]]
      /\ early' = (early \ ({c} \X joined)) \cup ({c} \X unready)
      /\ UNCHANGED <<failed, fetched, broadcasts, outbox>>
  BY DEF EnterSubscriptions
<1>3. /\ \A p \in PV : p \in new <=> p \in ps /\ pvClients[p] = {}
      /\ \A p \in PV : p \in joined <=> p \in ps /\ c \notin pvClients[p]
      /\ \A p \in PV : p \in unready <=> p \in joined /\ p \notin new /\ pvCallback[p] \notin callbacks[p]
  OBVIOUS
<1>4. \A p \in new : pvCallback'[p] \in toSubscribe'[c]
  BY <1>1
<1>5. \A p \in PV : p \notin new => pvCallback'[p] = pvCallback[p]
  BY <1>1
<1> HIDE DEF new, joined, unready
<1>6. \A e \in Client \ {c} : /\ toSubscribe'[e] = toSubscribe[e] /\ toFetch'[e] = toFetch[e]
                              /\ seen'[e] = seen[e]
  BY <1>1, <1>2
<1>7. /\ toFetch'[c] = ps
      /\ \A p \in PV \ ps : seen'[c][p] = seen[c][p]
  BY <1>2
<1>8. ASSUME NEW p \in PV, NEW e \in pvClients'[p], e # c
      PROVE  /\ e \in Client /\ e \in pvClients[p] /\ pvCallback'[p] = pvCallback[p]
             /\ <<e, p>> \in early' <=> <<e, p>> \in early
             /\ toSubscribe'[e] = toSubscribe[e] /\ toFetch'[e] = toFetch[e]
             /\ seen'[e] = seen[e]
  <2>1. e \in pvClients[p] /\ e \in Client
    BY <1>2, <1>8
  <2>2. p \notin new
    BY <1>3, <2>1
  <2> QED BY <1>2, <1>5, <1>6, <1>8, <2>1, <2>2
<1>9. ASSUME NEW p \in PV, p \notin ps
      PROVE  /\ pvClients'[p] = pvClients[p] /\ pvCallback'[p] = pvCallback[p]
             /\ <<c, p>> \in early' <=> <<c, p>> \in early
  BY <1>2, <1>3, <1>5, <1>9
<1>10. FirstFetches'
  <2> SUFFICES ASSUME NEW p \in PV, NEW e \in pvClients'[p], <<e, p>> \notin early',
                      pvCallback'[p] \notin callbacks[p]
               PROVE  /\ p \in toFetch'[e]
                      /\ pvCallback'[p] \in toSubscribe'[e] \/ p \in failed'[e]
    BY DEF FirstFetches, monitor
  <2>1. CASE e # c
    BY <1>2, <1>8, <2>1 DEF Carried, FirstFetches
  <2>2. CASE e = c /\ p \notin ps
    BY <1>9, <2>2 DEF Carried, FirstFetches
  <2>3. CASE e = c /\ p \in new
    BY <1>3, <1>4, <1>7, <2>3
  <2>4. CASE e = c /\ p \in joined /\ p \notin new
    <3>1. p \in unready
      BY <1>3, <1>5, <2>4
    <3> QED BY <1>2, <2>4, <3>1
  <2>5. CASE e = c /\ p \in ps /\ p \notin joined /\ p \notin new
    <3>1. c \in pvClients[p] /\ pvCallback'[p] = pvCallback[p] /\ <<c, p>> \notin early
      BY <1>2, <1>3, <1>5, <2>5
    <3> QED BY <2>5, <3>1 DEF Carried, FirstFetches
  <2> QED BY <1>3, <2>1, <2>2, <2>3, <2>4, <2>5
<1>11. Coming'
  <2> SUFFICES ASSUME NEW p \in PV, NEW e \in pvClients'[p] \cap connections, <<e, p>> \notin early'
               PROVE  OnItsWay(e, p)'
    BY DEF Coming
  <2>1. CASE e # c
    BY <1>2, <1>8, <2>1 DEF Carried, Coming, OnItsWay, monitor
  <2>2. CASE e = c /\ p \notin ps
    <3>1. OnItsWay(c, p)
      BY <1>9, <2>2 DEF Carried, Coming
    <3> QED BY <1>2, <1>7, <1>9, <2>2, <3>1 DEF OnItsWay, monitor
  <2>3. CASE e = c /\ p \in ps
    BY <1>7, <2>3 DEF OnItsWay
  <2> QED BY <2>1, <2>2, <2>3
<1>12. ProbesFetchNothing'
  BY <1>6 DEF Carried, ProbesFetchNothing, TypeOK
<1> QED BY <1>10, <1>11, <1>12 DEF Carried, OneOwed, monitor

\* To those that stay nothing changes.
LEMMA CarriedLeave ==
    ASSUME TypeOK, Carried, NEW c \in Client, NEW ps \in SUBSET PV, LeavePVs(c, ps),
           connections' \subseteq connections,
           UNCHANGED <<monitor, probing, toSubscribe, failed, toFetch, fetched>>
    PROVE  Carried'
<1> USE CarryingTypes
<1> DEFINE last == {p \in ps : pvClients[p] # {} /\ pvClients[p] \subseteq {c}}
<1>1. /\ pvClients' = [p \in PV |-> IF p \in ps THEN pvClients[p] \ {c} ELSE pvClients[p]]
      /\ pvCallback' = [p \in PV |-> IF p \in last THEN NoCallback ELSE pvCallback[p]]
      /\ early' = early \ ({c} \X ps)
      /\ UNCHANGED <<broadcasts, outbox, seen>>
  BY DEF LeavePVs
<1>2. \A p \in PV : p \in last <=> p \in ps /\ pvClients[p] # {} /\ pvClients[p] \subseteq {c}
  OBVIOUS
<1> HIDE DEF last
<1>3. ASSUME NEW p \in PV, NEW e \in pvClients'[p]
      PROVE  /\ e \in pvClients[p] /\ pvCallback'[p] = pvCallback[p]
             /\ <<e, p>> \in early => <<e, p>> \in early'
  <2>1. e \in pvClients[p] /\ (p \in ps => e # c)
    BY <1>1
  <2>2. p \notin last
    BY <1>2, <2>1
  <2> QED BY <1>1, <2>1, <2>2
<1>4. FirstFetches'
  BY <1>3 DEF Carried, FirstFetches, monitor
<1>5. Coming'
  <2> SUFFICES ASSUME NEW p \in PV, NEW e \in pvClients'[p] \cap connections', <<e, p>> \notin early'
               PROVE  OnItsWay(e, p)'
    BY DEF Coming
  <2>1. OnItsWay(e, p) /\ pvCallback'[p] = pvCallback[p]
    BY <1>3 DEF Carried, Coming
  <2> QED BY <1>1, <2>1 DEF OnItsWay, monitor
<1> QED BY <1>4, <1>5 DEF Carried, OneOwed, ProbesFetchNothing, monitor

LEMMA CarriedRefresh ==
    ASSUME TypeOK, Carried, NEW c \in Client, Refresh(c) PROVE Carried'
<1> USE CarryingTypes
<1>1. /\ toFetch[c] = {} /\ probing[c] = {}
      /\ \A e \in Client : toFetch[e] \subseteq toFetch'[e] /\ (e # c => toFetch'[e] = toFetch[e])
      /\ UNCHANGED <<monitor, connections, pvClients, pvCallback, probing, toSubscribe, failed,
                     fetched, delivery>>
  BY DEF Refresh, Receiving, routes
<1>2. FirstFetches'
  BY <1>1 DEF Carried, FirstFetches, monitor, delivery
<1>3. Coming'
  BY <1>1 DEF Carried, Coming, OnItsWay, monitor, delivery
<1> QED BY <1>1, <1>2, <1>3 DEF Carried, OneOwed, ProbesFetchNothing, monitor

-----------------------------------------------------------------------------
(* Updates under way                                                       *)

\* An update goes to the routed callback, unless the client that brings it to
\* the monitor has its values yet to fetch.
LEMMA CarriedUpdate ==
    ASSUME TypeOK, IInv, Carried, NEW p \in PV, MonitorUpdates(p) PROVE Carried'
<1> USE CarryingTypes
<1>1. PICK v \in 1 .. current[p] : M!Update(p, v)
  BY DEF MonitorUpdates
<1>2. v \in Value /\ v # NoValue
  BY MaxVersionAssumption DEF Value, NoValue
<1>3. /\ \A cb \in Callback : valueCalls[cb] = NoValue
      /\ latest' = [latest EXCEPT ![p] = v]
      /\ \A q \in PV : q # p => (q \in owed' <=> q \in owed)
      /\ valueCalls' = [cb \in Callback |-> IF cb \in callbacks[p] THEN v ELSE NoValue]
      /\ UNCHANGED <<tracked, callbacks>>
  BY <1>1 DEF M!Update
<1>4. UNCHANGED <<connections, pvClients, pvCallback, probing, toSubscribe, failed, toFetch,
                  fetched, delivery>>
  BY DEF MonitorUpdates, Rest, routes, handler
<1>5. OneOwed'
  BY <1>2, <1>3 DEF Carried, OneOwed
<1>6. FirstFetches'
  BY <1>3, <1>4 DEF Carried, FirstFetches, delivery
<1>7. Coming'
  <2> SUFFICES ASSUME NEW q \in PV, NEW e \in pvClients[q] \cap connections, <<e, q>> \notin early
               PROVE  OnItsWay(e, q)'
    BY <1>4 DEF Coming, delivery
  <2>1. OnItsWay(e, q) /\ e \in Client
    BY DEF Carried, Coming
  <2>2. CASE q = p /\ pvCallback[p] \in callbacks[p]
    <3>1. valueCalls'[pvCallback'[p]] = v /\ latest'[p] = v /\ v >= v
      BY <1>2, <1>3, <1>4, <2>2
    <3> QED BY <2>2, <3>1 DEF OnItsWay
  <2>3. CASE q = p /\ pvCallback[p] \notin callbacks[p]
    BY <1>4, <2>3 DEF Carried, FirstFetches, OnItsWay
  <2>4. CASE q # p
    <3>1. latest'[q] = latest[q] /\ (q \in owed' <=> q \in owed) /\ latest[q] \in Nat
      BY <1>3, <2>4
    <3>2. CASE latest[q] = 0
      <4>1. seen'[e][q] >= latest'[q]
        BY <1>4, <2>1, <3>1, <3>2 DEF delivery
      <4> QED BY <4>1 DEF OnItsWay
    <3>3. CASE ~(valueCalls[pvCallback[q]] >= latest[q])
      BY <1>4, <2>1, <3>1, <3>3 DEF OnItsWay, delivery
    <3>4. CASE latest[q] # 0 /\ valueCalls[pvCallback[q]] >= latest[q]
      <4>1. pvCallback[q] \in Callback
        BY DEF IInv, RoutesAgree
      <4> QED BY <1>3, <3>1, <3>4, <4>1
    <3> QED BY <3>2, <3>3, <3>4
  <2> QED BY <2>2, <2>3, <2>4
<1> QED BY <1>4, <1>5, <1>6, <1>7 DEF Carried, ProbesFetchNothing

\* What a closure is called with is posted to the loop as an update of its PV.
LEMMA CarriedCall ==
    ASSUME TypeOK, IInv, Carried, NEW cb \in Callback, CallCallback(cb) PROVE Carried'
<1> USE CarryingTypes
<1>1. /\ valueCalls[cb] \in Value /\ valueCalls' = [valueCalls EXCEPT ![cb] = NoValue]
      /\ broadcasts' = broadcasts \cup {<<PvOf(cb), valueCalls[cb]>>}
      /\ UNCHANGED <<tracked, callbacks, latest, owed, connections, pvClients, pvCallback, probing,
                     toSubscribe, failed, toFetch, fetched, outbox, seen, early>>
  BY DEF CallCallback, M!Call, routes, handler
<1>2. FirstFetches'
  BY <1>1 DEF Carried, FirstFetches
<1>3. Coming'
  <2> SUFFICES ASSUME NEW p \in PV, NEW e \in pvClients[p] \cap connections, <<e, p>> \notin early
               PROVE  OnItsWay(e, p)'
    BY <1>1 DEF Coming
  <2>1. OnItsWay(e, p)
    BY DEF Carried, Coming
  <2>2. pvCallback[p] \in Callback /\ PvOf(pvCallback[p]) = p
    BY DEF IInv, RoutesAgree, Bound
  <2>3. CASE pvCallback[p] # cb
    BY <1>1, <2>1, <2>2, <2>3 DEF OnItsWay
  <2>4. CASE pvCallback[p] = cb /\ valueCalls[cb] >= latest[p]
    <3>1. /\ valueCalls[cb] \in Value /\ valueCalls[cb] >= latest'[p]
          /\ <<p, valueCalls[cb]>> \in broadcasts'
      BY <1>1, <2>2, <2>4
    <3> QED BY <3>1 DEF OnItsWay
  <2>5. CASE pvCallback[p] = cb /\ ~(valueCalls[cb] >= latest[p])
    BY <1>1, <2>1, <2>5 DEF OnItsWay
  <2> QED BY <2>3, <2>4, <2>5
<1> QED BY <1>1, <1>2, <1>3 DEF Carried, OneOwed, ProbesFetchNothing

\* A broadcast is for every client the PV has when it starts.
LEMMA CarriedStart ==
    ASSUME TypeOK, Carried, NEW p \in PV, NEW v \in Value, StartBroadcast(p, v) PROVE Carried'
<1> USE CarryingTypes
<1>1. /\ broadcasts' = broadcasts \ {<<p, v>>}
      /\ outbox' = outbox \cup (pvClients[p] \X {p} \X {v})
      /\ UNCHANGED <<monitor, connections, pvClients, pvCallback, probing, toSubscribe, failed,
                     toFetch, fetched, seen, early>>
  BY DEF StartBroadcast, routes, handler
<1>2. FirstFetches'
  BY <1>1 DEF Carried, FirstFetches, monitor
<1>3. Coming'
  <2> SUFFICES ASSUME NEW q \in PV, NEW e \in pvClients[q] \cap connections, <<e, q>> \notin early
               PROVE  OnItsWay(e, q)'
    BY <1>1 DEF Coming
  <2>1. OnItsWay(e, q)
    BY DEF Carried, Coming
  <2>2. \A u \in Value : <<q, u>> \in broadcasts => <<q, u>> \in broadcasts' \/ <<e, q, u>> \in outbox'
    BY <1>1
  <2>3. outbox \subseteq outbox'
    BY <1>1
  <2> QED BY <1>1, <2>1, <2>2, <2>3 DEF OnItsWay, monitor
<1> QED BY <1>1, <1>2, <1>3 DEF Carried, OneOwed, ProbesFetchNothing, monitor

LEMMA CarriedSend ==
    ASSUME TypeOK, Carried, NEW c \in Client, NEW p \in PV, NEW v \in Value,
           SendBroadcast(c, p, v)
    PROVE  Carried'
<1> USE CarryingTypes
<1>1. /\ outbox' = outbox \ {<<c, p, v>>} /\ Send(c, p, v)
      /\ UNCHANGED <<monitor, connections, pvClients, pvCallback, probing, toSubscribe, failed,
                     toFetch, fetched, broadcasts, early>>
  BY DEF SendBroadcast, routes, handler
<1>2. FirstFetches'
  BY <1>1 DEF Carried, FirstFetches, monitor
<1>3. Coming'
  <2> SUFFICES ASSUME NEW q \in PV, NEW e \in pvClients[q] \cap connections, <<e, q>> \notin early
               PROVE  OnItsWay(e, q)'
    BY <1>1 DEF Coming
  <2>1. OnItsWay(e, q) /\ e \in Client
    BY DEF Carried, Coming
  <2>2. /\ seen'[e][q] \in Nat /\ seen'[e][q] >= seen[e][q]
        /\ c \in connections => seen'[c][p] >= v
    BY <1>1, <2>1, SendFacts
  <2>3. seen[e][q] \in Nat /\ latest[q] \in Nat /\ v \in Nat
    BY <2>1
  <2>4. seen[e][q] >= latest[q] => seen'[e][q] >= latest[q]
    BY <2>2, <2>3
  <2>5. ASSUME NEW u \in Value, u >= latest[q], <<e, q, u>> \in outbox
        PROVE  <<e, q, u>> \in outbox' \/ seen'[e][q] >= latest[q]
    <3>1. CASE <<e, q, u>> = <<c, p, v>>
      BY <2>2, <2>3, <2>5, <3>1
    <3>2. CASE <<e, q, u>> # <<c, p, v>>
      BY <1>1, <2>5, <3>2
    <3> QED BY <3>1, <3>2
  <2> QED BY <1>1, <2>1, <2>4, <2>5 DEF OnItsWay, monitor
<1> QED BY <1>1, <1>2, <1>3 DEF Carried, OneOwed, ProbesFetchNothing, monitor

\* Steps of the handlers that concern nothing of this.
LEMMA CarriedElsewhere ==
    ASSUME TypeOK, Carried,
           \A q \in PV : \A c \in pvClients[q] : c \in connections' => c \in connections,
           \A c \in Client : probing'[c] # {} => probing[c] # {} \/ toFetch[c] = {},
           UNCHANGED <<monitor, pvClients, pvCallback, toSubscribe, failed, toFetch, fetched, delivery>>
    PROVE  Carried'
<1> USE CarryingTypes
<1>1. OneOwed' /\ FirstFetches' /\ ProbesFetchNothing'
  BY DEF Carried, OneOwed, FirstFetches, ProbesFetchNothing, monitor, delivery
<1>2. Coming'
  BY DEF Carried, Coming, OnItsWay, monitor, delivery
<1> QED BY <1>1, <1>2 DEF Carried

-----------------------------------------------------------------------------

LEMMA CarriedStep == ASSUME TypeOK, IInv, Carried, [Next]_vars PROVE Carried'
<1> USE CarryingTypes
<1>1. ASSUME NEW c \in Client, HandlerStep(c) PROVE Carried'
  <2>1. ASSUME NEW p \in PV, ProbeConnects(c, p) PROVE Carried'
    <3>1. PICK v \in Value \cup {NoValue} : M!Track(p, NoCallback, v)
      BY <2>1 DEF ProbeConnects
    <3> QED BY <2>1, <3>1, CarriedFrame DEF ProbeConnects, routes, handler
  <2>2. ASSUME NEW p \in PV, ProbeAccepts(c, p), c \in connections PROVE Carried'
    <3>1. /\ EnterSubscriptions(c, {p}) /\ {p} \in SUBSET PV /\ probing[c] # {}
          /\ probing' = [probing EXCEPT ![c] = {}] /\ UNCHANGED <<monitor, connections>>
      BY <2>2 DEF ProbeAccepts
    <3>2. toFetch[c] = {}
      BY <3>1 DEF Carried, ProbesFetchNothing
    <3> QED BY <3>1, <3>2, CarriedEnter
  <2>3. ASSUME NEW p \in PV, ProbeRejects(c, p) \/ (ProbeAccepts(c, p) /\ c \notin connections)
        PROVE  Carried'
    <3>1. /\ \A e \in Client : probing'[e] # {} => probing[e] # {}
          /\ UNCHANGED <<monitor, connections, pvClients, pvCallback, toSubscribe, failed,
                         toFetch, fetched, delivery>>
      BY <2>3 DEF ProbeRejects, ProbeAccepts, routes, TypeOK
    <3> QED BY <2>3, <3>1, CarriedElsewhere
  <2> QED
    BY <1>1, <2>1, <2>2, <2>3, CarriedSubscribe, CarriedUnsubscribe, CarriedFailure, CarriedFetch
    DEF HandlerStep
<1>2. ASSUME NEW c \in Client, ClientRequest(c) PROVE Carried'
  <2>1. CASE Connect(c)
    <3>1. /\ \A e \in Client : phase[e] = "open" => e # c
          /\ connections' = connections \cup {c}
          /\ UNCHANGED <<monitor, pvClients, pvCallback, probing, toSubscribe, failed, toFetch,
                         fetched, delivery>>
      BY <2>1 DEF Connect, routes, handler
    <3>2. \A p \in PV : \A e \in pvClients[p] : e \in connections' => e \in connections
      BY <3>1 DEF IInv, RoutesAgree
    <3> QED BY <3>1, <3>2, CarriedElsewhere
  <2>2. ASSUME NEW ps \in SUBSET PV, Subscribe(c, ps) PROVE Carried'
    <3>1. /\ EnterSubscriptions(c, ps) /\ toFetch[c] = {}
          /\ probing' = [probing EXCEPT ![c] = {}] /\ UNCHANGED <<monitor, connections>>
      BY <2>2 DEF Subscribe, Receiving, TypeOK
    <3> QED BY <3>1, CarriedEnter
  <2>3. ASSUME NEW ps \in SUBSET PV, Unsubscribe(c, ps) PROVE Carried'
    BY <2>3, CarriedLeave DEF Unsubscribe
  <2>4. ASSUME NEW p \in PV, SubscribeSafely(c, p) PROVE Carried'
    <3>1. /\ \A e \in Client : probing'[e] # {} => probing[e] # {} \/ toFetch[e] = {}
          /\ UNCHANGED <<monitor, connections, pvClients, pvCallback, toSubscribe, failed,
                         toFetch, fetched, delivery>>
      BY <2>4 DEF SubscribeSafely, Receiving, routes, TypeOK
    <3> QED BY <3>1, CarriedElsewhere
  <2>5. CASE Refresh(c)
    BY <2>5, CarriedRefresh
  <2>6. CASE Disconnect(c)
    <3>1. subscriptions[c] \in SUBSET PV
      BY DEF TypeOK
    <3> QED BY <2>6, <3>1, CarriedLeave DEF Disconnect
  <2> QED BY <1>2, <2>1, <2>2, <2>3, <2>4, <2>5, <2>6 DEF ClientRequest
<1>3. CASE Delivery
  BY <1>3, CarriedCall, CarriedStart, CarriedSend DEF Delivery
<1>4. CASE World
  <2>1. CASE CloseAll
    BY <2>1, CarriedElsewhere DEF CloseAll, routes, handler
  <2>2. ASSUME NEW p \in PV, HttpSubscribes(p) \/ GetValueReads(p) \/ IocChanges(p)
        PROVE  Carried'
    <3>1. PICK v \in Value \cup {NoValue} :
            \/ UNCHANGED monitor
            \/ M!Track(p, NoCallback, v)
            \/ v \in Value /\ M!ReadValue(p, v)
            \/ M!Owe(p)
      BY <2>2 DEF HttpSubscribes, GetValueReads, IocChanges
    <3>2. UNCHANGED <<connections, pvClients, pvCallback, probing, toSubscribe, failed, toFetch,
                      fetched, delivery>>
      BY <2>2 DEF HttpSubscribes, GetValueReads, IocChanges, Rest, routes, handler
    <3> QED BY <3>1, <3>2, CarriedFrame
  <2> QED BY <1>4, <2>1, <2>2, CarriedUpdate DEF World
<1>5. CASE UNCHANGED vars
  BY <1>5, CarriedElsewhere DEF vars, routes, handler
<1> QED BY <1>1, <1>2, <1>3, <1>4, <1>5 DEF Next

\* However a client's subscribe interleaves with updates, failures and the other
\* clients, between its initial value and the updates nothing is missing.
THEOREM NothingMissed == Spec => []NoGap
<1> USE CarryingTypes
<1>1. Init => Carried
  BY DEF Init, M!Init, Carried, OneOwed, FirstFetches, Coming, ProbesFetchNothing
<1>2. TypeOK /\ IInv /\ Carried => NoGap
  <2> SUFFICES ASSUME TypeOK, IInv, Carried, AtRest, NEW p \in PV,
                      NEW c \in pvClients[p] \cap connections, <<c, p>> \notin early,
                      latest[p] # NoValue
               PROVE  seen[c][p] >= latest[p]
    BY DEF NoGap, UpToDate
  <2>1. c \in Client /\ Receiving(c) /\ pvCallback[p] \in Callback
    BY DEF IInv, RoutesAgree, AtRest
  <2>2. OnItsWay(c, p)
    BY DEF Carried, Coming
  <2>3. valueCalls[pvCallback[p]] = 0 /\ fetched[c][p] = 0 /\ latest[p] \in Nat /\ latest[p] # 0
    BY <2>1 DEF AtRest, Receiving
  <2> QED BY <2>1, <2>2, <2>3 DEF OnItsWay, AtRest, Receiving
<1> QED BY <1>1, <1>2, CarriedStep, TypeCorrect, Invariance, PTL DEF Spec

=============================================================================
