------------------------ MODULE DeviceSocketProofs -------------------------
(***************************************************************************)
(* Proofs about DeviceSocket, for any clients, devices and PVs, any cap    *)
(* and any number of values.  What depends on it assumes Disjoint: no two  *)
(* devices share a PV.                                                     *)
(***************************************************************************)
EXTENDS DeviceSocket, FiniteSetTheorems, TLAPS

LEMMA CallbackFacts ==
    \A cb \in Callback : /\ PvOf(cb) \in PV /\ DeviceOf(cb) \in Device
                         /\ PvOf(cb) \in Pvs[DeviceOf(cb)]
                         /\ SignalOf(cb) \in Signal
                         /\ SignalOf(cb) = <<DeviceOf(cb), PvOf(cb)>>
                         /\ cb # NoCallback
  BY PvsAssumption, NoCallbackAssumption DEF Callback, PvOf, DeviceOf, SignalOf, Signal

LEMMA SignalFacts ==
    \A s \in Signal : s \in Device \X PV /\ s[1] \in Device /\ s[2] \in PV /\ s[2] \in Pvs[s[1]]
  BY DEF Signal

-----------------------------------------------------------------------------
(* Type correctness                                                        *)

\* The variables of the monitor keep their types under its operations.
LEMMA CallTypes ==
    ASSUME M!TypeInvariant, NEW p \in PV, NEW cb \in Callback \cup {NoCallback},
           NEW v \in Value \cup {NoValue},
           \/ M!Track(p, cb, v)
           \/ M!TrackAndRaise(p, v)
           \/ cb \in Callback /\ M!Join(p, cb)
           \/ M!Release(p, cb)
    PROVE  M!TypeInvariant'
<1> USE DEF M!TypeInvariant, M!Given
<1>1. CASE M!Track(p, cb, v)
  BY <1>1 DEF M!Track
<1>2. CASE M!TrackAndRaise(p, v)
  BY <1>2 DEF M!TrackAndRaise
<1>3. CASE cb \in Callback /\ M!Join(p, cb)
  BY <1>3 DEF M!Join
<1>4. CASE M!Release(p, cb)
  BY <1>4 DEF M!Release
<1> QED
  BY <1>1, <1>2, <1>3, <1>4

LEMMA UpdateTypes ==
    ASSUME M!TypeInvariant, NEW p \in PV, NEW v \in Value,
           \/ M!ReadValue(p, v)
           \/ M!Owe(p)
           \/ M!Update(p, v)
           \/ \E cb \in Callback : M!Call(cb)
    PROVE  M!TypeInvariant'
<1> USE DEF M!TypeInvariant
<1>1. CASE M!ReadValue(p, v)
  BY <1>1 DEF M!ReadValue
<1>2. CASE M!Owe(p)
  BY <1>2 DEF M!Owe
<1>3. CASE M!Update(p, v)
  BY <1>3 DEF M!Update
<1>4. CASE \E cb \in Callback : M!Call(cb)
  BY <1>4 DEF M!Call
<1> QED
  BY <1>1, <1>2, <1>3, <1>4

\* What MakeCallbacks does, in terms of the callbacks it makes.
MakeCallbacksTypes(c, d) ==
    /\ devicePvs' \in [Device -> SUBSET PV]
    /\ pvCallback' \in [PV -> Callback \cup {NoCallback}]
    /\ toSubscribe' \in [Client -> SUBSET Callback]

LEMMA MakingTypes ==
    ASSUME TypeOK, NEW c \in Client, NEW d \in Device, MakeCallbacks(c, d)
    PROVE  MakeCallbacksTypes(c, d)
<1> USE DEF MakeCallbacksTypes, TypeOK
<1>1. CASE deviceClients[d] # {}
  BY <1>1 DEF MakeCallbacks
<1>2. CASE deviceClients[d] = {}
  <2>1. PICK copy \in [Pvs[d] -> Copy] :
          /\ devicePvs' = [devicePvs EXCEPT ![d] = Pvs[d]]
          /\ pvCallback' = [p \in PV |-> IF p \in Pvs[d] THEN <<d, p, copy[p]>> ELSE pvCallback[p]]
          /\ toSubscribe' = [toSubscribe EXCEPT ![c] = {<<d, p, copy[p]>> : p \in Pvs[d]}]
    BY <1>2 DEF MakeCallbacks
  <2>2. Pvs[d] \subseteq PV
    BY PvsAssumption
  <2>3. \A p \in Pvs[d] : <<d, p, copy[p]>> \in Callback
    BY <2>2 DEF Callback
  <2> QED
    BY <2>1, <2>2, <2>3
<1> QED
  BY <1>1, <1>2

\* The types hold.
THEOREM TypeCorrect == Spec => []TypeOK
<1> USE PvsAssumption, CapAssumption, MaxVersionAssumption
<1>1. Init => TypeOK
  BY DEF Init, TypeOK, M!Init, M!TypeInvariant, Value, NoValue
<1>2. TypeOK /\ [Next]_vars => TypeOK'
  <2> SUFFICES ASSUME TypeOK, [Next]_vars PROVE TypeOK'
    OBVIOUS
  <2> USE DEF TypeOK
  <2>1. ASSUME NEW c \in Client, DeviceNotFound(c) PROVE TypeOK'
    BY <2>1 DEF DeviceNotFound, monitor, routes, delivery, M!TypeInvariant
  <2>2. ASSUME NEW c \in Client, EnterDevice(c) PROVE TypeOK'
    <3>1. PICK d \in Device, requires \in BOOLEAN :
            /\ asking' = [asking EXCEPT ![c] = {}]
            /\ opening' = [opening EXCEPT ![c] = {<<d, requires>>}]
            /\ subscriptions' = [subscriptions EXCEPT ![c] = @ \cup {d}]
            /\ MakeCallbacks(c, d)
            /\ deviceClients' = [deviceClients EXCEPT ![d] = @ \cup {c}]
            /\ seen' = [seen EXCEPT ![c] = [s \in Signal |-> IF s \in {r \in Signal : r[1] = d}
                                                           THEN NoValue ELSE @[s]]]
            /\ missed' \subseteq missed \cup ({c} \X Signal)
            /\ UNCHANGED <<monitor, current, phase, connections, raised, toFetch, fetched,
                           toUnsubscribe, broadcasts, outbox, lost>>
      BY <2>2 DEF EnterDevice
    <3>2. MakeCallbacksTypes(c, d)
      BY <3>1, MakingTypes
    <3>3. seen' \in [Client -> [Signal -> Value \cup {NoValue}]]
      BY <3>1
    <3>4. missed' \subseteq Client \X Signal
      BY <3>1
    <3> QED
      <4>1. opening'[c] \subseteq Device \X BOOLEAN /\ opening' \in [Client -> SUBSET (Device \X BOOLEAN)]
        BY <3>1
      <4>2. M!TypeInvariant'
        BY <3>1 DEF monitor, M!TypeInvariant
      <4> QED
        BY <3>1, <3>2, <3>3, <3>4, <4>1, <4>2 DEF MakeCallbacksTypes
  <2>3. ASSUME NEW c \in Client, NEW cb \in Callback, SubscribeReturns(c, cb) PROVE TypeOK'
    <3>1. \A v \in {current[PvOf(cb)], NoValue} : v \in Value \cup {NoValue}
      BY CallbackFacts
    <3>2. M!TypeInvariant'
      BY <2>3, <3>1, CallbackFacts, CallTypes DEF SubscribeReturns
    <3> QED
      BY <2>3, <3>2 DEF SubscribeReturns, routes, delivery
  <2>4. ASSUME NEW c \in Client, NEW cb \in Callback, SubscribeRaises(c, cb) PROVE TypeOK'
    <3>1. \A v \in {current[PvOf(cb)], NoValue} : v \in Value \cup {NoValue}
      BY CallbackFacts
    <3>2. CASE UNCHANGED monitor
      BY <2>4, <3>2, CallbackFacts DEF SubscribeRaises, routes, monitor, M!TypeInvariant
    <3>3. CASE \E v \in {current[PvOf(cb)], NoValue} : M!TrackAndRaise(PvOf(cb), v)
      <4>1. M!TypeInvariant'
        BY <3>1, <3>3, CallbackFacts, CallTypes
      <4> QED
        BY <2>4, <4>1, CallbackFacts DEF SubscribeRaises, routes
    <3> QED
      BY <2>4, <3>2, <3>3 DEF SubscribeRaises
  <2>5. ASSUME NEW c \in Client, NEW cb \in Callback, UnsubscribeReturns(c, cb) PROVE TypeOK'
    <3>1. M!TypeInvariant'
      BY <2>5, CallbackFacts, CallTypes DEF UnsubscribeReturns
    <3> QED
      BY <2>5, <3>1 DEF UnsubscribeReturns, routes, delivery
  <2>6. ASSUME NEW c \in Client, AnswerNotConnected(c) PROVE TypeOK'
    <3>1. missed' \subseteq Client \X Signal
      BY <2>6 DEF AnswerNotConnected
    <3> QED
      BY <2>6, <3>1 DEF AnswerNotConnected, monitor, routes, M!TypeInvariant
  <2>7. ASSUME NEW c \in Client, OpenDevice(c) PROVE TypeOK'
    BY <2>7 DEF OpenDevice, SignalsToFetch, monitor, routes, delivery, M!TypeInvariant
  <2>8. ASSUME NEW c \in Client, NEW s \in Signal, FetchValue(c, s) PROVE TypeOK'
    BY <2>8 DEF FetchValue, monitor, routes, delivery, M!TypeInvariant, Signal
  <2>9. ASSUME NEW c \in Client, NEW s \in Signal, SendFetched(c, s) PROVE TypeOK'
    BY <2>9 DEF SendFetched, Send, monitor, routes, M!TypeInvariant
  <2>10. ASSUME NEW c \in Client, Connect(c) PROVE TypeOK'
    BY <2>10 DEF Connect, monitor, routes, handler, delivery, M!TypeInvariant
  <2>11. ASSUME NEW c \in Client, NEW d \in Device, Unsubscribe(c, d) PROVE TypeOK'
    BY <2>11 DEF Unsubscribe, LeaveDevices, monitor, M!TypeInvariant
  <2>12. ASSUME NEW c \in Client, NEW d \in Device, NEW requires \in BOOLEAN,
                RequestDevice(c, d, requires)
         PROVE  TypeOK'
    BY <2>12 DEF RequestDevice, monitor, routes, delivery, M!TypeInvariant
  <2>13. ASSUME NEW c \in Client, Refresh(c) PROVE TypeOK'
    BY <2>13 DEF Refresh, SignalsToFetch, monitor, routes, delivery, M!TypeInvariant
  <2>14. ASSUME NEW c \in Client, Disconnect(c) PROVE TypeOK'
    BY <2>14 DEF Disconnect, LeaveDevices, monitor, M!TypeInvariant
  <2>15. ASSUME NEW cb \in Callback, CallCallback(cb) PROVE TypeOK'
    <3>1. valueCalls[cb] \in Value /\ M!TypeInvariant'
      BY <2>15 DEF CallCallback, M!Call, M!TypeInvariant
    <3> QED
      BY <2>15, <3>1, CallbackFacts DEF CallCallback, routes, handler
  <2>16. ASSUME NEW s \in Signal, NEW v \in Value, StartBroadcast(s, v) PROVE TypeOK'
    <3>1. deviceClients[s[1]] \X {s} \X {v} \subseteq Client \X Signal \X Value
      BY SignalFacts
    <3> QED
      BY <2>16, <3>1 DEF StartBroadcast, monitor, routes, handler, M!TypeInvariant
  <2>17. ASSUME NEW s \in Signal, NEW v \in Value, NEW c \in Client, SendBroadcast(c, s, v)
         PROVE  TypeOK'
    BY <2>17 DEF SendBroadcast, Send, monitor, routes, handler, M!TypeInvariant
  <2>18. CASE CloseAll
    BY <2>18 DEF CloseAll, monitor, routes, handler, delivery, M!TypeInvariant
  <2>19. ASSUME NEW p \in PV, HttpSubscribes(p) \/ GetValueReads(p) PROVE TypeOK'
    <3>1. current[p] \in Value
      OBVIOUS
    <3>2. M!TypeInvariant'
      BY <2>19, <3>1, CallTypes, UpdateTypes DEF HttpSubscribes, GetValueReads
    <3> QED
      BY <2>19, <3>2 DEF HttpSubscribes, GetValueReads, Sockets, routes, handler, delivery
  <2>20. ASSUME NEW p \in PV, IocChanges(p) \/ MonitorUpdates(p) PROVE TypeOK'
    <3>1. \A v \in 1 .. current[p] : v \in Value
      BY DEF Value
    <3>2. CASE IocChanges(p)
      <4>1. current' \in [PV -> Value]
        BY <3>2 DEF IocChanges, Value
      <4>2. M!TypeInvariant'
        BY <3>2, <3>1, UpdateTypes DEF IocChanges, monitor, M!TypeInvariant
      <4> QED
        BY <3>2, <4>1, <4>2 DEF IocChanges, Sockets, routes, handler, delivery
    <3>3. CASE MonitorUpdates(p)
      <4>1. M!TypeInvariant'
        BY <3>3, <3>1, UpdateTypes DEF MonitorUpdates
      <4> QED
        BY <3>3, <4>1 DEF MonitorUpdates, Sockets, routes, handler, delivery
    <3> QED
      BY <2>20, <3>2, <3>3
  <2>21. CASE UNCHANGED vars
    BY <2>21 DEF vars, monitor, routes, handler, delivery, M!TypeInvariant
  <2>22. ASSUME NEW c \in Client, HandlerStep(c) PROVE TypeOK'
    BY <2>1, <2>2, <2>3, <2>4, <2>5, <2>6, <2>7, <2>8, <2>9, <2>22 DEF HandlerStep
  <2>23. ASSUME NEW c \in Client, ClientRequest(c) PROVE TypeOK'
    BY <2>10, <2>11, <2>12, <2>13, <2>14, <2>23 DEF ClientRequest
  <2>24. CASE Delivery
    BY <2>15, <2>16, <2>17, <2>24 DEF Delivery
  <2>25. CASE World
    BY <2>18, <2>19, <2>20, <2>25 DEF World
  <2> QED
    BY <2>21, <2>22, <2>23, <2>24, <2>25 DEF Next
<1> QED
  BY <1>1, <1>2, PTL DEF Spec

-----------------------------------------------------------------------------
(* The cap                                                                 *)

\* A device being looked up fits under the cap: nothing else enters devices for
\* the client meanwhile.
CapInv ==
    \A c \in Client :
        /\ IsFiniteSet(subscriptions[c])
        /\ Cap > 0 => Cardinality(subscriptions[c]) <= Cap
        /\ Cap > 0 /\ asking[c] # {} => Cardinality(subscriptions[c]) + 1 <= Cap

\* No step but four touches what the cap is about.
LEMMA CapFrame ==
    ASSUME TypeOK, [Next]_vars,
           ~ \E c \in Client :
                \/ EnterDevice(c) \/ Disconnect(c)
                \/ \E d \in Device :
                    Unsubscribe(c, d) \/ \E requires \in BOOLEAN : RequestDevice(c, d, requires)
    PROVE  subscriptions' = subscriptions /\ \A c \in Client : asking'[c] \subseteq asking[c]
<1> USE DEF TypeOK
<1>1. ASSUME NEW c \in Client, HandlerStep(c)
      PROVE  subscriptions' = subscriptions /\ \A e \in Client : asking'[e] \subseteq asking[e]
  BY <1>1 DEF HandlerStep, DeviceNotFound, SubscribeReturns, SubscribeRaises, UnsubscribeReturns,
     AnswerNotConnected, OpenDevice, FetchValue, SendFetched, routes
<1>2. ASSUME NEW c \in Client, ClientRequest(c)
      PROVE  subscriptions' = subscriptions /\ asking' = asking
  BY <1>2 DEF ClientRequest, Connect, Refresh, routes, handler
<1>3. CASE Delivery
  BY <1>3 DEF Delivery, CallCallback, StartBroadcast, SendBroadcast, routes, handler
<1>4. CASE World
  BY <1>4 DEF World, CloseAll, HttpSubscribes, GetValueReads, IocChanges, MonitorUpdates, Sockets,
     routes, handler
<1>5. CASE UNCHANGED vars
  BY <1>5 DEF vars, routes, handler
<1> QED
  BY <1>1, <1>2, <1>3, <1>4, <1>5 DEF Next

\* However many lookups and clients overlap, no client ever has more devices
\* than the cap allows.
THEOREM CapNeverExceeded == Spec => []CapHolds
<1> USE CapAssumption DEF TypeOK
<1>1. Init => CapInv
  BY FS_EmptySet DEF Init, CapInv
<1>2. TypeOK /\ CapInv /\ [Next]_vars => CapInv'
  <2> SUFFICES ASSUME TypeOK, CapInv, [Next]_vars PROVE CapInv'
    OBVIOUS
  <2>1. ASSUME NEW c \in Client, EnterDevice(c) PROVE CapInv'
    <3>1. PICK d \in Device : /\ subscriptions' = [subscriptions EXCEPT ![c] = @ \cup {d}]
                              /\ asking' = [asking EXCEPT ![c] = {}]
                              /\ asking[c] # {}
      BY <2>1 DEF EnterDevice
    <3>2. /\ IsFiniteSet(subscriptions[c] \cup {d})
          /\ Cardinality(subscriptions[c] \cup {d}) <= Cardinality(subscriptions[c]) + 1
      <4>1. IsFiniteSet(subscriptions[c])
        BY DEF CapInv
      <4>2. Cardinality(subscriptions[c]) \in Nat
        BY <4>1, FS_CardinalityType
      <4>3. /\ IsFiniteSet(subscriptions[c] \cup {d})
            /\ Cardinality(subscriptions[c] \cup {d}) =
                  IF d \in subscriptions[c] THEN Cardinality(subscriptions[c])
                  ELSE Cardinality(subscriptions[c]) + 1
        BY <4>1, FS_AddElement
      <4> QED
        BY <4>2, <4>3
    <3>3. Cardinality(subscriptions[c]) \in Nat /\ Cardinality(subscriptions[c] \cup {d}) \in Nat
      BY <3>2, FS_CardinalityType DEF CapInv
    <3> QED
      BY <3>1, <3>2, <3>3 DEF CapInv
  <2>2. ASSUME NEW c \in Client, NEW d \in Device, Unsubscribe(c, d) PROVE CapInv'
    <3>1. subscriptions' = [subscriptions EXCEPT ![c] = @ \ {d}] /\ asking' = asking /\ asking[c] = {}
      BY <2>2 DEF Unsubscribe, Receiving
    <3>2. /\ IsFiniteSet(subscriptions[c] \ {d})
          /\ Cardinality(subscriptions[c] \ {d}) <= Cardinality(subscriptions[c])
      BY FS_Subset DEF CapInv
    <3>3. Cardinality(subscriptions[c]) \in Nat /\ Cardinality(subscriptions[c] \ {d}) \in Nat
      BY <3>2, FS_CardinalityType DEF CapInv
    <3> QED
      BY <3>1, <3>2, <3>3 DEF CapInv
  <2>3. ASSUME NEW c \in Client, Disconnect(c) PROVE CapInv'
    BY <2>3, FS_EmptySet DEF Disconnect, Receiving, CapInv
  <2>4. ASSUME NEW c \in Client, NEW d \in Device, NEW requires \in BOOLEAN,
               RequestDevice(c, d, requires)
        PROVE  CapInv'
    BY <2>4 DEF RequestDevice, WithinCap, routes, CapInv
  <2>5. CASE subscriptions' = subscriptions /\ \A c \in Client : asking'[c] \subseteq asking[c]
    BY <2>5 DEF CapInv
  <2> QED
    BY <2>1, <2>2, <2>3, <2>4, <2>5, CapFrame
<1>3. CapInv => CapHolds
  BY DEF CapInv, CapHolds
<1> QED
  BY <1>1, <1>2, <1>3, TypeCorrect, PTL DEF Spec

-----------------------------------------------------------------------------
(* The routes and the monitor                                              *)

\* A handler does one thing at a time, and holds the device whose PVs it is
\* subscribing.
OneThing(c) ==
    /\ asking[c] # {} => phase[c] = "open" /\ opening[c] = {} /\ toUnsubscribe[c] = {}
    /\ opening[c] # {} => phase[c] = "open" /\ asking[c] = {} /\ toUnsubscribe[c] = {}
    /\ toSubscribe[c] # {} => opening[c] # {}
    /\ \A cb \in toSubscribe[c] : DeviceOf(cb) \in subscriptions[c]

HandlerInv == \A c \in Client : OneThing(c)

\* A callback under way to the monitor is the routed one, one under way out of
\* it is not.
CallbackInv ==
    /\ \A p \in PV : \A cb \in callbacks[p] : PvOf(cb) = p
    /\ \A c \in Client : \A cb \in toSubscribe[c] : pvCallback[PvOf(cb)] = cb
    /\ \A c \in Client : \A cb \in toUnsubscribe[c] : pvCallback[PvOf(cb)] # cb

IInv == HandlerInv /\ RoutesAgree /\ CallbackInv /\ MonitorMatchesRoutes

routing == <<phase, routes, asking, opening, toSubscribe, toUnsubscribe, callbacks, lost>>

\* Most steps leave all of this alone.
LEMMA RoutingFrame == ASSUME IInv, UNCHANGED routing PROVE IInv'
  BY DEF IInv, HandlerInv, OneThing, RoutesAgree, CallbackInv, MonitorMatchesRoutes, routing,
     routes

\* A PV of two devices is one of the same device twice.
LEMMA DisjointFacts ==
    ASSUME Disjoint, NEW d \in Device, NEW e \in Device, NEW p, p \in Pvs[d], p \in Pvs[e]
    PROVE  d = e
  BY DEF Disjoint

\* The first client's callbacks: no PV of the device has one before.
LEMMA Entering ==
    ASSUME Disjoint, TypeOK, TypeOK', IInv, NEW c \in Client, EnterDevice(c)
    PROVE  IInv'
<1> USE DEF TypeOK
<1>1. PICK d \in Device, requires \in BOOLEAN :
        /\ <<d, requires>> \in asking[c]
        /\ asking' = [asking EXCEPT ![c] = {}]
        /\ opening' = [opening EXCEPT ![c] = {<<d, requires>>}]
        /\ subscriptions' = [subscriptions EXCEPT ![c] = @ \cup {d}]
        /\ MakeCallbacks(c, d)
        /\ deviceClients' = [deviceClients EXCEPT ![d] = @ \cup {c}]
        /\ UNCHANGED <<phase, toUnsubscribe, callbacks, lost>>
  BY DEF EnterDevice, monitor
<1>2. phase[c] = "open" /\ opening[c] = {} /\ toUnsubscribe[c] = {} /\ toSubscribe[c] = {}
  BY <1>1 DEF IInv, HandlerInv, OneThing
<1>3. CASE deviceClients[d] # {}
  <2>1. UNCHANGED <<devicePvs, pvCallback, toSubscribe>>
    BY <1>1, <1>3 DEF MakeCallbacks
  <2>2. HandlerInv'
    <3> SUFFICES ASSUME NEW e \in Client PROVE OneThing(e)'
      BY DEF HandlerInv
    <3>1. OneThing(e)
      BY DEF IInv, HandlerInv
    <3>2. CASE e = c
      BY <1>1, <1>2, <2>1, <3>2 DEF OneThing
    <3>3. CASE e # c
      BY <1>1, <2>1, <3>1, <3>3 DEF OneThing
    <3> QED
      BY <3>2, <3>3
  <2>3. RoutesAgree'
    <3>1. /\ \A e \in Client, f \in Device : f \in subscriptions'[e] <=> e \in deviceClients'[f]
          /\ \A e \in Client : subscriptions'[e] # {} => phase'[e] = "open"
      BY <1>1, <1>2 DEF IInv, RoutesAgree
    <3>2. \A f \in Device : deviceClients'[f] = {} <=> deviceClients[f] = {}
      BY <1>1, <1>3
    <3>3. \A p \in PV : pvCallback[p] # NoCallback => DeviceOf(pvCallback[p]) \in Device
      BY CallbackFacts
    <3> QED
      BY <2>1, <3>1, <3>2, <3>3 DEF IInv, RoutesAgree
  <2>4. CallbackInv' /\ MonitorMatchesRoutes'
    BY <1>1, <2>1 DEF IInv, CallbackInv, MonitorMatchesRoutes
  <2> QED
    BY <2>2, <2>3, <2>4 DEF IInv
<1>4. CASE deviceClients[d] = {}
  <2>1. PICK copy \in [Pvs[d] -> Copy] :
          /\ \A cb \in {<<d, p, copy[p]>> : p \in Pvs[d]} : Fresh(cb)
          /\ devicePvs' = [devicePvs EXCEPT ![d] = Pvs[d]]
          /\ pvCallback' = [p \in PV |-> IF p \in Pvs[d] THEN <<d, p, copy[p]>> ELSE pvCallback[p]]
          /\ toSubscribe' = [toSubscribe EXCEPT ![c] = {<<d, p, copy[p]>> : p \in Pvs[d]}]
    BY <1>1, <1>4 DEF MakeCallbacks
  <2> DEFINE made(p) == <<d, p, copy[p]>>
  <2>2. Pvs[d] \subseteq PV
    BY PvsAssumption
  <2>3. \A p \in Pvs[d] : /\ made(p) \in Callback /\ PvOf(made(p)) = p /\ DeviceOf(made(p)) = d
                          /\ Fresh(made(p))
    BY <2>1, <2>2 DEF Callback, PvOf, DeviceOf
  <2> HIDE DEF made
  <2>4. /\ \A p \in Pvs[d] : pvCallback'[p] = made(p)
        /\ \A p \in PV \ Pvs[d] : pvCallback'[p] = pvCallback[p]
        /\ \A cb \in toSubscribe'[c] : \E p \in Pvs[d] : cb = made(p)
        /\ \A p \in Pvs[d] : made(p) \in toSubscribe'[c]
        /\ \A e \in Client \ {c} : toSubscribe'[e] = toSubscribe[e]
    BY <2>1, <2>2 DEF made
  <2>5. \A p \in Pvs[d] : pvCallback[p] = NoCallback
    <3> SUFFICES ASSUME NEW p \in Pvs[d], pvCallback[p] # NoCallback PROVE FALSE
      OBVIOUS
    <3>1. p \in PV /\ pvCallback[p] \in Callback
      BY <2>2
    <3>2. PvOf(pvCallback[p]) = p /\ deviceClients[DeviceOf(pvCallback[p])] # {}
      BY <3>1 DEF IInv, RoutesAgree
    <3>3. DeviceOf(pvCallback[p]) = d
      BY <3>1, <3>2, CallbackFacts, DisjointFacts
    <3> QED
      BY <1>4, <3>2, <3>3
  <2>6. \A e \in Client : \A cb \in toSubscribe[e] : PvOf(cb) \notin Pvs[d]
    BY <2>5, CallbackFacts DEF IInv, CallbackInv
  <2>7. HandlerInv'
    <3> SUFFICES ASSUME NEW e \in Client PROVE OneThing(e)'
      BY DEF HandlerInv
    <3>1. OneThing(e)
      BY DEF IInv, HandlerInv
    <3>2. CASE e = c
      BY <1>1, <1>2, <2>3, <2>4, <3>2 DEF OneThing
    <3>3. CASE e # c
      BY <1>1, <2>4, <3>1, <3>3 DEF OneThing
    <3> QED
      BY <3>2, <3>3
  <2>8. RoutesAgree'
    <3>1. /\ \A e \in Client, f \in Device : f \in subscriptions'[e] <=> e \in deviceClients'[f]
          /\ \A e \in Client : subscriptions'[e] # {} => phase'[e] = "open"
      BY <1>1, <1>2 DEF IInv, RoutesAgree
    <3>2. \A f \in Device : devicePvs'[f] = IF deviceClients'[f] = {} THEN {} ELSE Pvs[f]
      BY <1>1, <2>1 DEF IInv, RoutesAgree
    <3>3. ASSUME NEW p \in PV, p \in Pvs[d]
          PROVE  pvCallback'[p] # NoCallback /\ PvOf(pvCallback'[p]) = p
                    /\ deviceClients'[DeviceOf(pvCallback'[p])] # {}
      <4>1. deviceClients'[d] # {}
        BY <1>1
      <4> QED
        BY <2>3, <2>4, <3>3, <4>1, CallbackFacts
    <3>4. ASSUME NEW p \in PV, p \notin Pvs[d], pvCallback'[p] = NoCallback, NEW f \in Device
          PROVE  p \notin devicePvs'[f]
      BY <2>1, <2>4, <3>4 DEF IInv, RoutesAgree
    <3>5. ASSUME NEW p \in PV, p \notin Pvs[d], pvCallback'[p] # NoCallback
          PROVE  PvOf(pvCallback'[p]) = p /\ deviceClients'[DeviceOf(pvCallback'[p])] # {}
      <4>1. pvCallback'[p] = pvCallback[p] /\ pvCallback[p] \in Callback
        BY <2>4, <3>5
      <4>2. PvOf(pvCallback[p]) = p /\ deviceClients[DeviceOf(pvCallback[p])] # {}
        BY <3>5, <4>1 DEF IInv, RoutesAgree
      <4> QED
        BY <1>1, <4>1, <4>2, CallbackFacts
    <3> QED
      BY <3>1, <3>2, <3>3, <3>4, <3>5 DEF RoutesAgree
  <2>9. CallbackInv'
    <3>1. \A p \in PV : \A cb \in callbacks'[p] : PvOf(cb) = p
      BY <1>1 DEF IInv, CallbackInv
    <3>2. \A e \in Client : \A cb \in toSubscribe'[e] : pvCallback'[PvOf(cb)] = cb
      <4> SUFFICES ASSUME NEW e \in Client, NEW cb \in toSubscribe'[e]
                   PROVE  pvCallback'[PvOf(cb)] = cb
        OBVIOUS
      <4>1. CASE e = c
        BY <2>3, <2>4, <4>1
      <4>2. CASE e # c
        BY <2>4, <2>6, <4>2, CallbackFacts DEF IInv, CallbackInv
      <4> QED
        BY <4>1, <4>2
    <3>3. \A e \in Client : \A cb \in toUnsubscribe'[e] : pvCallback'[PvOf(cb)] # cb
      BY <1>1, <2>3, <2>4, CallbackFacts DEF IInv, CallbackInv, Fresh
    <3> QED
      BY <3>1, <3>2, <3>3 DEF CallbackInv
  <2>10. MonitorMatchesRoutes'
    <3> SUFFICES ASSUME NEW p \in PV PROVE
            /\ \A cb \in callbacks'[p] :
                cb = pvCallback'[p] \/ \E e \in Client : cb \in toUnsubscribe'[e]
            /\ pvCallback'[p] # NoCallback =>
                \/ pvCallback'[p] \in callbacks'[p] \cup lost'
                \/ \E e \in Client : pvCallback'[p] \in toSubscribe'[e]
      BY DEF MonitorMatchesRoutes
    <3>1. CASE p \in Pvs[d]
      <4>1. \A cb \in callbacks[p] : cb # NoCallback
        BY NoCallbackAssumption DEF M!TypeInvariant
      <4>2. \A cb \in callbacks'[p] : \E e \in Client : cb \in toUnsubscribe'[e]
        <5>1. \A cb \in callbacks[p] : \E e \in Client : cb \in toUnsubscribe[e]
          BY <2>5, <3>1, <4>1 DEF IInv, MonitorMatchesRoutes
        <5> QED
          BY <1>1, <5>1
      <4>3. pvCallback'[p] \in toSubscribe'[c]
        BY <2>4, <3>1
      <4> QED
        BY <4>2, <4>3
    <3>2. CASE p \notin Pvs[d]
      <4>1. \A e \in Client : toSubscribe[e] \subseteq toSubscribe'[e]
        BY <1>2, <2>4
      <4> QED
        BY <1>1, <2>4, <3>2, <4>1 DEF IInv, MonitorMatchesRoutes
    <3> QED
      BY <3>1, <3>2
  <2> QED
    BY <2>7, <2>8, <2>9, <2>10 DEF IInv
<1> QED
  BY <1>3, <1>4

\* The last client takes the device's PVs and their callbacks with it.
LEMMA Leaving ==
    ASSUME Disjoint, TypeOK, TypeOK', IInv, NEW c \in Client, NEW ds \in SUBSET Device,
           Receiving(c), LeaveDevices(c, ds),
           subscriptions' = [subscriptions EXCEPT ![c] = @ \ ds],
           \A e \in Client : phase'[e] = "open" \/ phase'[e] = phase[e] \/ subscriptions'[e] = {},
           \A e \in Client \ {c} : phase'[e] = phase[e],
           UNCHANGED <<callbacks, asking, opening, toSubscribe>>
    PROVE  IInv'
<1> USE DEF TypeOK
<1> DEFINE last == {d \in ds : deviceClients[d] # {} /\ deviceClients[d] \subseteq {c}}
           released == UNION {devicePvs[d] : d \in last}
<1>1. /\ \A d \in Device : deviceClients'[d] = IF d \in ds THEN deviceClients[d] \ {c}
                                               ELSE deviceClients[d]
      /\ \A d \in Device : devicePvs'[d] = IF d \in last THEN {} ELSE devicePvs[d]
      /\ \A p \in PV : pvCallback'[p] = IF p \in released THEN NoCallback ELSE pvCallback[p]
      /\ toUnsubscribe' = [toUnsubscribe EXCEPT ![c] = {pvCallback[p] : p \in released} \ {NoCallback}]
      /\ lost' = {cb \in lost : DeviceOf(cb) \notin last}
  BY DEF LeaveDevices
<1>2. phase[c] = "open" /\ asking[c] = {} /\ opening[c] = {} /\ toSubscribe[c] = {} /\ toUnsubscribe[c] = {}
  BY DEF Receiving, IInv, HandlerInv, OneThing
<1>3. last \subseteq Device /\ \A d \in Device : d \in last <=> deviceClients'[d] = {} /\ deviceClients[d] # {}
  BY <1>1
<1>4. \A d \in last : devicePvs[d] = Pvs[d]
  BY <1>3 DEF IInv, RoutesAgree
<1>5. \A p : p \in released <=> \E d \in last : p \in Pvs[d]
  <2>1. \A p : p \in released <=> \E d \in last : p \in devicePvs[d]
    <3> HIDE DEF last
    <3> QED
      OBVIOUS
  <2> HIDE DEF last, released
  <2> QED
    BY <1>4, <2>1
<1>6. \A p \in PV, d \in Device : p \in Pvs[d] /\ d \notin last => p \notin released
  BY <1>3, <1>5, DisjointFacts
<1> HIDE DEF last, released
<1>7. \A p \in PV : pvCallback[p] # NoCallback =>
        /\ pvCallback[p] \in Callback /\ PvOf(pvCallback[p]) = p /\ p \in Pvs[DeviceOf(pvCallback[p])]
        /\ DeviceOf(pvCallback[p]) \in Device
        /\ p \in released <=> DeviceOf(pvCallback[p]) \in last
  <2> SUFFICES ASSUME NEW p \in PV, pvCallback[p] # NoCallback PROVE
            /\ pvCallback[p] \in Callback /\ PvOf(pvCallback[p]) = p
            /\ p \in Pvs[DeviceOf(pvCallback[p])] /\ DeviceOf(pvCallback[p]) \in Device
            /\ p \in released <=> DeviceOf(pvCallback[p]) \in last
    OBVIOUS
  <2>1. pvCallback[p] \in Callback /\ PvOf(pvCallback[p]) = p
    BY DEF IInv, RoutesAgree
  <2>2. p \in Pvs[DeviceOf(pvCallback[p])] /\ DeviceOf(pvCallback[p]) \in Device
    BY <2>1, CallbackFacts
  <2> QED
    BY <1>5, <1>6, <2>1, <2>2
<1>8. \A e \in Client : \A cb \in toSubscribe[e] :
        e # c /\ cb \in Callback /\ DeviceOf(cb) \notin last /\ PvOf(cb) \notin released
  <2> SUFFICES ASSUME NEW e \in Client, NEW cb \in toSubscribe[e]
               PROVE  e # c /\ cb \in Callback /\ DeviceOf(cb) \notin last /\ PvOf(cb) \notin released
    OBVIOUS
  <2>1. e # c /\ cb \in Callback
    BY <1>2
  <2>2. DeviceOf(cb) \in subscriptions[e]
    BY DEF IInv, HandlerInv, OneThing
  <2>3. DeviceOf(cb) \in Device /\ PvOf(cb) \in PV /\ PvOf(cb) \in Pvs[DeviceOf(cb)]
    BY <2>1, CallbackFacts
  <2>4. e \in deviceClients[DeviceOf(cb)]
    BY <2>2, <2>3 DEF IInv, RoutesAgree
  <2>5. DeviceOf(cb) \notin last
    BY <1>1, <1>3, <2>1, <2>3, <2>4
  <2> QED
    BY <1>6, <2>1, <2>3, <2>5
<1>9. HandlerInv'
  <2> SUFFICES ASSUME NEW e \in Client PROVE OneThing(e)'
    BY DEF HandlerInv
  <2>1. OneThing(e)
    BY DEF IInv, HandlerInv
  <2>2. CASE e = c
    BY <1>2, <2>2 DEF OneThing
  <2>3. CASE e # c
    BY <1>1, <2>1, <2>3 DEF OneThing
  <2> QED
    BY <2>2, <2>3
<1>10. RoutesAgree'
  <2>1. \A e \in Client, d \in Device : d \in subscriptions'[e] <=> e \in deviceClients'[d]
    BY <1>1 DEF IInv, RoutesAgree
  <2>2. \A e \in Client : subscriptions'[e] # {} => phase'[e] = "open"
    <3> SUFFICES ASSUME NEW e \in Client, subscriptions'[e] # {} PROVE phase'[e] = "open"
      OBVIOUS
    <3>1. subscriptions[e] # {}
      OBVIOUS
    <3> QED
      BY <1>2, <3>1 DEF IInv, RoutesAgree
  <2>3. \A d \in Device : devicePvs'[d] = IF deviceClients'[d] = {} THEN {} ELSE Pvs[d]
    <3> SUFFICES ASSUME NEW d \in Device
                 PROVE  devicePvs'[d] = IF deviceClients'[d] = {} THEN {} ELSE Pvs[d]
      OBVIOUS
    <3>1. devicePvs[d] = IF deviceClients[d] = {} THEN {} ELSE Pvs[d]
      BY DEF IInv, RoutesAgree
    <3>2. CASE d \in last
      BY <1>1, <1>3, <3>2
    <3>3. CASE d \notin last
      <4>1. deviceClients'[d] = {} <=> deviceClients[d] = {}
        BY <1>1, <1>3, <3>3
      <4> QED
        BY <1>1, <3>1, <3>3, <4>1
    <3> QED
      BY <3>2, <3>3
  <2>4. ASSUME NEW p \in PV, pvCallback'[p] = NoCallback, NEW d \in Device
        PROVE  p \notin devicePvs'[d]
    <3>1. CASE p \in released
      <4> SUFFICES ASSUME p \in devicePvs'[d] PROVE FALSE
        OBVIOUS
      <4>1. p \in Pvs[d] /\ deviceClients'[d] # {}
        BY <2>3
      <4>2. d \notin last
        BY <1>3, <4>1
      <4> QED
        BY <1>6, <3>1, <4>1, <4>2
    <3>2. CASE p \notin released
      <4>1. pvCallback[p] = NoCallback
        BY <1>1, <2>4, <3>2
      <4>2. p \notin devicePvs[d]
        BY <4>1 DEF IInv, RoutesAgree
      <4> QED
        BY <1>1, <4>2
    <3> QED
      BY <3>1, <3>2
  <2>5. ASSUME NEW p \in PV, pvCallback'[p] # NoCallback
        PROVE  PvOf(pvCallback'[p]) = p /\ deviceClients'[DeviceOf(pvCallback'[p])] # {}
    <3>1. pvCallback'[p] = pvCallback[p] /\ p \notin released
      BY <1>1, <2>5
    <3>2. PvOf(pvCallback[p]) = p /\ DeviceOf(pvCallback[p]) \in Device
          /\ DeviceOf(pvCallback[p]) \notin last
      BY <1>7, <2>5, <3>1
    <3>3. deviceClients[DeviceOf(pvCallback[p])] # {}
      BY <2>5, <3>1 DEF IInv, RoutesAgree
    <3> QED
      BY <1>3, <3>1, <3>2, <3>3
  <2> QED
    BY <2>1, <2>2, <2>3, <2>4, <2>5 DEF RoutesAgree
<1>11. CallbackInv'
  <2>1. \A p \in PV : \A cb \in callbacks'[p] : PvOf(cb) = p
    BY DEF IInv, CallbackInv
  <2>2. \A e \in Client : \A cb \in toSubscribe'[e] : pvCallback'[PvOf(cb)] = cb
    BY <1>1, <1>8, CallbackFacts DEF IInv, CallbackInv
  <2>3. ASSUME NEW e \in Client, NEW cb \in toUnsubscribe'[e]
        PROVE  pvCallback'[PvOf(cb)] # cb
    <3>1. cb \in Callback /\ PvOf(cb) \in PV /\ cb # NoCallback
      BY CallbackFacts
    <3>2. CASE e = c
      <4>1. PICK p \in released : cb = pvCallback[p]
        BY <1>1, <2>3, <3>2
      <4>2. p \in PV
        BY <1>3, <1>5, PvsAssumption
      <4>3. PvOf(cb) = p
        BY <1>7, <3>1, <4>1, <4>2
      <4> QED
        BY <1>1, <3>1, <4>1, <4>2, <4>3
    <3>3. CASE e # c
      <4>1. cb \in toUnsubscribe[e]
        BY <1>1, <2>3, <3>3
      <4> QED
        BY <1>1, <3>1, <4>1 DEF IInv, CallbackInv
    <3> QED
      BY <3>2, <3>3
  <2> QED
    BY <2>1, <2>2, <2>3 DEF CallbackInv
<1>12. MonitorMatchesRoutes'
  <2>1. ASSUME NEW p \in PV, NEW cb \in callbacks'[p]
        PROVE  cb = pvCallback'[p] \/ \E e \in Client : cb \in toUnsubscribe'[e]
    <3>1. cb \in callbacks[p] /\ cb \in Callback /\ cb # NoCallback
      BY <2>1, NoCallbackAssumption DEF M!TypeInvariant
    <3>2. CASE \E e \in Client : cb \in toUnsubscribe[e]
      BY <1>1, <1>2, <3>2
    <3>3. CASE cb = pvCallback[p]
      <4>1. CASE p \in released
        BY <1>1, <3>1, <3>3, <4>1
      <4>2. CASE p \notin released
        BY <1>1, <3>3, <4>2
      <4> QED
        BY <4>1, <4>2
    <3> QED
      BY <3>1, <3>2, <3>3 DEF IInv, MonitorMatchesRoutes
  <2>2. ASSUME NEW p \in PV, pvCallback'[p] # NoCallback
        PROVE  \/ pvCallback'[p] \in callbacks'[p] \cup lost'
               \/ \E e \in Client : pvCallback'[p] \in toSubscribe'[e]
    <3>1. pvCallback'[p] = pvCallback[p] /\ p \notin released
      BY <1>1, <2>2
    <3>2. DeviceOf(pvCallback[p]) \notin last
      BY <1>7, <2>2, <3>1
    <3>3. \/ pvCallback[p] \in callbacks[p] \cup lost
          \/ \E e \in Client : pvCallback[p] \in toSubscribe[e]
      BY <2>2, <3>1 DEF IInv, MonitorMatchesRoutes
    <3> QED
      BY <1>1, <3>1, <3>2, <3>3
  <2> QED
    BY <2>1, <2>2 DEF MonitorMatchesRoutes
<1> QED
  BY <1>9, <1>10, <1>11, <1>12 DEF IInv

\* A call of subscribe came back, or raised: the routed callback is registered,
\* or lost.
LEMMA Subscribing ==
    ASSUME TypeOK, TypeOK', IInv, NEW c \in Client, NEW cb \in Callback,
           SubscribeReturns(c, cb) \/ SubscribeRaises(c, cb)
    PROVE  IInv'
<1> USE DEF TypeOK
<1>1. /\ cb \in toSubscribe[c]
      /\ toSubscribe' = [toSubscribe EXCEPT ![c] = @ \ {cb}]
      /\ UNCHANGED <<phase, subscriptions, deviceClients, devicePvs, pvCallback, asking, opening,
                     toUnsubscribe>>
  BY DEF SubscribeReturns, SubscribeRaises, routes
<1>2. \/ lost' = lost /\ callbacks' = [callbacks EXCEPT ![PvOf(cb)] = @ \cup {cb}]
      \/ lost' = lost \cup {cb} /\ callbacks' = callbacks
  BY NoCallbackAssumption
     DEF SubscribeReturns, SubscribeRaises, M!Join, M!Track, M!Given, M!TrackAndRaise, monitor, delivery
<1>3. pvCallback[PvOf(cb)] = cb /\ PvOf(cb) \in PV
  BY <1>1, CallbackFacts DEF IInv, CallbackInv
<1>4. /\ \A p \in PV : callbacks[p] \subseteq callbacks'[p] /\ callbacks'[p] \subseteq callbacks[p] \cup {cb}
      /\ \A p \in PV : p # PvOf(cb) => callbacks'[p] = callbacks[p]
      /\ lost \subseteq lost'
      /\ cb \in callbacks'[PvOf(cb)] \cup lost'
  <2>1. callbacks \in [PV -> SUBSET Callback]
    BY DEF M!TypeInvariant
  <2>2. CASE lost' = lost \cup {cb} /\ callbacks' = callbacks
    BY <2>2
  <2>3. CASE lost' = lost /\ callbacks' = [callbacks EXCEPT ![PvOf(cb)] = @ \cup {cb}]
    BY <1>3, <2>1, <2>3
  <2> QED
    BY <1>2, <2>2, <2>3
<1>5. HandlerInv' /\ RoutesAgree'
  <2>1. \A e \in Client : toSubscribe'[e] \subseteq toSubscribe[e]
    BY <1>1
  <2>2. HandlerInv'
    BY <1>1, <2>1 DEF IInv, HandlerInv, OneThing
  <2>3. RoutesAgree'
    BY <1>1 DEF IInv, RoutesAgree
  <2> QED
    BY <2>2, <2>3
<1>6. CallbackInv'
  <2>1. \A p \in PV : \A b \in callbacks'[p] : PvOf(b) = p
    <3> SUFFICES ASSUME NEW p \in PV, NEW b \in callbacks'[p] PROVE PvOf(b) = p
      OBVIOUS
    <3>1. b \in callbacks[p] \/ (b = cb /\ p = PvOf(cb))
      BY <1>4
    <3> QED
      BY <3>1 DEF IInv, CallbackInv
  <2> QED
    BY <1>1, <2>1 DEF IInv, CallbackInv
<1>7. MonitorMatchesRoutes'
  <2> SUFFICES ASSUME NEW p \in PV PROVE
          /\ \A b \in callbacks'[p] :
              b = pvCallback'[p] \/ \E e \in Client : b \in toUnsubscribe'[e]
          /\ pvCallback'[p] # NoCallback =>
              \/ pvCallback'[p] \in callbacks'[p] \cup lost'
              \/ \E e \in Client : pvCallback'[p] \in toSubscribe'[e]
    BY DEF MonitorMatchesRoutes
  <2>1. \A b \in callbacks'[p] : b \in callbacks[p] \/ b = pvCallback[p]
    <3> SUFFICES ASSUME NEW b \in callbacks'[p] PROVE b \in callbacks[p] \/ b = pvCallback[p]
      OBVIOUS
    <3>1. CASE p = PvOf(cb)
      BY <1>3, <1>4, <3>1
    <3>2. CASE p # PvOf(cb)
      BY <1>4, <3>2
    <3> QED
      BY <3>1, <3>2
  <2>2. ASSUME pvCallback[p] # NoCallback, pvCallback[p] # cb
        PROVE  \/ pvCallback[p] \in callbacks'[p] \cup lost'
               \/ \E e \in Client : pvCallback[p] \in toSubscribe'[e]
    <3>1. \A e \in Client : pvCallback[p] \in toSubscribe[e] => pvCallback[p] \in toSubscribe'[e]
      BY <1>1, <2>2
    <3>2. callbacks[p] \cup lost \subseteq callbacks'[p] \cup lost'
      BY <1>4
    <3> QED
      BY <2>2, <3>1, <3>2 DEF IInv, MonitorMatchesRoutes
  <2>3. ASSUME pvCallback[p] = cb PROVE cb \in callbacks'[p] \cup lost'
    <3>1. PvOf(cb) = p
      BY <2>3, CallbackFacts DEF IInv, RoutesAgree
    <3> QED
      BY <1>4, <3>1
  <2> QED
    BY <1>1, <2>1, <2>2, <2>3 DEF IInv, MonitorMatchesRoutes
<1> QED
  BY <1>5, <1>6, <1>7 DEF IInv

\* A call of unsubscribe came back: what the monitor drops is not routed.
LEMMA Unsubscribing ==
    ASSUME TypeOK, TypeOK', IInv, NEW c \in Client, NEW cb \in Callback,
           UnsubscribeReturns(c, cb)
    PROVE  IInv'
<1> USE DEF TypeOK
<1>1. /\ cb \in toUnsubscribe[c]
      /\ toUnsubscribe' = [toUnsubscribe EXCEPT ![c] = @ \ {cb}]
      /\ UNCHANGED <<phase, subscriptions, deviceClients, devicePvs, pvCallback, asking, opening,
                     toSubscribe, lost>>
  BY DEF UnsubscribeReturns, routes, delivery
<1>2. PvOf(cb) \in PV /\ pvCallback[PvOf(cb)] # cb
  BY <1>1, CallbackFacts DEF IInv, CallbackInv
<1>3. callbacks' = [callbacks EXCEPT ![PvOf(cb)] = @ \ {cb}]
  BY <1>2, NoCallbackAssumption DEF UnsubscribeReturns, M!Release, M!TypeInvariant
<1>4. HandlerInv' /\ RoutesAgree' /\ CallbackInv'
  <2>1. \A p \in PV : \A b \in callbacks'[p] : b \in callbacks[p]
    BY <1>3 DEF M!TypeInvariant
  <2>2. \A e \in Client : toUnsubscribe'[e] \subseteq toUnsubscribe[e]
    BY <1>1
  <2>3. HandlerInv'
    BY <1>1, <2>2 DEF IInv, HandlerInv, OneThing
  <2>4. RoutesAgree'
    BY <1>1 DEF IInv, RoutesAgree
  <2>5. CallbackInv'
    BY <1>1, <2>1, <2>2 DEF IInv, CallbackInv
  <2> QED
    BY <2>3, <2>4, <2>5
<1>5. MonitorMatchesRoutes'
  <2>1. ASSUME NEW p \in PV, NEW b \in callbacks'[p]
        PROVE  b = pvCallback'[p] \/ \E e \in Client : b \in toUnsubscribe'[e]
    <3>1. b \in callbacks[p] /\ b # cb
      <4>1. b \in callbacks[p] /\ (p = PvOf(cb) => b # cb)
        BY <1>3, <2>1 DEF M!TypeInvariant
      <4>2. PvOf(b) = p
        BY <4>1 DEF IInv, CallbackInv
      <4> QED
        BY <4>1, <4>2
    <3> QED
      BY <1>1, <3>1 DEF IInv, MonitorMatchesRoutes
  <2>2. ASSUME NEW p \in PV, pvCallback[p] # NoCallback
        PROVE  \/ pvCallback[p] \in callbacks'[p] \cup lost
               \/ \E e \in Client : pvCallback[p] \in toSubscribe[e]
    <3>1. pvCallback[p] \in callbacks[p] => pvCallback[p] \in callbacks'[p]
      BY <1>2, <1>3 DEF M!TypeInvariant
    <3> QED
      BY <2>2, <3>1 DEF IInv, MonitorMatchesRoutes
  <2> QED
    BY <1>1, <2>1, <2>2 DEF MonitorMatchesRoutes
<1> QED
  BY <1>4, <1>5 DEF IInv

\* The handler's other steps with a device.
LEMMA Answering ==
    ASSUME TypeOK, TypeOK', IInv, NEW c \in Client,
           \/ Connect(c)
           \/ \E d \in Device, requires \in BOOLEAN : RequestDevice(c, d, requires)
           \/ DeviceNotFound(c)
           \/ AnswerNotConnected(c)
           \/ OpenDevice(c)
    PROVE  IInv'
<1> USE DEF TypeOK
<1>1. /\ UNCHANGED <<callbacks, subscriptions, deviceClients, devicePvs, pvCallback, toSubscribe,
                     toUnsubscribe, lost>>
      /\ \A e \in Client : subscriptions[e] # {} /\ phase[e] = "open" => phase'[e] = "open"
  BY DEF Connect, RequestDevice, DeviceNotFound, AnswerNotConnected, OpenDevice, monitor, routes,
         handler, delivery
<1>2. HandlerInv'
  <2> SUFFICES ASSUME NEW e \in Client PROVE OneThing(e)'
    BY DEF HandlerInv
  <2>1. OneThing(e)
    BY DEF IInv, HandlerInv
  <2>2. CASE Connect(c)
    BY <1>1, <2>1, <2>2 DEF OneThing, Connect, handler
  <2>3. ASSUME NEW d \in Device, NEW requires \in BOOLEAN, RequestDevice(c, d, requires)
        PROVE  OneThing(e)'
    BY <1>1, <2>1, <2>3 DEF OneThing, RequestDevice, Receiving
  <2>4. CASE DeviceNotFound(c)
    BY <1>1, <2>1, <2>4 DEF OneThing, DeviceNotFound
  <2>5. CASE AnswerNotConnected(c)
    BY <1>1, <2>1, <2>5 DEF OneThing, AnswerNotConnected
  <2>6. CASE OpenDevice(c)
    BY <1>1, <2>1, <2>6 DEF OneThing, OpenDevice
  <2> QED
    BY <2>2, <2>3, <2>4, <2>5, <2>6
<1>3. RoutesAgree' /\ CallbackInv' /\ MonitorMatchesRoutes'
  BY <1>1 DEF IInv, RoutesAgree, CallbackInv, MonitorMatchesRoutes
<1> QED
  BY <1>2, <1>3 DEF IInv

\* Initially, and after every step.
LEMMA RoutingStarts == Init => IInv
  BY PvsAssumption
     DEF Init, M!Init, IInv, HandlerInv, OneThing, RoutesAgree, CallbackInv, MonitorMatchesRoutes

LEMMA RoutingSteps ==
    ASSUME Disjoint, TypeOK, TypeOK', IInv, [Next]_vars
    PROVE  IInv'
<1>1. ASSUME NEW c \in Client, NEW d \in Device, Unsubscribe(c, d) PROVE IInv'
  <2>1. /\ Receiving(c) /\ LeaveDevices(c, {d})
        /\ subscriptions' = [subscriptions EXCEPT ![c] = @ \ {d}]
        /\ UNCHANGED <<callbacks, asking, opening, toSubscribe, phase>>
    BY <1>1 DEF Unsubscribe, monitor
  <2> QED
    BY <2>1, Leaving
<1>2. ASSUME NEW c \in Client, Disconnect(c) PROVE IInv'
  <2>1. /\ Receiving(c) /\ LeaveDevices(c, subscriptions[c])
        /\ subscriptions' = [subscriptions EXCEPT ![c] = {}]
        /\ phase' = [phase EXCEPT ![c] = "left"]
        /\ UNCHANGED <<callbacks, asking, opening, toSubscribe>>
    BY <1>2 DEF Disconnect, monitor
  <2>2. subscriptions[c] \in SUBSET Device
    BY DEF TypeOK
  <2>3. subscriptions' = [subscriptions EXCEPT ![c] = @ \ subscriptions[c]]
    BY <2>1 DEF TypeOK
  <2>4. /\ \A e \in Client : phase'[e] = "open" \/ phase'[e] = phase[e] \/ subscriptions'[e] = {}
        /\ \A e \in Client \ {c} : phase'[e] = phase[e]
    BY <2>1 DEF TypeOK
  <2> QED
    BY <2>1, <2>2, <2>3, <2>4, Leaving
<1>3. ASSUME NEW p \in PV, HttpSubscribes(p) PROVE IInv'
  <2>1. callbacks' = callbacks
    BY <1>3 DEF HttpSubscribes, M!Track, M!Given, TypeOK, M!TypeInvariant
  <2> QED
    BY <1>3, <2>1, RoutingFrame DEF HttpSubscribes, Sockets, routing, handler, delivery
<1>4. ASSUME NEW c \in Client, HandlerStep(c) PROVE IInv'
  <2>1. ASSUME NEW s \in Signal, FetchValue(c, s) \/ SendFetched(c, s) PROVE IInv'
    BY <2>1, RoutingFrame DEF FetchValue, SendFetched, routing, routes, delivery, monitor
  <2> QED
    BY <1>4, <2>1, Entering, Subscribing, Unsubscribing, Answering DEF HandlerStep
<1>5. ASSUME NEW c \in Client, ClientRequest(c) PROVE IInv'
  <2>1. CASE Refresh(c)
    BY <2>1, RoutingFrame DEF Refresh, routing, routes, delivery, monitor
  <2> QED
    BY <1>1, <1>2, <1>5, <2>1, Answering DEF ClientRequest
<1>6. CASE Delivery
  BY <1>6, RoutingFrame
     DEF Delivery, CallCallback, StartBroadcast, SendBroadcast, M!Call, routing, handler, monitor
<1>7. CASE World
  <2>1. CASE CloseAll
    BY <2>1, RoutingFrame DEF CloseAll, routing, handler, delivery, monitor
  <2>2. ASSUME NEW p \in PV, GetValueReads(p) \/ IocChanges(p) \/ MonitorUpdates(p) PROVE IInv'
    BY <2>2, RoutingFrame
       DEF GetValueReads, IocChanges, MonitorUpdates, M!ReadValue, M!Owe, M!Update, Sockets, routing,
           handler, delivery, monitor
  <2> QED
    BY <1>3, <1>7, <2>1, <2>2 DEF World
<1>8. CASE UNCHANGED vars
  BY <1>8, RoutingFrame DEF vars, monitor, handler, delivery, routing
<1> QED
  BY <1>4, <1>5, <1>6, <1>7, <1>8 DEF Next

\* When no two devices share a PV: the routing tables agree, the monitor has
\* exactly the callbacks that are routed or under way, and a subscribed device
\* has all its PVs subscribed, as the documentation says of every device.
LEMMA Invariance == ASSUME Disjoint PROVE Spec => []IInv
<1>1. TypeOK /\ IInv /\ TypeOK' /\ [Next]_vars => IInv'
  BY RoutingSteps
<1> QED
  BY <1>1, RoutingStarts, TypeCorrect, PTL DEF Spec

\* Where devices have PVs of their own, the four routing tables agree.
THEOREM RoutesCorrect == ASSUME Disjoint PROVE Spec => []RoutesAgree
<1>1. IInv => RoutesAgree
  BY DEF IInv
<1> QED
  BY <1>1, Invariance, PTL

\* Where devices have PVs of their own, no callback is left in the monitor and
\* none is missing that was not lost to an exception.
THEOREM MonitorCorrect == ASSUME Disjoint PROVE Spec => []MonitorMatchesRoutes
<1>1. IInv => MonitorMatchesRoutes
  BY DEF IInv
<1> QED
  BY <1>1, Invariance, PTL

\* README.md:332 of the repository holds where devices have PVs of their own; a
\* run shows it fail where two share one.
THEOREM DisjointDevicesSubscribed == ASSUME Disjoint PROVE Spec => []AllPvsSubscribed
<1>1. TypeOK /\ IInv => AllPvsSubscribed
  <2> SUFFICES ASSUME TypeOK, IInv, NEW c \in connections, NEW s \in Signal,
                      s[1] \in subscriptions[c]
               PROVE  \/ \E cb \in callbacks[s[2]] \cup lost : SignalOf(cb) = s
                      \/ \E e \in Client, cb \in Callback : SignalOf(cb) = s /\ cb \in toSubscribe[e]
    BY DEF AllPvsSubscribed
  <2> USE DEF TypeOK
  <2> DEFINE cb == pvCallback[s[2]]
  <2>1. s[1] \in Device /\ s[2] \in PV /\ s[2] \in Pvs[s[1]] /\ s = <<s[1], s[2]>>
    BY DEF Signal
  <2>2. c \in Client /\ deviceClients[s[1]] # {}
    BY <2>1 DEF IInv, RoutesAgree
  <2>3. s[2] \in devicePvs[s[1]]
    BY <2>1, <2>2 DEF IInv, RoutesAgree
  <2>4. cb # NoCallback /\ cb \in Callback /\ PvOf(cb) = s[2]
    BY <2>1, <2>3 DEF IInv, RoutesAgree
  <2>5. DeviceOf(cb) = s[1]
    <3>1. DeviceOf(cb) \in Device /\ s[2] \in Pvs[DeviceOf(cb)]
      BY <2>4, CallbackFacts
    <3> HIDE DEF cb
    <3> QED
      BY <2>1, <3>1, DisjointFacts
  <2>6. SignalOf(cb) = s
    BY <2>1, <2>4, <2>5, CallbackFacts
  <2>7. cb \in callbacks[s[2]] \cup lost \/ \E e \in Client : cb \in toSubscribe[e]
    BY <2>1, <2>4 DEF IInv, MonitorMatchesRoutes
  <2> HIDE DEF cb
  <2> QED
    BY <2>4, <2>6, <2>7
<1> QED
  BY <1>1, Invariance, TypeCorrect, PTL

-----------------------------------------------------------------------------
(* No gap between the initial values and the updates                       *)

\* The monitor has the value of a PV, or will be told it.
OneOwed == \A p \in tracked : latest[p] = NoValue => p \in owed

\* The clients that NoGap promises a signal's values to.
Promised(c, s) ==
    c \in deviceClients[s[1]] /\ <<c, s>> \notin missed /\ pvCallback[s[2]] \notin lost

BeingOpened(c, s) == \E r \in opening[c] : r[1] = s[1]

\* As long as the routed callback is not in the monitor, the client that brings
\* it there is about to fetch its values.
FirstFetches ==
    \A c \in Client, s \in Signal :
        Promised(c, s) /\ pvCallback[s[2]] \notin callbacks[s[2]] =>
            pvCallback[s[2]] \in toSubscribe[c] /\ BeingOpened(c, s)

\* Where the monitor's value, or a newer one, is on its way to c.
OnItsWay(c, s) ==
    \/ s[2] \in owed
    \/ valueCalls[pvCallback[s[2]]] >= latest[s[2]]
    \/ \E v \in Value : v >= latest[s[2]] /\ (<<s, v>> \in broadcasts \/ <<c, s, v>> \in outbox)
    \/ BeingOpened(c, s)
    \/ s \in toFetch[c]
    \/ fetched[c][s] >= latest[s[2]]
    \/ seen[c][s] >= latest[s[2]]

Coming == \A c \in connections, s \in Signal : Promised(c, s) => OnItsWay(c, s)

OneAtATime ==
    \A c \in Client : /\ asking[c] # {} \/ opening[c] # {} => toFetch[c] = {}
                      /\ \A q, r \in opening[c] : q = r

Carried == OneOwed /\ FirstFetches /\ Coming /\ OneAtATime

\* The types the provers need of these.
LEMMA CarryingTypes ==
    ASSUME TypeOK
    PROVE  /\ deviceClients \in [Device -> SUBSET Client] /\ connections \subseteq Client
           /\ pvCallback \in [PV -> Callback \cup {NoCallback}]
           /\ tracked \subseteq PV /\ owed \subseteq PV
           /\ callbacks \in [PV -> SUBSET Callback]
           /\ latest \in [PV -> Value \cup {NoValue}]
           /\ valueCalls \in [Callback -> Value \cup {NoValue}]
           /\ asking \in [Client -> SUBSET (Device \X BOOLEAN)]
           /\ opening \in [Client -> SUBSET (Device \X BOOLEAN)]
           /\ toSubscribe \in [Client -> SUBSET Callback]
           /\ toFetch \in [Client -> SUBSET Signal]
           /\ fetched \in [Client -> [Signal -> Value \cup {NoValue}]]
           /\ seen \in [Client -> [Signal -> Value \cup {NoValue}]]
           /\ current \in [PV -> Value] /\ NoValue = 0 /\ Value \subseteq Nat
  BY DEF TypeOK, M!TypeInvariant, NoValue, Value

\* A PV of a device with clients has a callback, of that device.
LEMMA RoutedFacts ==
    ASSUME Disjoint, TypeOK, IInv, NEW s \in Signal, deviceClients[s[1]] # {}
    PROVE  /\ pvCallback[s[2]] \in Callback /\ SignalOf(pvCallback[s[2]]) = s
           /\ PvOf(pvCallback[s[2]]) = s[2] /\ DeviceOf(pvCallback[s[2]]) = s[1]
<1> DEFINE cb == pvCallback[s[2]]
<1>1. s[1] \in Device /\ s[2] \in PV /\ s[2] \in Pvs[s[1]] /\ s = <<s[1], s[2]>>
  BY DEF Signal
<1>2. s[2] \in devicePvs[s[1]]
  BY <1>1 DEF IInv, RoutesAgree
<1>3. cb \in Callback /\ PvOf(cb) = s[2]
  BY <1>1, <1>2 DEF IInv, RoutesAgree, TypeOK
<1>4. DeviceOf(cb) \in Device /\ s[2] \in Pvs[DeviceOf(cb)]
  BY <1>3, CallbackFacts
<1>5. SignalOf(cb) = <<DeviceOf(cb), PvOf(cb)>>
  BY <1>3, CallbackFacts
<1> HIDE DEF cb
<1>6. DeviceOf(cb) = s[1]
  BY <1>1, <1>4, DisjointFacts
<1> QED BY <1>1, <1>3, <1>5, <1>6 DEF cb

\* Every operation but an update leaves a PV its value, or loses it, or is
\* followed by an update.
LEMMA MonitorCalls ==
    ASSUME TypeOK, OneOwed, NEW p \in PV, NEW cb \in Callback \cup {NoCallback},
           NEW v \in Value \cup {NoValue},
           \/ UNCHANGED monitor
           \/ cb \in Callback /\ M!Join(p, cb)
           \/ M!Track(p, cb, v)
           \/ M!TrackAndRaise(p, v) /\ p \in owed'
           \/ v \in Value /\ M!ReadValue(p, v)
           \/ M!Owe(p)
           \/ M!Release(p, cb)
    PROVE  /\ OneOwed' /\ valueCalls' = valueCalls
           /\ \A q \in PV : \/ latest'[q] = latest[q]
                            \/ latest'[q] = NoValue
                            \/ q \in owed'
           /\ \A q \in owed : q \in owed' \/ latest'[q] = NoValue
<1> USE CarryingTypes
<1>1. CASE UNCHANGED monitor
  BY <1>1 DEF monitor, OneOwed
<1>2. CASE cb \in Callback /\ M!Join(p, cb)
  BY <1>2 DEF M!Join, OneOwed
<1>3. CASE M!Track(p, cb, v) \/ (M!TrackAndRaise(p, v) /\ p \in owed')
  <2>1. /\ tracked' = tracked \cup {p} /\ owed' = owed \cup {p} /\ valueCalls' = valueCalls
        /\ latest' = [latest EXCEPT ![p] = v]
    BY <1>3 DEF M!Track, M!TrackAndRaise
  <2> QED BY <2>1 DEF OneOwed
<1>4. CASE v \in Value /\ M!ReadValue(p, v)
  <2>1. /\ UNCHANGED <<tracked, owed, valueCalls>> /\ p \in tracked /\ latest[p] = NoValue
        /\ latest' = [latest EXCEPT ![p] = v]
    BY <1>4 DEF M!ReadValue
  <2> QED BY <2>1 DEF OneOwed
<1>5. CASE M!Owe(p)
  BY <1>5 DEF M!Owe, OneOwed
<1>6. CASE M!Release(p, cb)
  <2>1. /\ valueCalls' = valueCalls
        /\ \/ UNCHANGED <<tracked, latest, owed>>
           \/ /\ tracked' = tracked \ {p} /\ owed' = owed \ {p}
              /\ latest' = [latest EXCEPT ![p] = NoValue]
    BY <1>6 DEF M!Release
  <2> QED BY <2>1 DEF OneOwed
<1> QED BY <1>1, <1>2, <1>3, <1>4, <1>5, <1>6

LEMMA ComingFrame ==
    ASSUME TypeOK, Coming,
           \A q \in PV : latest'[q] = latest[q] \/ latest'[q] = NoValue \/ q \in owed',
           \A q \in owed : q \in owed' \/ latest'[q] = NoValue,
           lost \subseteq lost',
           UNCHANGED <<connections, deviceClients, valueCalls, pvCallback, opening, toFetch, fetched,
                       broadcasts, outbox, seen, missed>>
    PROVE  Coming'
<1> USE CarryingTypes
<1>1. SUFFICES ASSUME NEW c \in connections, NEW s \in Signal, Promised(c, s)'
               PROVE  OnItsWay(c, s)'
  BY DEF Coming
<1>2. OnItsWay(c, s) /\ c \in Client /\ s[2] \in PV
  BY <1>1, SignalFacts DEF Coming, Promised
<1>3. CASE latest'[s[2]] = NoValue
  <2>1. seen'[c][s] >= latest'[s[2]]
    BY <1>2, <1>3
  <2> QED BY <2>1 DEF OnItsWay
<1>4. CASE s[2] \in owed'
  BY <1>4 DEF OnItsWay
<1>5. CASE latest'[s[2]] = latest[s[2]] /\ latest'[s[2]] # NoValue
  BY <1>2, <1>5 DEF OnItsWay, BeingOpened
<1> QED BY <1>2, <1>3, <1>4, <1>5

LEMMA FirstFrame ==
    ASSUME TypeOK, FirstFetches, \A q \in PV : callbacks[q] \subseteq callbacks'[q],
           UNCHANGED <<deviceClients, pvCallback, lost, missed, opening, toSubscribe>>
    PROVE  FirstFetches'
BY SignalFacts DEF FirstFetches, Promised, BeingOpened

\* Steps of the monitor and of its IOCs that concern no callback.
LEMMA CarriedFrame ==
    ASSUME TypeOK, Carried, NEW p \in PV, NEW v \in Value \cup {NoValue},
           \/ UNCHANGED monitor
           \/ M!Track(p, NoCallback, v)
           \/ v \in Value /\ M!ReadValue(p, v)
           \/ M!Owe(p),
           UNCHANGED <<connections, routes, handler, delivery>>
    PROVE  Carried'
<1> USE CarryingTypes
<1>1. \A q \in PV : callbacks[q] \subseteq callbacks'[q]
  BY DEF monitor, M!Track, M!ReadValue, M!Owe
<1>2. OneOwed' /\ Coming'
  <2>1. NoCallback \in Callback \cup {NoCallback}
    OBVIOUS
  <2> QED BY <2>1, MonitorCalls, ComingFrame DEF Carried, routes, handler, delivery
<1>3. FirstFetches'
  BY <1>1, FirstFrame DEF Carried, routes, handler, delivery
<1> QED BY <1>2, <1>3 DEF Carried, OneAtATime, handler

\* Steps of the handlers that concern nothing of this.
LEMMA CarriedElsewhere ==
    ASSUME TypeOK, Carried,
           \A c \in connections' \ connections : \A s \in Signal : ~Promised(c, s),
           \A c \in Client : asking'[c] # {} => asking[c] # {} \/ toFetch[c] = {},
           UNCHANGED <<monitor, deviceClients, pvCallback, opening, toSubscribe, toFetch, fetched,
                       delivery>>
    PROVE  Carried'
<1> USE CarryingTypes
<1>1. OneOwed' /\ FirstFetches' /\ OneAtATime'
  BY DEF Carried, OneOwed, FirstFetches, Promised, BeingOpened, OneAtATime, monitor, delivery
<1>2. Coming'
  BY DEF Carried, Coming, Promised, OnItsWay, BeingOpened, monitor, delivery
<1> QED BY <1>1, <1>2 DEF Carried

\* A callback on its way arrives at the monitor, or is lost.
LEMMA CarriedSubscribe ==
    ASSUME Disjoint, TypeOK, IInv, Carried, NEW c \in Client, NEW cb \in Callback,
           SubscribeReturns(c, cb) \/ SubscribeRaises(c, cb)
    PROVE  Carried'
<1> USE CarryingTypes
<1> DEFINE p == PvOf(cb)
<1>0. p \in PV
  BY CallbackFacts
<1> HIDE DEF p
<1>1. /\ UNCHANGED <<connections, deviceClients, pvCallback, asking, opening, toFetch, fetched,
                     broadcasts, outbox, seen, missed>>
      /\ toSubscribe' = [toSubscribe EXCEPT ![c] = @ \ {cb}]
      /\ lost \subseteq lost'
  BY DEF SubscribeReturns, SubscribeRaises, routes, delivery
<1>2. OneOwed' /\ Coming'
  <2>1. \/ UNCHANGED monitor
        \/ M!Join(p, cb)
        \/ \E v \in {current[p], NoValue} :
             M!Track(p, cb, v) \/ (M!TrackAndRaise(p, v) /\ p \in owed')
    BY DEF SubscribeReturns, SubscribeRaises, p
  <2>2. PICK v \in Value \cup {NoValue} :
          \/ UNCHANGED monitor
          \/ M!Join(p, cb)
          \/ M!Track(p, cb, v) \/ (M!TrackAndRaise(p, v) /\ p \in owed')
    BY <1>0, <2>1
  <2> QED BY <1>0, <1>1, <2>2, MonitorCalls, ComingFrame DEF Carried
<1>3. /\ \A q \in PV : callbacks[q] \subseteq callbacks'[q]
      /\ cb \in callbacks'[p] \/ cb \in lost'
  <2>1. CASE SubscribeReturns(c, cb)
    <3>1. callbacks' = [callbacks EXCEPT ![p] = @ \cup {cb}]
      BY <1>0, <2>1, CallbackFacts DEF SubscribeReturns, M!Join, M!Track, M!Given, p
    <3> QED BY <1>0, <3>1
  <2>2. CASE SubscribeRaises(c, cb)
    BY <2>2 DEF SubscribeRaises, M!TrackAndRaise, monitor
  <2> QED BY <2>1, <2>2
<1>4. FirstFetches'
  <2> SUFFICES ASSUME NEW e \in Client, NEW s \in Signal, Promised(e, s)',
                      pvCallback[s[2]] \notin callbacks'[s[2]]
               PROVE  pvCallback[s[2]] \in toSubscribe'[e] /\ BeingOpened(e, s)
    BY <1>1 DEF FirstFetches, BeingOpened
  <2>1. pvCallback[s[2]] \in toSubscribe[e] /\ BeingOpened(e, s)
    BY <1>1, <1>3, SignalFacts DEF Carried, FirstFetches, Promised
  <2>2. PvOf(pvCallback[s[2]]) = s[2]
    BY <1>1, RoutedFacts DEF Promised
  <2>3. pvCallback[s[2]] # cb
    BY <1>1, <1>3, <2>2 DEF Promised, p
  <2> QED BY <1>1, <2>1, <2>3
<1> QED BY <1>1, <1>2, <1>4 DEF Carried, OneAtATime

\* What the monitor drops is not a routed callback.
LEMMA CarriedUnsubscribe ==
    ASSUME Disjoint, TypeOK, IInv, Carried, NEW c \in Client, NEW cb \in Callback,
           UnsubscribeReturns(c, cb)
    PROVE  Carried'
<1> USE CarryingTypes
<1> DEFINE p == PvOf(cb)
<1>0. p \in PV /\ cb # NoCallback /\ pvCallback[p] # cb
  BY CallbackFacts DEF UnsubscribeReturns, IInv, CallbackInv
<1> HIDE DEF p
<1>1. /\ M!Release(p, cb)
      /\ UNCHANGED <<connections, deviceClients, pvCallback, asking, opening, toSubscribe, toFetch,
                     fetched, broadcasts, outbox, seen, lost, missed>>
  BY DEF UnsubscribeReturns, routes, delivery, p
<1>2. OneOwed' /\ Coming'
  <2>1. NoValue \in Value \cup {NoValue}
    OBVIOUS
  <2> QED BY <1>0, <1>1, <2>1, MonitorCalls, ComingFrame DEF Carried
<1>3. callbacks' = [callbacks EXCEPT ![p] = @ \ {cb}]
  BY <1>0, <1>1 DEF M!Release
<1>4. \A q \in PV : pvCallback[q] \in callbacks[q] => pvCallback[q] \in callbacks'[q]
  BY <1>0, <1>3
<1>5. FirstFetches'
  BY <1>1, <1>4, SignalFacts DEF Carried, FirstFetches, Promised, BeingOpened
<1> QED BY <1>1, <1>2, <1>5 DEF Carried, OneAtATime

\* "not_connected": the client is promised nothing more.
LEMMA CarriedAnswer ==
    ASSUME TypeOK, Carried, NEW c \in Client, AnswerNotConnected(c) PROVE Carried'
<1> USE CarryingTypes
<1>1. /\ toSubscribe[c] = {}
      /\ opening' = [opening EXCEPT ![c] = {}]
      /\ missed' = missed \cup ({c} \X {s \in Signal : <<s[1], TRUE>> \in opening[c]})
      /\ UNCHANGED <<monitor, connections, deviceClients, pvCallback, asking, toSubscribe, toFetch,
                     fetched, broadcasts, outbox, seen, lost>>
  BY DEF AnswerNotConnected, routes
<1>2. PICK d \in Device : <<d, TRUE>> \in opening[c]
  BY DEF AnswerNotConnected
<1>3. ASSUME NEW s \in Signal, Promised(c, s)' PROVE ~BeingOpened(c, s)
  <2>1. \A r \in opening[c] : r = <<d, TRUE>>
    BY <1>2 DEF Carried, OneAtATime
  <2>2. s[1] # d
    BY <1>1, <1>2, <1>3 DEF Promised
  <2>3. ASSUME NEW r \in opening[c] PROVE r[1] = d
    <3>1. r = <<d, TRUE>>
      BY <2>1
    <3> QED BY <3>1, Zenon
  <2> QED BY <2>2, <2>3 DEF BeingOpened
<1>4. \A e \in Client, s \in Signal : Promised(e, s)' => Promised(e, s)
  BY <1>1 DEF Promised
<1>5. \A e \in Client \ {c}, s \in Signal : BeingOpened(e, s) => BeingOpened(e, s)'
  BY <1>1 DEF BeingOpened
<1>6. FirstFetches'
  BY <1>1, <1>3, <1>4, <1>5 DEF Carried, FirstFetches, monitor
<1>7. Coming'
  <2> SUFFICES ASSUME NEW e \in connections, NEW s \in Signal, Promised(e, s)'
               PROVE  OnItsWay(e, s)'
    BY <1>1 DEF Coming
  <2>1. OnItsWay(e, s) /\ (BeingOpened(e, s) => BeingOpened(e, s)')
    BY <1>3, <1>4, <1>5 DEF Carried, Coming
  <2> QED BY <1>1, <2>1 DEF OnItsWay, monitor
<1> QED BY <1>1, <1>6, <1>7 DEF Carried, OneOwed, OneAtATime, monitor

\* The handler that subscribed a device goes on to the device's values.
LEMMA CarriedOpen ==
    ASSUME TypeOK, IInv, Carried, NEW c \in Client, OpenDevice(c) PROVE Carried'
<1> USE CarryingTypes
<1>1. PICK d \in Device, requires \in BOOLEAN :
        /\ <<d, requires>> \in opening[c] /\ toSubscribe[c] = {}
        /\ opening' = [opening EXCEPT ![c] = {}]
        /\ toFetch' = [toFetch EXCEPT ![c] = SignalsToFetch(c, {d})]
        /\ UNCHANGED <<monitor, connections, deviceClients, pvCallback, asking, toSubscribe,
                       fetched, delivery>>
  BY DEF OpenDevice, routes
<1>2. asking[c] = {} /\ toFetch[c] = {} /\ \A r \in opening[c] : r = <<d, requires>>
  BY <1>1 DEF Carried, OneAtATime, IInv, HandlerInv, OneThing
<1>3. ASSUME c \in connections, NEW s \in Signal, Promised(c, s), BeingOpened(c, s)
      PROVE  s \in toFetch'[c]
  <2>1. s[1] = d
    BY <1>2, <1>3 DEF BeingOpened
  <2>2. s[2] \in devicePvs[s[1]]
    BY <1>3, SignalFacts DEF Promised, IInv, RoutesAgree
  <2>3. s \in SignalsToFetch(c, {d})
    BY <1>3, <2>1, <2>2 DEF SignalsToFetch
  <2> QED BY <1>1, <2>3
<1>4. FirstFetches'
  BY <1>1 DEF Carried, FirstFetches, Promised, BeingOpened, monitor, delivery
<1>5. Coming'
  <2> SUFFICES ASSUME NEW e \in connections, NEW s \in Signal, Promised(e, s)
               PROVE  OnItsWay(e, s)'
    BY <1>1 DEF Coming, Promised, delivery
  <2>1. OnItsWay(e, s)
    BY DEF Carried, Coming
  <2>2. CASE e # c
    <3>1. opening'[e] = opening[e] /\ toFetch'[e] = toFetch[e]
      BY <1>1, <2>2
    <3> QED BY <1>1, <2>1, <3>1 DEF OnItsWay, BeingOpened, monitor, delivery
  <2>3. CASE e = c
    BY <1>1, <1>2, <1>3, <2>1, <2>3 DEF OnItsWay, monitor, delivery
  <2> QED BY <2>2, <2>3
<1>6. OneAtATime'
  BY <1>1, <1>2 DEF Carried, OneAtATime
<1> QED BY <1>1, <1>4, <1>5, <1>6 DEF Carried, OneOwed, monitor

LEMMA CarriedRefresh ==
    ASSUME TypeOK, Carried, NEW c \in Client, Refresh(c) PROVE Carried'
<1> USE CarryingTypes
<1>1. /\ toFetch[c] = {} /\ asking[c] = {} /\ opening[c] = {}
      /\ \A e \in Client : toFetch[e] \subseteq toFetch'[e] /\ (e # c => toFetch'[e] = toFetch[e])
      /\ UNCHANGED <<monitor, connections, deviceClients, pvCallback, asking, opening, toSubscribe,
                     fetched, delivery>>
  BY DEF Refresh, Receiving, routes
<1>2. FirstFetches'
  BY <1>1 DEF Carried, FirstFetches, Promised, BeingOpened, monitor, delivery
<1>3. Coming'
  <2> SUFFICES ASSUME NEW e \in connections, NEW s \in Signal, Promised(e, s)
               PROVE  OnItsWay(e, s)'
    BY <1>1 DEF Coming, Promised, delivery
  <2>1. OnItsWay(e, s) /\ (s \in toFetch[e] => s \in toFetch'[e])
    BY <1>1 DEF Carried, Coming
  <2> QED BY <1>1, <2>1 DEF OnItsWay, BeingOpened, monitor, delivery
<1> QED BY <1>1, <1>2, <1>3 DEF Carried, OneOwed, OneAtATime, monitor

LEMMA EntrySet ==
    ASSUME NEW S, NEW T, NEW V, NEW f \in [S -> [T -> V]], NEW c \in S, NEW p \in T, NEW v
    PROVE  \A e \in S, q \in T :
             [f EXCEPT ![c][p] = v][e][q] = IF e = c /\ q = p THEN v ELSE f[e][q]
<1>1. [f EXCEPT ![c][p] = v] = [f EXCEPT ![c] = [f[c] EXCEPT ![p] = v]]
  OBVIOUS
<1>2. ASSUME NEW e \in S, NEW q \in T
      PROVE  [f EXCEPT ![c] = [f[c] EXCEPT ![p] = v]][e][q]
               = IF e = c /\ q = p THEN v ELSE f[e][q]
  <2>1. f[c] \in [T -> V]
    OBVIOUS
  <2> QED BY <2>1
<1> QED BY <1>1, <1>2

\* Nothing is sent that is older than what was sent before.
LEMMA SendFacts ==
    ASSUME TypeOK, NEW c \in Client, NEW s \in Signal, NEW v \in Value \cup {NoValue}, Send(c, s, v)
    PROVE  /\ \A e \in Client, t \in Signal : seen'[e][t] \in Nat /\ seen'[e][t] >= seen[e][t]
           /\ c \in connections => seen'[c][s] >= v
<1> USE CarryingTypes
<1>0. v \in Nat /\ \A e \in Client, t \in Signal : seen[e][t] \in Nat
  OBVIOUS
<1>1. CASE c \in connections /\ v > seen[c][s]
  <2>1. \A e \in Client, t \in Signal : seen'[e][t] = IF e = c /\ t = s THEN v ELSE seen[e][t]
    BY <1>1, EntrySet DEF Send
  <2>2. ASSUME NEW e \in Client, NEW t \in Signal
        PROVE  seen'[e][t] \in Nat /\ seen'[e][t] >= seen[e][t]
    <3>1. CASE e = c /\ t = s
      BY <1>0, <1>1, <2>1, <3>1
    <3>2. CASE ~(e = c /\ t = s)
      BY <1>0, <2>1, <3>2
    <3> QED BY <3>1, <3>2
  <2>3. seen'[c][s] = v
    BY <2>1
  <2> QED BY <1>0, <2>2, <2>3
<1>2. CASE ~(c \in connections /\ v > seen[c][s])
  BY <1>0, <1>2 DEF Send
<1> QED BY <1>1, <1>2

\* A value that was fetched is the monitor's, and is sent later.
LEMMA CarriedFetch ==
    ASSUME TypeOK, Carried, NEW c \in Client, NEW s \in Signal,
           FetchValue(c, s) \/ SendFetched(c, s)
    PROVE  Carried'
<1> USE CarryingTypes, SignalFacts
<1>0. /\ UNCHANGED <<monitor, connections, deviceClients, pvCallback, asking, opening, toSubscribe,
                     broadcasts, outbox, lost, missed>>
      /\ toFetch' \in [Client -> SUBSET Signal]
      /\ \A e \in Client : toFetch'[e] \subseteq toFetch[e]
  <2>1. CASE FetchValue(c, s)
    BY <2>1 DEF FetchValue, routes, delivery
  <2>2. CASE SendFetched(c, s)
    BY <2>2 DEF SendFetched, routes
  <2> QED BY <2>1, <2>2
<1>1. OneOwed' /\ FirstFetches'
  BY <1>0 DEF Carried, OneOwed, FirstFetches, Promised, BeingOpened, monitor
<1>2. OneAtATime'
  <2>1. \A e \in Client : toFetch[e] = {} => toFetch'[e] = {}
    BY <1>0
  <2> QED BY <1>0, <2>1 DEF Carried, OneAtATime
<1>3. Coming'
  <2>1. SUFFICES ASSUME NEW e \in connections, NEW t \in Signal, Promised(e, t)
                 PROVE  OnItsWay(e, t)'
    BY <1>0 DEF Coming, Promised
  <2>2. OnItsWay(e, t) /\ e \in Client
    BY <2>1 DEF Carried, Coming
  <2>3. CASE FetchValue(c, s)
    <3>1. /\ toFetch' = [toFetch EXCEPT ![c] = @ \ {s}] /\ seen' = seen
          /\ fetched' = [fetched EXCEPT ![c][s] = latest[s[2]]]
      BY <2>3 DEF FetchValue, delivery
    <3>2. CASE e = c /\ t = s
      <4>1. fetched'[e][t] = latest[t[2]] /\ latest[t[2]] \in Nat
        BY <3>1, <3>2, EntrySet
      <4>2. fetched'[e][t] >= latest'[t[2]]
        BY <1>0, <4>1 DEF monitor
      <4> QED BY <4>2 DEF OnItsWay
    <3>3. CASE ~(e = c /\ t = s)
      <4>1. fetched'[e][t] = fetched[e][t]
        BY <2>2, <3>1, <3>3, EntrySet
      <4>2. t \in toFetch[e] => t \in toFetch'[e]
        BY <2>2, <3>1, <3>3
      <4> QED BY <1>0, <2>2, <3>1, <4>1, <4>2 DEF OnItsWay, BeingOpened, monitor
    <3> QED BY <3>2, <3>3
  <2>4. CASE SendFetched(c, s)
    <3>1. /\ fetched' = [fetched EXCEPT ![c][s] = NoValue] /\ Send(c, s, fetched[c][s])
          /\ toFetch' = toFetch
      BY <2>4 DEF SendFetched
    <3>2. /\ fetched[c][s] \in Value \cup {NoValue}
          /\ seen[e][t] \in Nat /\ fetched[e][t] \in Nat /\ latest[t[2]] \in Nat
      BY <2>2
    <3>3. /\ seen'[e][t] \in Nat /\ seen'[e][t] >= seen[e][t]
          /\ c \in connections => seen'[c][s] >= fetched[c][s]
      BY <2>2, <3>1, <3>2, SendFacts
    <3>4. seen[e][t] >= latest[t[2]] => seen'[e][t] >= latest[t[2]]
      BY <3>2, <3>3
    <3>5. fetched[e][t] >= latest[t[2]] =>
            fetched'[e][t] >= latest[t[2]] \/ seen'[e][t] >= latest[t[2]]
      <4>1. CASE e = c /\ t = s
        BY <2>1, <3>2, <3>3, <4>1
      <4>2. CASE ~(e = c /\ t = s)
        <5>1. fetched'[e][t] = fetched[e][t]
          BY <2>2, <3>1, <4>2, EntrySet
        <5> QED BY <5>1
      <4> QED BY <4>1, <4>2
    <3> QED BY <1>0, <2>2, <3>1, <3>4, <3>5 DEF OnItsWay, BeingOpened, monitor
  <2> QED BY <2>3, <2>4
<1> QED BY <1>1, <1>2, <1>3 DEF Carried

\* A client that enters a device is about to fetch its values; one that enters a
\* device with clients misses the PVs whose callbacks are not in the monitor.
LEMMA CarriedEnter ==
    ASSUME Disjoint, TypeOK, IInv, Carried, NEW c \in Client, EnterDevice(c)
    PROVE  Carried'
<1> USE CarryingTypes, SignalFacts
<1>1. PICK d \in Device, requires \in BOOLEAN :
        LET signals == {s \in Signal : s[1] = d}
            unready == {s \in signals : /\ deviceClients[d] # {}
                                        /\ pvCallback[s[2]] \notin callbacks[s[2]]}
        IN  /\ asking[c] # {}
            /\ asking' = [asking EXCEPT ![c] = {}]
            /\ opening' = [opening EXCEPT ![c] = {<<d, requires>>}]
            /\ MakeCallbacks(c, d)
            /\ deviceClients' = [deviceClients EXCEPT ![d] = @ \cup {c}]
            /\ seen' = [seen EXCEPT ![c] = [s \in Signal |-> IF s \in signals THEN NoValue ELSE @[s]]]
            /\ missed' = (missed \ ({c} \X signals)) \cup ({c} \X unready)
            /\ UNCHANGED <<monitor, connections, toFetch, fetched, broadcasts, outbox, lost>>
  BY DEF EnterDevice
<1>2. opening[c] = {} /\ toFetch[c] = {} /\ toSubscribe[c] = {}
  BY <1>1 DEF Carried, OneAtATime, IInv, HandlerInv, OneThing
<1>3. /\ \A s \in Signal : s[1] = d => BeingOpened(c, s)'
      /\ \A e \in Client \ {c}, s \in Signal : BeingOpened(e, s)' <=> BeingOpened(e, s)
      /\ \A s \in Signal : ~BeingOpened(c, s)
  BY <1>1, <1>2 DEF BeingOpened
<1>4. \A e \in Client, s \in Signal : e # c \/ s[1] # d =>
        /\ e \in deviceClients'[s[1]] <=> e \in deviceClients[s[1]]
        /\ <<e, s>> \in missed' <=> <<e, s>> \in missed
        /\ seen'[e][s] = seen[e][s]
  BY <1>1
<1>5. ASSUME NEW e \in Client, NEW s \in Signal, e # c \/ s[1] # d, e \in deviceClients[s[1]]
      PROVE  /\ pvCallback'[s[2]] = pvCallback[s[2]]
             /\ e # c => toSubscribe'[e] = toSubscribe[e]
  <2>1. CASE deviceClients[d] # {}
    BY <1>1, <2>1 DEF MakeCallbacks
  <2>2. CASE deviceClients[d] = {}
    <3>1. s[1] # d
      BY <1>5, <2>2
    <3>2. s[2] \notin Pvs[d]
      BY <3>1, DisjointFacts
    <3> QED BY <1>1, <2>2, <3>2 DEF MakeCallbacks
  <2> QED BY <2>1, <2>2
<1>6. \A e \in Client, s \in Signal : Promised(e, s)' /\ (e # c \/ s[1] # d) =>
        Promised(e, s) /\ pvCallback'[s[2]] = pvCallback[s[2]]
  BY <1>1, <1>4, <1>5 DEF Promised
<1>7. FirstFetches'
  <2> SUFFICES ASSUME NEW e \in Client, NEW s \in Signal, Promised(e, s)',
                      pvCallback'[s[2]] \notin callbacks[s[2]]
               PROVE  pvCallback'[s[2]] \in toSubscribe'[e] /\ BeingOpened(e, s)'
    BY <1>1 DEF FirstFetches, monitor
  <2>1. CASE e # c
    <3>1. e \in deviceClients[s[1]]
      BY <1>6, <2>1 DEF Promised
    <3> QED BY <1>3, <1>5, <1>6, <2>1, <3>1 DEF Carried, FirstFetches
  <2>2. CASE e = c /\ s[1] # d
    BY <1>2, <1>6, <2>2 DEF Carried, FirstFetches
  <2>3. CASE e = c /\ s[1] = d /\ deviceClients[d] # {}
    <3>1. pvCallback'[s[2]] = pvCallback[s[2]]
      BY <1>1, <2>3 DEF MakeCallbacks
    <3> QED BY <1>1, <2>3, <3>1 DEF Promised
  <2>4. CASE e = c /\ s[1] = d /\ deviceClients[d] = {}
    <3>1. PICK copy \in [Pvs[d] -> Copy] :
            /\ pvCallback' = [p \in PV |-> IF p \in Pvs[d] THEN <<d, p, copy[p]>> ELSE pvCallback[p]]
            /\ toSubscribe' = [toSubscribe EXCEPT ![c] = {<<d, p, copy[p]>> : p \in Pvs[d]}]
      BY <1>1, <2>4 DEF MakeCallbacks
    <3>2. pvCallback'[s[2]] \in toSubscribe'[c]
      BY <2>4, <3>1
    <3> QED BY <1>3, <2>4, <3>2
  <2> QED BY <2>1, <2>2, <2>3, <2>4
<1>8. Coming'
  <2> SUFFICES ASSUME NEW e \in connections, NEW s \in Signal, Promised(e, s)'
               PROVE  OnItsWay(e, s)'
    BY <1>1 DEF Coming
  <2>1. CASE e = c /\ s[1] = d
    BY <1>3, <2>1 DEF OnItsWay
  <2>2. CASE e # c \/ s[1] # d
    <3>1. /\ OnItsWay(e, s) /\ pvCallback'[s[2]] = pvCallback[s[2]] /\ seen'[e][s] = seen[e][s]
          /\ BeingOpened(e, s) => BeingOpened(e, s)'
      BY <1>3, <1>4, <1>6, <2>2 DEF Carried, Coming
    <3> QED BY <1>1, <3>1 DEF OnItsWay, monitor
  <2> QED BY <2>1, <2>2
<1>9. OneAtATime'
  <2> SUFFICES ASSUME NEW e \in Client
               PROVE  /\ asking'[e] # {} \/ opening'[e] # {} => toFetch[e] = {}
                      /\ \A q, r \in opening'[e] : q = r
    BY <1>1 DEF OneAtATime
  <2>1. CASE e = c
    BY <1>1, <1>2, <2>1
  <2>2. CASE e # c
    BY <1>1, <2>2 DEF Carried, OneAtATime
  <2> QED BY <2>1, <2>2
<1> QED BY <1>1, <1>7, <1>8, <1>9 DEF Carried, OneOwed, monitor

\* To those that stay nothing changes.
LEMMA CarriedLeave ==
    ASSUME Disjoint, TypeOK, IInv, Carried, NEW c \in Client, NEW ds \in SUBSET Device,
           LeaveDevices(c, ds), connections' \subseteq connections,
           UNCHANGED <<monitor, asking, opening, toSubscribe, toFetch, fetched>>
    PROVE  Carried'
<1> USE CarryingTypes, SignalFacts
<1> DEFINE last == {d \in ds : deviceClients[d] # {} /\ deviceClients[d] \subseteq {c}}
           released == UNION {devicePvs[d] : d \in last}
<1>1. /\ \A d \in Device : deviceClients'[d] = IF d \in ds THEN deviceClients[d] \ {c}
                                               ELSE deviceClients[d]
      /\ \A p \in PV : pvCallback'[p] = IF p \in released THEN NoCallback ELSE pvCallback[p]
      /\ lost' = {cb \in lost : DeviceOf(cb) \notin last}
      /\ missed' = {e \in missed : e[1] # c \/ e[2][1] \notin ds}
      /\ UNCHANGED <<broadcasts, outbox, seen>>
  BY DEF LeaveDevices
<1>2. /\ last \subseteq Device
      /\ \A d \in Device : d \in last <=> d \in ds /\ deviceClients[d] # {} /\ deviceClients[d] \subseteq {c}
  OBVIOUS
<1>3. \A p \in released : \E d \in last : p \in devicePvs[d]
  <2> HIDE DEF last
  <2> QED OBVIOUS
<1> HIDE DEF last, released
<1>4. ASSUME NEW e \in Client, NEW s \in Signal, Promised(e, s)'
      PROVE  Promised(e, s) /\ pvCallback'[s[2]] = pvCallback[s[2]]
  <2>1. /\ e \in deviceClients[s[1]] /\ (s[1] \in ds => e # c) /\ s[1] \notin last
    BY <1>1, <1>2, <1>4 DEF Promised
  <2>2. <<e, s>> \notin missed
    BY <1>1, <1>4, <2>1 DEF Promised
  <2>3. s[2] \notin released
    <3> SUFFICES ASSUME NEW d \in last, s[2] \in devicePvs[d] PROVE FALSE
      BY <1>3
    <3>1. s[2] \in Pvs[d]
      BY <1>2 DEF IInv, RoutesAgree
    <3> QED BY <1>2, <2>1, <3>1, DisjointFacts
  <2>4. pvCallback'[s[2]] = pvCallback[s[2]]
    BY <1>1, <2>3
  <2>5. pvCallback[s[2]] \notin lost
    <3>1. DeviceOf(pvCallback[s[2]]) = s[1]
      BY <2>1, RoutedFacts
    <3> QED BY <1>1, <1>4, <2>1, <2>4, <3>1 DEF Promised
  <2> QED BY <2>1, <2>2, <2>4, <2>5 DEF Promised
<1>5. FirstFetches'
  BY <1>4 DEF Carried, FirstFetches, BeingOpened, monitor
<1>6. Coming'
  <2> SUFFICES ASSUME NEW e \in connections', NEW s \in Signal, Promised(e, s)'
               PROVE  OnItsWay(e, s)'
    BY DEF Coming
  <2>1. OnItsWay(e, s) /\ pvCallback'[s[2]] = pvCallback[s[2]]
    BY <1>4 DEF Carried, Coming
  <2> QED BY <1>1, <2>1 DEF OnItsWay, BeingOpened, monitor
<1> QED BY <1>5, <1>6 DEF Carried, OneOwed, OneAtATime, monitor

\* An update goes to the routed callback, unless the client that brings it to
\* the monitor is about to fetch the value.
LEMMA CarriedUpdate ==
    ASSUME Disjoint, TypeOK, IInv, Carried, NEW p \in PV, MonitorUpdates(p) PROVE Carried'
<1> USE CarryingTypes, SignalFacts
<1>1. PICK v \in 1 .. current[p] : M!Update(p, v)
  BY DEF MonitorUpdates
<1>2. v \in Value /\ v # NoValue
  BY MaxVersionAssumption DEF Value, NoValue
<1>3. /\ \A cb \in Callback : valueCalls[cb] = NoValue
      /\ latest' = [latest EXCEPT ![p] = v]
      /\ \A q \in PV : q # p => (q \in owed' <=> q \in owed)
      /\ valueCalls' = [cb \in Callback |-> IF cb \in callbacks[p] THEN v ELSE NoValue]
      /\ UNCHANGED <<tracked, callbacks>>
  BY <1>1 DEF M!Update
<1>4. UNCHANGED <<connections, deviceClients, pvCallback, asking, opening, toSubscribe, toFetch,
                  fetched, broadcasts, outbox, seen, lost, missed>>
  BY DEF MonitorUpdates, Sockets, routes, handler, delivery
<1>5. OneOwed'
  BY <1>2, <1>3 DEF Carried, OneOwed
<1>6. FirstFetches'
  BY <1>3, <1>4 DEF Carried, FirstFetches, Promised, BeingOpened
<1>7. Coming'
  <2> SUFFICES ASSUME NEW c \in connections, NEW s \in Signal, Promised(c, s)
               PROVE  OnItsWay(c, s)'
    BY <1>4 DEF Coming, Promised
  <2>1. OnItsWay(c, s) /\ c \in Client
    BY DEF Carried, Coming
  <2>2. pvCallback[s[2]] \in Callback
    BY RoutedFacts DEF Promised
  <2>3. CASE s[2] = p /\ pvCallback[p] \in callbacks[p]
    <3>1. valueCalls'[pvCallback'[p]] = v /\ latest'[p] = v /\ v >= v
      BY <1>2, <1>3, <1>4, <2>3
    <3> QED BY <2>3, <3>1 DEF OnItsWay
  <2>4. CASE s[2] = p /\ pvCallback[p] \notin callbacks[p]
    BY <1>4, <2>4 DEF Carried, FirstFetches, OnItsWay, BeingOpened
  <2>5. CASE s[2] # p
    <3>1. /\ latest'[s[2]] = latest[s[2]] /\ (s[2] \in owed' <=> s[2] \in owed)
          /\ latest[s[2]] \in Nat
      BY <1>3, <2>5
    <3>2. CASE latest[s[2]] = 0
      <4>1. seen'[c][s] >= latest'[s[2]]
        BY <1>4, <2>1, <3>1, <3>2
      <4> QED BY <4>1 DEF OnItsWay
    <3>3. CASE ~(valueCalls[pvCallback[s[2]]] >= latest[s[2]])
      BY <1>4, <2>1, <3>1, <3>3 DEF OnItsWay, BeingOpened
    <3>4. CASE latest[s[2]] # 0 /\ valueCalls[pvCallback[s[2]]] >= latest[s[2]]
      BY <1>3, <2>2, <3>1, <3>4
    <3> QED BY <3>2, <3>3, <3>4
  <2> QED BY <2>3, <2>4, <2>5
<1> QED BY <1>4, <1>5, <1>6, <1>7 DEF Carried, OneAtATime

\* What a closure is called with is posted to the loop as an update of its
\* device and PV.
LEMMA CarriedCall ==
    ASSUME Disjoint, TypeOK, IInv, Carried, NEW cb \in Callback, CallCallback(cb) PROVE Carried'
<1> USE CarryingTypes, SignalFacts
<1>1. /\ valueCalls[cb] \in Value /\ valueCalls' = [valueCalls EXCEPT ![cb] = NoValue]
      /\ broadcasts' = broadcasts \cup {<<SignalOf(cb), valueCalls[cb]>>}
      /\ UNCHANGED <<tracked, callbacks, latest, owed, connections, deviceClients, pvCallback,
                     asking, opening, toSubscribe, toFetch, fetched, outbox, seen, lost, missed>>
  BY DEF CallCallback, M!Call, routes, handler
<1>2. FirstFetches'
  BY <1>1 DEF Carried, FirstFetches, Promised, BeingOpened
<1>3. Coming'
  <2> SUFFICES ASSUME NEW c \in connections, NEW s \in Signal, Promised(c, s)
               PROVE  OnItsWay(c, s)'
    BY <1>1 DEF Coming, Promised
  <2>1. OnItsWay(c, s)
    BY DEF Carried, Coming
  <2>2. pvCallback[s[2]] \in Callback /\ SignalOf(pvCallback[s[2]]) = s
    BY RoutedFacts DEF Promised
  <2>3. CASE pvCallback[s[2]] # cb
    BY <1>1, <2>1, <2>2, <2>3 DEF OnItsWay, BeingOpened
  <2>4. CASE pvCallback[s[2]] = cb /\ valueCalls[cb] >= latest[s[2]]
    <3>1. /\ valueCalls[cb] \in Value /\ valueCalls[cb] >= latest'[s[2]]
          /\ <<s, valueCalls[cb]>> \in broadcasts'
      BY <1>1, <2>2, <2>4
    <3> QED BY <3>1 DEF OnItsWay
  <2>5. CASE pvCallback[s[2]] = cb /\ ~(valueCalls[cb] >= latest[s[2]])
    BY <1>1, <2>1, <2>5 DEF OnItsWay, BeingOpened
  <2> QED BY <2>3, <2>4, <2>5
<1> QED BY <1>1, <1>2, <1>3 DEF Carried, OneOwed, OneAtATime

\* A broadcast is for every client the device has when it starts.
LEMMA CarriedStart ==
    ASSUME TypeOK, Carried, NEW s \in Signal, NEW v \in Value, StartBroadcast(s, v)
    PROVE  Carried'
<1> USE CarryingTypes, SignalFacts
<1>1. /\ broadcasts' = broadcasts \ {<<s, v>>}
      /\ outbox' = outbox \cup (deviceClients[s[1]] \X {s} \X {v})
      /\ UNCHANGED <<monitor, connections, deviceClients, pvCallback, asking, opening, toSubscribe,
                     toFetch, fetched, seen, lost, missed>>
  BY DEF StartBroadcast, routes, handler
<1>2. FirstFetches'
  BY <1>1 DEF Carried, FirstFetches, Promised, BeingOpened, monitor
<1>3. Coming'
  <2> SUFFICES ASSUME NEW c \in connections, NEW t \in Signal, Promised(c, t)
               PROVE  OnItsWay(c, t)'
    BY <1>1 DEF Coming, Promised
  <2>1. OnItsWay(c, t) /\ c \in deviceClients[t[1]]
    BY DEF Carried, Coming, Promised
  <2>2. \A u \in Value : <<t, u>> \in broadcasts => <<t, u>> \in broadcasts' \/ <<c, t, u>> \in outbox'
    BY <1>1, <2>1
  <2>3. outbox \subseteq outbox'
    BY <1>1
  <2> QED BY <1>1, <2>1, <2>2, <2>3 DEF OnItsWay, BeingOpened, monitor
<1> QED BY <1>1, <1>2, <1>3 DEF Carried, OneOwed, OneAtATime, monitor

LEMMA CarriedSend ==
    ASSUME TypeOK, Carried, NEW c \in Client, NEW s \in Signal, NEW v \in Value,
           SendBroadcast(c, s, v)
    PROVE  Carried'
<1> USE CarryingTypes, SignalFacts
<1>1. /\ outbox' = outbox \ {<<c, s, v>>} /\ Send(c, s, v)
      /\ UNCHANGED <<monitor, connections, deviceClients, pvCallback, asking, opening, toSubscribe,
                     toFetch, fetched, broadcasts, lost, missed>>
  BY DEF SendBroadcast, routes, handler
<1>2. FirstFetches'
  BY <1>1 DEF Carried, FirstFetches, Promised, BeingOpened, monitor
<1>3. Coming'
  <2> SUFFICES ASSUME NEW e \in connections, NEW t \in Signal, Promised(e, t)
               PROVE  OnItsWay(e, t)'
    BY <1>1 DEF Coming, Promised
  <2>1. OnItsWay(e, t) /\ e \in Client
    BY DEF Carried, Coming
  <2>2. /\ seen'[e][t] \in Nat /\ seen'[e][t] >= seen[e][t]
        /\ c \in connections => seen'[c][s] >= v
    BY <1>1, <2>1, SendFacts
  <2>3. seen[e][t] \in Nat /\ latest[t[2]] \in Nat /\ v \in Nat
    BY <2>1
  <2>4. seen[e][t] >= latest[t[2]] => seen'[e][t] >= latest[t[2]]
    BY <2>2, <2>3
  <2>5. ASSUME NEW u \in Value, u >= latest[t[2]], <<e, t, u>> \in outbox
        PROVE  <<e, t, u>> \in outbox' \/ seen'[e][t] >= latest[t[2]]
    <3>1. CASE <<e, t, u>> = <<c, s, v>>
      <4>1. e = c /\ t = s /\ u = v
        BY <3>1
      <4> QED BY <2>2, <2>3, <2>5, <4>1
    <3>2. CASE <<e, t, u>> # <<c, s, v>>
      BY <1>1, <2>5, <3>2
    <3> QED BY <3>1, <3>2
  <2> QED BY <1>1, <2>1, <2>4, <2>5 DEF OnItsWay, BeingOpened, monitor
<1> QED BY <1>1, <1>2, <1>3 DEF Carried, OneOwed, OneAtATime, monitor

LEMMA CarriedStep ==
    ASSUME Disjoint, TypeOK, IInv, Carried, [Next]_vars
    PROVE  Carried'
<1> USE CarryingTypes, SignalFacts
<1>1. ASSUME NEW c \in Client, HandlerStep(c) PROVE Carried'
  <2>1. CASE DeviceNotFound(c)
    <3>1. /\ \A e \in Client : asking'[e] # {} => asking[e] # {}
          /\ UNCHANGED <<monitor, connections, deviceClients, pvCallback, opening, toSubscribe,
                         toFetch, fetched, delivery>>
      BY <2>1 DEF DeviceNotFound, routes
    <3> QED BY <3>1, CarriedElsewhere
  <2> QED
    BY <1>1, <2>1, CarriedEnter, CarriedSubscribe, CarriedUnsubscribe, CarriedAnswer, CarriedOpen,
       CarriedFetch
    DEF HandlerStep
<1>2. ASSUME NEW c \in Client, ClientRequest(c) PROVE Carried'
  <2>1. CASE Connect(c)
    <3>1. /\ phase[c] = "new" /\ connections' = connections \cup {c}
          /\ UNCHANGED <<monitor, deviceClients, pvCallback, asking, opening, toSubscribe, toFetch,
                         fetched, delivery>>
      BY <2>1 DEF Connect, routes, handler
    <3>2. \A s \in Signal : ~Promised(c, s)
      BY <3>1 DEF Promised, IInv, RoutesAgree
    <3> QED BY <3>1, <3>2, CarriedElsewhere
  <2>2. ASSUME NEW d \in Device, NEW requires \in BOOLEAN, RequestDevice(c, d, requires)
        PROVE  Carried'
    <3>1. /\ \A e \in Client : asking'[e] # {} => asking[e] # {} \/ toFetch[e] = {}
          /\ UNCHANGED <<monitor, connections, deviceClients, pvCallback, opening, toSubscribe,
                         toFetch, fetched, delivery>>
      BY <2>2 DEF RequestDevice, Receiving, routes
    <3> QED BY <3>1, CarriedElsewhere
  <2>3. ASSUME NEW d \in Device, Unsubscribe(c, d) PROVE Carried'
    BY <2>3, CarriedLeave DEF Unsubscribe
  <2>4. CASE Refresh(c)
    BY <2>4, CarriedRefresh
  <2>5. CASE Disconnect(c)
    <3>1. subscriptions[c] \in SUBSET Device
      BY DEF TypeOK
    <3> QED BY <2>5, <3>1, CarriedLeave DEF Disconnect
  <2> QED BY <1>2, <2>1, <2>2, <2>3, <2>4, <2>5 DEF ClientRequest
<1>3. CASE Delivery
  BY <1>3, CarriedCall, CarriedStart, CarriedSend DEF Delivery
<1>4. CASE World
  <2>1. CASE CloseAll
    BY <2>1, CarriedElsewhere DEF CloseAll, routes, handler
  <2>2. ASSUME NEW p \in PV, HttpSubscribes(p) \/ GetValueReads(p) \/ IocChanges(p)
        PROVE  Carried'
    <3>1. PICK v \in Value \cup {NoValue} :
            \/ UNCHANGED monitor
            \/ M!Track(p, NoCallback, v)
            \/ v \in Value /\ M!ReadValue(p, v)
            \/ M!Owe(p)
      BY <2>2 DEF HttpSubscribes, GetValueReads, IocChanges
    <3>2. UNCHANGED <<connections, routes, handler, delivery>>
      BY <2>2 DEF HttpSubscribes, GetValueReads, IocChanges, Sockets
    <3> QED BY <3>1, <3>2, CarriedFrame
  <2> QED BY <1>4, <2>1, <2>2, CarriedUpdate DEF World
<1>5. CASE UNCHANGED vars
  BY <1>5, CarriedElsewhere DEF vars, routes, handler
<1> QED BY <1>1, <1>2, <1>3, <1>4, <1>5 DEF Next

\* Where devices have PVs of their own: however the lookup, the parallel
\* subscribes, updates and other clients interleave, a client misses nothing
\* between the initial values of a device and its updates.
THEOREM NothingMissed == ASSUME Disjoint PROVE Spec => []NoGap
<1> USE CarryingTypes, SignalFacts
<1>1. Init => Carried
  BY DEF Init, M!Init, Carried, OneOwed, FirstFetches, Coming, Promised, OneAtATime
<1>2. TypeOK /\ IInv /\ Carried => NoGap
  <2> SUFFICES ASSUME TypeOK, IInv, Carried, AtRest, NEW s \in Signal,
                      NEW c \in deviceClients[s[1]] \cap connections, <<c, s>> \notin missed,
                      pvCallback[s[2]] \notin lost, latest[s[2]] # NoValue
               PROVE  seen[c][s] >= latest[s[2]]
    BY DEF NoGap
  <2>1. c \in Client /\ Receiving(c) /\ pvCallback[s[2]] \in Callback
    <3>1. phase[c] = "open"
      BY DEF IInv, RoutesAgree
    <3> QED BY <3>1, RoutedFacts DEF AtRest
  <2>2. OnItsWay(c, s)
    BY DEF Carried, Coming, Promised
  <2>3. /\ valueCalls[pvCallback[s[2]]] = 0 /\ fetched[c][s] = 0
        /\ latest[s[2]] \in Nat /\ latest[s[2]] # 0
    BY <2>1 DEF AtRest, Receiving
  <2> QED BY <2>1, <2>2, <2>3 DEF OnItsWay, BeingOpened, AtRest, Receiving
<1>3. TypeOK /\ IInv /\ Carried /\ [Next]_vars => Carried'
  BY CarriedStep
<1> QED BY <1>1, <1>2, <1>3, TypeCorrect, Invariance, PTL DEF Spec

=============================================================================
