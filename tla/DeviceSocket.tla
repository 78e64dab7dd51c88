---------------------------- MODULE DeviceSocket ----------------------------
(***************************************************************************)
(* DeviceWebSocketManager (monitoring/device_websocket_manager.py): the    *)
(* device WebSocket.  As in PvSocket, each client has one handler          *)
(* coroutine and every section under the asyncio lock is one action; the   *)
(* awaits in between are the HTTP lookup of the device, the worker-thread  *)
(* calls of the monitor, and the sends.  Unlike there, all the PVs of a    *)
(* device are subscribed in parallel, a failed one is not undone, and      *)
(* _pv_callbacks is keyed by PV while a callback belongs to a device.      *)
(*                                                                         *)
(* The PV monitor is the abstract Monitor.  What the configuration service *)
(* says of a device is constant, and its components have PVs of their own. *)
(* Set and stop are sessions of DirectControl; heartbeats and the locks of *)
(* the sends are in LockedSocket.                                          *)
(***************************************************************************)
EXTENDS Naturals, FiniteSets

CONSTANTS
    Client,        \* WebSocket clients, each connecting once (a fresh uuid)
    Device,
    PV,
    Pvs,           \* Pvs[d]: the PVs of device d (DeviceInfo.pvs)
    Copy,          \* distinguishes the closures made for one device and PV
    NoCallback,    \* Python's None
    Cap,           \* settings.max_subscriptions_per_client; 0 is no cap
    MaxVersion     \* bound: values an IOC goes through

ASSUME PvsAssumption == Pvs \in [Device -> SUBSET PV]
ASSUME CapAssumption == Cap \in Nat
ASSUME MaxVersionAssumption == MaxVersion \in Nat \ {0}

\* No PV belongs to two devices.
Disjoint == \A d, e \in Device : d # e => Pvs[d] \cap Pvs[e] = {}

\* A closure of _make_device_callback is bound to its device and component.
Callback == {cb \in Device \X PV \X Copy : cb[2] \in Pvs[cb[1]]}
DeviceOf(cb) == cb[1]
PvOf(cb) == cb[2]

ASSUME NoCallbackAssumption == NoCallback \notin Callback

\* What a client is sent updates of: a device and one of its PVs.
Signal == {s \in Device \X PV : s[2] \in Pvs[s[1]]}

\* Mistake: device and component change places.
SignalOfSwapped(cb) == <<PvOf(cb), DeviceOf(cb)>>

SignalOf(cb) == <<DeviceOf(cb), PvOf(cb)>>

\* A PV's values in the order its IOC takes them; 0 is no value.
Value == 1 .. MaxVersion
NoValue == 0

VARIABLES
    tracked, callbacks, latest, owed, valueCalls,     \* the PV monitor
    current,        \* the IOCs' values
    phase,          \* of each client: "new", "open", "left"
    connections,    \* clients in _connections
    subscriptions,  \* _device_subscriptions
    deviceClients,  \* _device_clients, {} for a missing key
    devicePvs,      \* _device_pvs, {} for a missing key
    pvCallback,     \* _pv_callbacks, NoCallback for a missing key
    asking,         \* the device being looked up, <<device, require_connection>>
    opening,        \* the device whose PVs are being subscribed, likewise
    toSubscribe, raised,   \* thread calls of subscribe left; PVs whose call raised
    toFetch, fetched,      \* values still to get; gotten and not sent
    toUnsubscribe,         \* thread calls of unsubscribe left
    broadcasts,     \* posted to the loop and not started: <<signal, value>>
    outbox,         \* sends left of started broadcasts: <<client, signal, value>>
    seen,           \* the newest value each client was sent since it subscribed
    lost,           \* history: routed callbacks whose subscribe raised
    missed          \* history: <<client, signal>> that joined before the signal's
                    \* callback was registered, or was answered "not_connected"

M == INSTANCE Monitor

monitor == <<tracked, callbacks, latest, owed, valueCalls>>
routes == <<subscriptions, deviceClients, devicePvs, pvCallback>>
handler == <<asking, opening, toSubscribe, raised, toFetch, fetched, toUnsubscribe>>
delivery == <<broadcasts, outbox, seen, lost, missed>>
vars == <<monitor, current, phase, connections, routes, handler, delivery>>

TypeOK ==
    /\ M!TypeInvariant
    /\ current \in [PV -> Value]
    /\ phase \in [Client -> {"new", "open", "left"}]
    /\ connections \subseteq Client
    /\ subscriptions \in [Client -> SUBSET Device]
    /\ deviceClients \in [Device -> SUBSET Client]
    /\ devicePvs \in [Device -> SUBSET PV]
    /\ pvCallback \in [PV -> Callback \cup {NoCallback}]
    /\ asking \in [Client -> SUBSET (Device \X BOOLEAN)]
    /\ opening \in [Client -> SUBSET (Device \X BOOLEAN)]
    /\ toSubscribe \in [Client -> SUBSET Callback]
    /\ raised \in [Client -> SUBSET PV]
    /\ toFetch \in [Client -> SUBSET Signal]
    /\ fetched \in [Client -> [Signal -> Value \cup {NoValue}]]
    /\ toUnsubscribe \in [Client -> SUBSET Callback]
    /\ broadcasts \subseteq Signal \X Value
    /\ outbox \subseteq Client \X Signal \X Value
    /\ seen \in [Client -> [Signal -> Value \cup {NoValue}]]
    /\ lost \subseteq Callback
    /\ missed \subseteq Client \X Signal

Init ==
    /\ M!Init
    /\ current = [p \in PV |-> 1]
    /\ phase = [c \in Client |-> "new"]
    /\ connections = {}
    /\ subscriptions = [c \in Client |-> {}]
    /\ deviceClients = [d \in Device |-> {}]
    /\ devicePvs = [d \in Device |-> {}]
    /\ pvCallback = [p \in PV |-> NoCallback]
    /\ asking = [c \in Client |-> {}]
    /\ opening = [c \in Client |-> {}]
    /\ toSubscribe = [c \in Client |-> {}]
    /\ raised = [c \in Client |-> {}]
    /\ toFetch = [c \in Client |-> {}]
    /\ fetched = [c \in Client |-> [s \in Signal |-> NoValue]]
    /\ toUnsubscribe = [c \in Client |-> {}]
    /\ broadcasts = {}
    /\ outbox = {}
    /\ seen = [c \in Client |-> [s \in Signal |-> NoValue]]
    /\ lost = {}
    /\ missed = {}

\* The handler of c is back in receive_json.
Receiving(c) ==
    /\ phase[c] = "open"
    /\ asking[c] = {} /\ opening[c] = {}
    /\ toFetch[c] = {} /\ toUnsubscribe[c] = {}
    /\ \A s \in Signal : fetched[c][s] = NoValue

-----------------------------------------------------------------------------
(* Connecting and subscribing                                              *)

Connect(c) ==
    /\ phase[c] = "new"
    /\ phase' = [phase EXCEPT ![c] = "open"]
    /\ connections' = connections \cup {c}
    /\ UNCHANGED <<monitor, current, routes, handler, delivery>>

\* Mistake: the device asked for is not counted.
WithinCapOffByOne(c) == Cap = 0 \/ Cardinality(subscriptions[c]) <= Cap

WithinCap(c) == Cap = 0 \/ Cardinality(subscriptions[c]) + 1 <= Cap

\* subscribe, subscribeReadOnly, and subscribeSafely (requires = TRUE), of a
\* device the client does not have: the first locked section of
\* subscribe_device.  Without a connection, for a device it has, or above the
\* cap, the client is only answered.
RequestDevice(c, d, requires) ==
    /\ Receiving(c)
    /\ c \in connections
    /\ d \notin subscriptions[c]
    /\ WithinCap(c)
    /\ asking' = [asking EXCEPT ![c] = {<<d, requires>>}]
    /\ UNCHANGED <<monitor, current, phase, connections, routes, opening, toSubscribe,
                   raised, toFetch, fetched, toUnsubscribe, delivery>>

DeviceNotFound(c) ==
    /\ asking[c] # {}
    /\ asking' = [asking EXCEPT ![c] = {}]
    /\ UNCHANGED <<monitor, current, phase, connections, routes, opening, toSubscribe,
                   raised, toFetch, fetched, toUnsubscribe, delivery>>

\* A closure that nobody holds yet.
Fresh(cb) ==
    /\ cb # pvCallback[PvOf(cb)]
    /\ cb \notin callbacks[PvOf(cb)] \cup lost
    /\ valueCalls[cb] = NoValue
    /\ \A c \in Client : cb \notin toSubscribe[c] \cup toUnsubscribe[c]

\* Mistake: every client makes callbacks of its own.
MakeCallbacksAgain(c, d) ==
    \E copy \in [Pvs[d] -> Copy] :
        LET made == {<<d, p, copy[p]>> : p \in Pvs[d]}
        IN  /\ \A cb \in made : Fresh(cb)
            /\ devicePvs' = [devicePvs EXCEPT ![d] = Pvs[d]]
            /\ pvCallback' = [p \in PV |-> IF p \in Pvs[d] THEN <<d, p, copy[p]>> ELSE pvCallback[p]]
            /\ toSubscribe' = [toSubscribe EXCEPT ![c] = made]

\* The device's first client makes a callback for each PV, and takes the PV's
\* entry in _pv_callbacks whoever has it.
MakeCallbacks(c, d) ==
    IF deviceClients[d] # {}
    THEN UNCHANGED <<devicePvs, pvCallback, toSubscribe>>
    ELSE \E copy \in [Pvs[d] -> Copy] :
            LET made == {<<d, p, copy[p]>> : p \in Pvs[d]}
            IN  /\ \A cb \in made : Fresh(cb)
                /\ devicePvs' = [devicePvs EXCEPT ![d] = Pvs[d]]
                /\ pvCallback' = [p \in PV |->
                                    IF p \in Pvs[d] THEN <<d, p, copy[p]>> ELSE pvCallback[p]]
                /\ toSubscribe' = [toSubscribe EXCEPT ![c] = made]

\* The lookup answered: the second locked section, which looks at nothing the
\* first one has seen.
EnterDevice(c) ==
    \E d \in Device, requires \in BOOLEAN :
        LET signals == {s \in Signal : s[1] = d}
            unready == {s \in signals : /\ deviceClients[d] # {}
                                        /\ pvCallback[s[2]] \notin callbacks[s[2]]}
        IN  /\ <<d, requires>> \in asking[c]
            /\ asking' = [asking EXCEPT ![c] = {}]
            /\ opening' = [opening EXCEPT ![c] = {<<d, requires>>}]
            /\ subscriptions' = [subscriptions EXCEPT ![c] = @ \cup {d}]
            /\ MakeCallbacks(c, d)
            /\ deviceClients' = [deviceClients EXCEPT ![d] = @ \cup {c}]
            /\ seen' = [seen EXCEPT ![c] = [s \in Signal |-> IF s \in signals THEN NoValue ELSE @[s]]]
            /\ missed' = (missed \ ({c} \X signals)) \cup ({c} \X unready)
            /\ UNCHANGED <<monitor, current, phase, connections, raised, toFetch, fetched,
                           toUnsubscribe, broadcasts, outbox, lost>>

\* The worker-thread calls of PVMonitor.subscribe, all at once.
SubscribeReturns(c, cb) ==
    LET p == PvOf(cb) IN
    /\ cb \in toSubscribe[c]
    /\ toSubscribe' = [toSubscribe EXCEPT ![c] = @ \ {cb}]
    /\ \/ M!Join(p, cb)
       \/ \E v \in {current[p], NoValue} : M!Track(p, cb, v)
    /\ UNCHANGED <<current, phase, connections, routes, asking, opening, raised, toFetch,
                   fetched, toUnsubscribe, delivery>>

SubscribeRaises(c, cb) ==
    LET p == PvOf(cb) IN
    /\ cb \in toSubscribe[c]
    /\ toSubscribe' = [toSubscribe EXCEPT ![c] = @ \ {cb}]
    /\ raised' = [raised EXCEPT ![c] = @ \cup {p}]
    /\ lost' = lost \cup {cb}
    /\ \/ p \notin tracked /\ UNCHANGED monitor
       \/ \E v \in {current[p], NoValue} : M!TrackAndRaise(p, v) /\ p \in owed'
    /\ UNCHANGED <<current, phase, connections, routes, asking, opening, toFetch, fetched,
                   toUnsubscribe, broadcasts, outbox, seen, missed>>

\* require_connection and a PV that failed: "not_connected", and nothing undone.
AnswerNotConnected(c) ==
    /\ toSubscribe[c] = {} /\ raised[c] # {}
    /\ \E d \in Device : <<d, TRUE>> \in opening[c]
    /\ opening' = [opening EXCEPT ![c] = {}]
    /\ raised' = [raised EXCEPT ![c] = {}]
    /\ missed' = missed \cup ({c} \X {s \in Signal : <<s[1], TRUE>> \in opening[c]})
    /\ UNCHANGED <<monitor, current, phase, connections, routes, asking, toSubscribe,
                   toFetch, fetched, toUnsubscribe, broadcasts, outbox, seen, lost>>

\* _send_current_values for the devices ds: the PVs are copied under the lock.
SignalsToFetch(c, ds) ==
    IF c \in connections THEN {s \in Signal : s[1] \in ds /\ s[2] \in devicePvs[s[1]]} ELSE {}

\* Mistake: the calls of subscribe are not awaited.
OpenDeviceEarly(c) ==
    \E d \in Device, requires \in BOOLEAN :
        /\ <<d, requires>> \in opening[c]
        /\ opening' = [opening EXCEPT ![c] = {}]
        /\ raised' = [raised EXCEPT ![c] = {}]
        /\ toFetch' = [toFetch EXCEPT ![c] = SignalsToFetch(c, {d})]
        /\ UNCHANGED <<monitor, current, phase, connections, routes, asking, toSubscribe,
                       fetched, toUnsubscribe, delivery>>

\* Every call is back: on to the current values.
OpenDevice(c) ==
    \E d \in Device, requires \in BOOLEAN :
        /\ <<d, requires>> \in opening[c]
        /\ toSubscribe[c] = {} /\ (requires => raised[c] = {})
        /\ opening' = [opening EXCEPT ![c] = {}]
        /\ raised' = [raised EXCEPT ![c] = {}]
        /\ toFetch' = [toFetch EXCEPT ![c] = SignalsToFetch(c, {d})]
        /\ UNCHANGED <<monitor, current, phase, connections, routes, asking, toSubscribe,
                       fetched, toUnsubscribe, delivery>>

Refresh(c) ==
    /\ Receiving(c)
    /\ \E ds \in {{d} : d \in subscriptions[c]} \cup {subscriptions[c]} :
           toFetch' = [toFetch EXCEPT ![c] = SignalsToFetch(c, ds)]
    /\ UNCHANGED <<monitor, current, phase, connections, routes, asking, opening,
                   toSubscribe, raised, fetched, toUnsubscribe, delivery>>

FetchValue(c, s) ==
    /\ s \in toFetch[c]
    /\ toFetch' = [toFetch EXCEPT ![c] = @ \ {s}]
    /\ fetched' = [fetched EXCEPT ![c][s] = latest[s[2]]]
    /\ UNCHANGED <<monitor, current, phase, connections, routes, asking, opening,
                   toSubscribe, raised, toUnsubscribe, delivery>>

\* To a client that cleanup has closed nothing is sent.
Send(c, s, v) ==
    seen' = IF c \in connections /\ v > seen[c][s] THEN [seen EXCEPT ![c][s] = v] ELSE seen

\* The values of a device are sent when all of them are there.
SendFetched(c, s) ==
    /\ \A r \in toFetch[c] : r[1] # s[1]
    /\ fetched[c][s] # NoValue
    /\ Send(c, s, fetched[c][s])
    /\ fetched' = [fetched EXCEPT ![c][s] = NoValue]
    /\ UNCHANGED <<monitor, current, phase, connections, routes, asking, opening,
                   toSubscribe, raised, toFetch, toUnsubscribe, broadcasts, outbox, lost, missed>>

-----------------------------------------------------------------------------
(* Unsubscribing and disconnecting                                         *)

\* Mistake: the PVs of a device without clients are kept.
LeaveDevicesKeepingPvs(c, ds) ==
    LET last == {d \in ds : deviceClients[d] # {} /\ deviceClients[d] \subseteq {c}}
        released == UNION {devicePvs[d] : d \in last}
        dropped == {pvCallback[p] : p \in released} \ {NoCallback}
    IN  /\ deviceClients' = [d \in Device |-> IF d \in ds THEN deviceClients[d] \ {c}
                                              ELSE deviceClients[d]]
        /\ pvCallback' = [p \in PV |-> IF p \in released THEN NoCallback ELSE pvCallback[p]]
        /\ toUnsubscribe' = [toUnsubscribe EXCEPT ![c] = dropped]
        /\ lost' = {cb \in lost : DeviceOf(cb) \notin last}
        /\ missed' = {e \in missed : e[1] # c \/ e[2][1] \notin ds}
        /\ UNCHANGED <<devicePvs, broadcasts, outbox, seen>>

\* The client leaves ds.  A device without clients loses its PVs, and each of
\* them whatever callback _pv_callbacks has for it, which the monitor is told
\* afterwards, from worker threads.
LeaveDevices(c, ds) ==
    LET last == {d \in ds : deviceClients[d] # {} /\ deviceClients[d] \subseteq {c}}
        released == UNION {devicePvs[d] : d \in last}
        dropped == {pvCallback[p] : p \in released} \ {NoCallback}
    IN  /\ deviceClients' = [d \in Device |-> IF d \in ds THEN deviceClients[d] \ {c}
                                              ELSE deviceClients[d]]
        /\ devicePvs' = [d \in Device |-> IF d \in last THEN {} ELSE devicePvs[d]]
        /\ pvCallback' = [p \in PV |-> IF p \in released THEN NoCallback ELSE pvCallback[p]]
        /\ toUnsubscribe' = [toUnsubscribe EXCEPT ![c] = dropped]
        /\ lost' = {cb \in lost : DeviceOf(cb) \notin last}
        /\ missed' = {e \in missed : e[1] # c \/ e[2][1] \notin ds}
        /\ UNCHANGED <<broadcasts, outbox, seen>>

Unsubscribe(c, d) ==
    /\ Receiving(c)
    /\ subscriptions' = [subscriptions EXCEPT ![c] = @ \ {d}]
    /\ LeaveDevices(c, {d})
    /\ UNCHANGED <<monitor, current, phase, connections, asking, opening, toSubscribe,
                   raised, toFetch, fetched>>

Disconnect(c) ==
    /\ Receiving(c)
    /\ phase' = [phase EXCEPT ![c] = "left"]
    /\ connections' = connections \ {c}
    /\ subscriptions' = [subscriptions EXCEPT ![c] = {}]
    /\ LeaveDevices(c, subscriptions[c])
    /\ UNCHANGED <<monitor, current, asking, opening, toSubscribe, raised, toFetch,
                   fetched>>

UnsubscribeReturns(c, cb) ==
    /\ cb \in toUnsubscribe[c]
    /\ toUnsubscribe' = [toUnsubscribe EXCEPT ![c] = @ \ {cb}]
    /\ M!Release(PvOf(cb), cb)
    /\ UNCHANGED <<current, phase, connections, routes, asking, opening, toSubscribe,
                   raised, toFetch, fetched, delivery>>

\* cleanup, on shutdown
CloseAll ==
    /\ connections # {}
    /\ connections' = {}
    /\ UNCHANGED <<monitor, current, phase, routes, handler, delivery>>

-----------------------------------------------------------------------------
(* Updates                                                                 *)

\* The dispatcher calls a closure, which posts _broadcast_device_update.
CallCallback(cb) ==
    /\ M!Call(cb)
    /\ broadcasts' = broadcasts \cup {<<SignalOf(cb), valueCalls[cb]>>}
    /\ UNCHANGED <<current, phase, connections, routes, handler, outbox, seen, lost, missed>>

\* The clients of the device are copied, then sent to in turn.
StartBroadcast(s, v) ==
    /\ <<s, v>> \in broadcasts
    /\ broadcasts' = broadcasts \ {<<s, v>>}
    /\ outbox' = outbox \cup (deviceClients[s[1]] \X {s} \X {v})
    /\ UNCHANGED <<monitor, current, phase, connections, routes, handler, seen, lost, missed>>

SendBroadcast(c, s, v) ==
    /\ <<c, s, v>> \in outbox
    /\ outbox' = outbox \ {<<c, s, v>>}
    /\ Send(c, s, v)
    /\ UNCHANGED <<monitor, current, phase, connections, routes, handler, broadcasts, lost, missed>>

-----------------------------------------------------------------------------
(* The rest of the service, and the IOCs                                   *)

Sockets == <<phase, connections, routes, handler, delivery>>

\* GET /api/v1/pvs/{pv}/value subscribes without a callback.
HttpSubscribes(p) ==
    /\ \E v \in {current[p], NoValue} : M!Track(p, NoCallback, v)
    /\ UNCHANGED <<current, Sockets>>

\* Some get_value finds nothing cached and reads the signal.
GetValueReads(p) ==
    /\ M!ReadValue(p, current[p])
    /\ UNCHANGED <<current, Sockets>>

IocChanges(p) ==
    /\ current[p] < MaxVersion
    /\ current' = [current EXCEPT ![p] = @ + 1]
    /\ IF p \in tracked THEN M!Owe(p) ELSE UNCHANGED monitor
    /\ UNCHANGED Sockets

\* An event is handled; a PV is settled only by its newest value.
MonitorUpdates(p) ==
    /\ p \in owed
    /\ \E v \in 1 .. current[p] : M!Update(p, v) /\ (p \in owed' \/ v = current[p])
    /\ UNCHANGED <<current, Sockets>>

-----------------------------------------------------------------------------

HandlerStep(c) ==
    \/ DeviceNotFound(c)
    \/ EnterDevice(c)
    \/ \E cb \in Callback :
        SubscribeReturns(c, cb) \/ SubscribeRaises(c, cb) \/ UnsubscribeReturns(c, cb)
    \/ AnswerNotConnected(c)
    \/ OpenDevice(c)
    \/ \E s \in Signal : FetchValue(c, s) \/ SendFetched(c, s)

ClientRequest(c) ==
    \/ Connect(c)
    \/ \E d \in Device :
        Unsubscribe(c, d) \/ \E requires \in BOOLEAN : RequestDevice(c, d, requires)
    \/ Refresh(c)
    \/ Disconnect(c)

Delivery ==
    \/ \E cb \in Callback : CallCallback(cb)
    \/ \E s \in Signal, v \in Value :
        StartBroadcast(s, v) \/ \E c \in Client : SendBroadcast(c, s, v)

World ==
    \/ CloseAll
    \/ \E p \in PV :
        HttpSubscribes(p) \/ GetValueReads(p) \/ IocChanges(p) \/ MonitorUpdates(p)

Next ==
    \/ \E c \in Client : HandlerStep(c) \/ ClientRequest(c)
    \/ Delivery
    \/ World

Spec == Init /\ [][Next]_vars

-----------------------------------------------------------------------------
(* Properties                                                              *)

\* The four routing tables agree: a device routes exactly to the clients that
\* hold it, whatever was looked up, refused or failed meanwhile; it keeps its
\* PVs exactly as long as it has clients, and a PV has a callback of a device
\* it belongs to.
RoutesAgree ==
    /\ \A c \in Client, d \in Device : d \in subscriptions[c] <=> c \in deviceClients[d]
    /\ \A c \in Client : subscriptions[c] # {} => phase[c] = "open"
    /\ \A d \in Device : devicePvs[d] = IF deviceClients[d] = {} THEN {} ELSE Pvs[d]
    /\ \A p \in PV :
        IF pvCallback[p] = NoCallback
        THEN \A d \in Device : p \notin devicePvs[d]
        ELSE PvOf(pvCallback[p]) = p /\ deviceClients[DeviceOf(pvCallback[p])] # {}

\* max_subscriptions_per_client holds although it is checked before the HTTP
\* lookup and used after it.
CapHolds == Cap > 0 => \A c \in Client : Cardinality(subscriptions[c]) <= Cap

\* No callback is left in the monitor that nobody will remove, and none is
\* missing except those whose subscribe raised: a PV that stays silent though
\* its device is subscribed, with or without require_connection, is one that
\* failed to connect.
MonitorMatchesRoutes ==
    \A p \in PV :
        /\ \A cb \in callbacks[p] :
            cb = pvCallback[p] \/ \E c \in Client : cb \in toUnsubscribe[c]
        /\ pvCallback[p] # NoCallback =>
            \/ pvCallback[p] \in callbacks[p] \cup lost
            \/ \E c \in Client : pvCallback[p] \in toSubscribe[c]

\* Nothing is on its way to anybody.
AtRest ==
    /\ \A c \in Client : phase[c] = "open" => Receiving(c)
    /\ owed = {} /\ broadcasts = {} /\ outbox = {}
    /\ \A cb \in Callback : valueCalls[cb] = NoValue

\* Initial values and updates leave no gap: at rest a client was sent the value
\* the monitor has of every PV of its devices, unless the PV's subscribe raised,
\* its callback was not registered yet when the client joined, or the client was
\* answered "not_connected", which leaves it subscribed without current values.
NoGap ==
    AtRest => \A s \in Signal : \A c \in deviceClients[s[1]] \cap connections :
                (<<c, s>> \notin missed /\ pvCallback[s[2]] \notin lost /\ latest[s[2]] # NoValue)
                    => seen[c][s] >= latest[s[2]]

-----------------------------------------------------------------------------
(* A statement of the documentation that the code does not keep            *)

\* README.md:332, "Subscribes to all PVs of a device": a subscribed device has
\* a callback registered for each of its PVs, unless the subscribe raised or is
\* still under way.
AllPvsSubscribed ==
    \A c \in connections : Receiving(c) =>
        \A s \in Signal : s[1] \in subscriptions[c] =>
            \/ \E cb \in callbacks[s[2]] \cup lost : SignalOf(cb) = s
            \/ \E e \in Client, cb \in Callback : SignalOf(cb) = s /\ cb \in toSubscribe[e]

=============================================================================
