------------------------------ MODULE PvSocket ------------------------------
(***************************************************************************)
(* WebSocketManager (src/direct_control/monitoring/websocket_manager.py):  *)
(* the PV WebSocket.  Each client has one handler coroutine; all handlers  *)
(* and all broadcasts run on one event loop, and every section under the   *)
(* manager's asyncio lock is free of awaits, so it is one action.  The     *)
(* awaits between sections (worker threads, sends) are where the other     *)
(* coroutines, the worker threads and the dispatcher interleave.           *)
(*                                                                         *)
(* The PV monitor is the abstract Monitor, which PVMonitor implements.     *)
(* Connection updates, sends that fail or exceed the size limit, and the   *)
(* set/stop actions (module DirectControl) are left out, and so is ophyd   *)
(* refusing the very first registration of a signal (PVMonitor has it).    *)
(***************************************************************************)
EXTENDS Naturals, FiniteSets

CONSTANTS
    Client,        \* WebSocket clients, each connecting once (a fresh uuid)
    PV,            \* PV names the registry knows
    Copy,          \* distinguishes the closures made for one PV
    NoCallback,    \* Python's None
    Cap,           \* settings.max_subscriptions_per_client; 0 is no cap
    MaxVersion     \* bound: values an IOC goes through

ASSUME PVAssumption == IsFiniteSet(PV)
ASSUME CapAssumption == Cap \in Nat
ASSUME MaxVersionAssumption == MaxVersion \in Nat \ {0}

\* A closure of _make_pv_callback is bound to its PV.
Callback == PV \X Copy
PvOf(cb) == cb[1]

ASSUME NoCallbackAssumption == NoCallback \notin Callback

\* A PV's values in the order its IOC takes them; 0 is no value.
Value == 1 .. MaxVersion
NoValue == 0

VARIABLES
    tracked, callbacks, latest, owed, valueCalls,     \* the PV monitor
    current,        \* the IOCs' values
    phase,          \* of each client: "new", "open", "left"
    connections,    \* clients in _connections
    subscriptions,  \* _subscriptions
    pvClients,      \* _pv_clients, {} for a missing key
    pvCallback,     \* _pv_callbacks, NoCallback for a missing key
    probing,        \* subscribeSafely under way: {} or {the PV}
    toSubscribe, failed,   \* subscribe_pvs: thread calls left; raised, not handled
    toFetch, fetched,      \* values still to get; gotten and not sent
    toUnsubscribe,         \* thread calls left of unsubscribe_pvs or disconnect
    broadcasts,     \* posted to the loop and not started: <<pv, value>>
    outbox,         \* sends left of started broadcasts: <<client, pv, value>>
    seen,           \* the newest value each client was sent since it subscribed
    early           \* history: <<client, pv>> that joined before the PV's
                    \* first client had its callback registered

M == INSTANCE Monitor

monitor == <<tracked, callbacks, latest, owed, valueCalls>>
routes == <<subscriptions, pvClients, pvCallback>>
handler == <<probing, toSubscribe, failed, toFetch, fetched, toUnsubscribe>>
delivery == <<broadcasts, outbox, seen, early>>
vars == <<monitor, current, phase, connections, routes, handler, delivery>>

TypeOK ==
    /\ M!TypeInvariant
    /\ current \in [PV -> Value]
    /\ phase \in [Client -> {"new", "open", "left"}]
    /\ connections \subseteq Client
    /\ subscriptions \in [Client -> SUBSET PV]
    /\ pvClients \in [PV -> SUBSET Client]
    /\ pvCallback \in [PV -> Callback \cup {NoCallback}]
    /\ probing \in [Client -> SUBSET PV]
    /\ toSubscribe \in [Client -> SUBSET Callback]
    /\ failed \in [Client -> SUBSET PV]
    /\ toFetch \in [Client -> SUBSET PV]
    /\ fetched \in [Client -> [PV -> Value \cup {NoValue}]]
    /\ toUnsubscribe \in [Client -> SUBSET Callback]
    /\ broadcasts \subseteq PV \X Value
    /\ outbox \subseteq Client \X PV \X Value
    /\ seen \in [Client -> [PV -> Value \cup {NoValue}]]
    /\ early \subseteq Client \X PV

Init ==
    /\ M!Init
    /\ current = [p \in PV |-> 1]
    /\ phase = [c \in Client |-> "new"]
    /\ connections = {}
    /\ subscriptions = [c \in Client |-> {}]
    /\ pvClients = [p \in PV |-> {}]
    /\ pvCallback = [p \in PV |-> NoCallback]
    /\ probing = [c \in Client |-> {}]
    /\ toSubscribe = [c \in Client |-> {}]
    /\ failed = [c \in Client |-> {}]
    /\ toFetch = [c \in Client |-> {}]
    /\ fetched = [c \in Client |-> [p \in PV |-> NoValue]]
    /\ toUnsubscribe = [c \in Client |-> {}]
    /\ broadcasts = {}
    /\ outbox = {}
    /\ seen = [c \in Client |-> [p \in PV |-> NoValue]]
    /\ early = {}

\* The handler of c is back in receive_json.
Receiving(c) ==
    /\ phase[c] = "open"
    /\ probing[c] = {} /\ toSubscribe[c] = {} /\ failed[c] = {}
    /\ toFetch[c] = {} /\ toUnsubscribe[c] = {}
    /\ \A p \in PV : fetched[c][p] = NoValue

-----------------------------------------------------------------------------
(* Connecting and subscribing                                              *)

Connect(c) ==
    /\ phase[c] = "new"
    /\ phase' = [phase EXCEPT ![c] = "open"]
    /\ connections' = connections \cup {c}
    /\ UNCHANGED <<monitor, current, routes, handler, delivery>>

\* Mistake: only what is already subscribed counts.
WithinCapNow(c, requested) ==
    Cap = 0 \/ Cardinality(subscriptions[c]) <= Cap

WithinCap(c, requested) ==
    Cap = 0 \/ Cardinality(subscriptions[c]) + requested <= Cap

\* A closure that nobody holds yet.
Fresh(cb) ==
    /\ cb # pvCallback[PvOf(cb)]
    /\ cb \notin callbacks[PvOf(cb)]
    /\ valueCalls[cb] = NoValue
    /\ \A c \in Client : cb \notin toSubscribe[c] \cup toUnsubscribe[c]

\* The locked part of subscribe_pvs: the client is entered for every PV, and
\* for the PVs it is the first client of, a callback is made to be subscribed.
EnterSubscriptions(c, ps) ==
    LET new == {p \in ps : pvClients[p] = {}}
    IN  /\ subscriptions' = [subscriptions EXCEPT ![c] = @ \cup ps]
        /\ pvClients' = [p \in PV |-> IF p \in ps THEN pvClients[p] \cup {c} ELSE pvClients[p]]
        /\ \E copy \in [new -> Copy] :
            /\ \A p \in new : Fresh(<<p, copy[p]>>)
            /\ pvCallback' = [p \in PV |-> IF p \in new THEN <<p, copy[p]>> ELSE pvCallback[p]]
            /\ toSubscribe' = [toSubscribe EXCEPT ![c] = {<<p, copy[p]>> : p \in new}]
        /\ toFetch' = [toFetch EXCEPT ![c] = ps]
        /\ seen' = [seen EXCEPT ![c] =
                      [p \in PV |-> IF p \in ps /\ c \notin pvClients[p] THEN NoValue ELSE @[p]]]
        /\ early' = LET joined == {p \in ps : c \notin pvClients[p]}
                        unready == {p \in joined \ new : pvCallback[p] \notin callbacks[p]}
                    IN  (early \ ({c} \X joined)) \cup ({c} \X unready)
        /\ UNCHANGED <<failed, fetched, toUnsubscribe, broadcasts, outbox>>

\* subscribe and subscribeReadOnly; ps are the requested PVs that are valid.
Subscribe(c, ps) ==
    /\ Receiving(c)
    /\ WithinCap(c, Cardinality(ps))
    /\ c \in connections
    /\ EnterSubscriptions(c, ps)
    /\ UNCHANGED <<monitor, current, phase, connections, probing>>

\* One worker-thread call of PVMonitor.subscribe made by subscribe_pvs.
SubscribeReturns(c, cb) ==
    LET p == PvOf(cb) IN
    /\ cb \in toSubscribe[c]
    /\ failed[c] = {}
    /\ toSubscribe' = [toSubscribe EXCEPT ![c] = @ \ {cb}]
    /\ \/ M!Join(p, cb)
       \/ \E v \in {current[p], NoValue} : M!Track(p, cb, v)
    /\ UNCHANGED <<current, phase, connections, routes, probing, failed, toFetch,
                   fetched, toUnsubscribe, delivery>>

SubscribeRaises(c, cb) ==
    LET p == PvOf(cb) IN
    /\ cb \in toSubscribe[c]
    /\ failed[c] = {}
    /\ toSubscribe' = [toSubscribe EXCEPT ![c] = @ \ {cb}]
    /\ failed' = [failed EXCEPT ![c] = {p}]
    /\ \/ p \notin tracked /\ UNCHANGED monitor
       \/ \E v \in {current[p], NoValue} : M!TrackAndRaise(p, v) /\ p \in owed'
    /\ UNCHANGED <<current, phase, connections, routes, probing, toFetch, fetched,
                   toUnsubscribe, delivery>>

\* Mistake: the clients of the PV are kept.
HandleFailureKeepsClients(c) ==
    /\ failed[c] # {}
    /\ failed' = [failed EXCEPT ![c] = {}]
    /\ pvCallback' = [p \in PV |-> IF p \in failed[c] THEN NoCallback ELSE pvCallback[p]]
    /\ UNCHANGED <<monitor, current, phase, connections, subscriptions, pvClients,
                   probing, toSubscribe, toFetch, fetched, toUnsubscribe, delivery>>

\* Its handler: the PV loses its callback and all the clients it has by now,
\* none of whose subscriptions change.
HandleFailure(c) ==
    /\ failed[c] # {}
    /\ failed' = [failed EXCEPT ![c] = {}]
    /\ pvCallback' = [p \in PV |-> IF p \in failed[c] THEN NoCallback ELSE pvCallback[p]]
    /\ pvClients' = [p \in PV |-> IF p \in failed[c] THEN {} ELSE pvClients[p]]
    /\ UNCHANGED <<monitor, current, phase, connections, subscriptions, probing,
                   toSubscribe, toFetch, fetched, toUnsubscribe, delivery>>

\* Mistake: the values are fetched while the subscribes still run.
FetchValueEarly(c, p) ==
    /\ p \in toFetch[c]
    /\ toFetch' = [toFetch EXCEPT ![c] = @ \ {p}]
    /\ fetched' = [fetched EXCEPT ![c][p] = latest[p]]
    /\ UNCHANGED <<monitor, current, phase, connections, routes, probing,
                   toSubscribe, failed, toUnsubscribe, delivery>>

\* The current values, fetched in parallel threads once every subscribe is
\* done and sent one by one once every fetch is.
FetchValue(c, p) ==
    /\ toSubscribe[c] = {} /\ failed[c] = {}
    /\ p \in toFetch[c]
    /\ toFetch' = [toFetch EXCEPT ![c] = @ \ {p}]
    /\ fetched' = [fetched EXCEPT ![c][p] = latest[p]]
    /\ UNCHANGED <<monitor, current, phase, connections, routes, probing,
                   toSubscribe, failed, toUnsubscribe, delivery>>

\* _send_to_client; a client that is no longer in _connections is skipped.
Send(c, p, v) ==
    seen' = IF c \in connections /\ v > seen[c][p]
            THEN [seen EXCEPT ![c][p] = v] ELSE seen

SendFetched(c, p) ==
    /\ toFetch[c] = {}
    /\ fetched[c][p] # NoValue
    /\ Send(c, p, fetched[c][p])
    /\ fetched' = [fetched EXCEPT ![c][p] = NoValue]
    /\ UNCHANGED <<monitor, current, phase, connections, routes, probing,
                   toSubscribe, failed, toFetch, toUnsubscribe, broadcasts, outbox, early>>

Refresh(c) ==
    /\ Receiving(c)
    /\ subscriptions[c] # {}
    /\ \E ps \in {{p} : p \in subscriptions[c]} \cup {subscriptions[c]} :
           toFetch' = [toFetch EXCEPT ![c] = ps]
    /\ UNCHANGED <<monitor, current, phase, connections, routes, probing,
                   toSubscribe, failed, fetched, toUnsubscribe, delivery>>

-----------------------------------------------------------------------------
(* subscribeSafely                                                         *)

SubscribeSafely(c, p) ==
    /\ Receiving(c)
    /\ WithinCap(c, 1)
    /\ probing' = [probing EXCEPT ![c] = {p}]
    /\ UNCHANGED <<monitor, current, phase, connections, routes, toSubscribe, failed,
                   toFetch, fetched, toUnsubscribe, delivery>>

\* is_connected said no: the PV is subscribed without a callback.
ProbeConnects(c, p) ==
    /\ p \in probing[c]
    /\ \E v \in {current[p], NoValue} : M!Track(p, NoCallback, v)
    /\ UNCHANGED <<current, phase, connections, routes, handler, delivery>>

\* The PV has a value: subscribe_pvs proper.
ProbeAccepts(c, p) ==
    /\ p \in probing[c]
    /\ latest[p] # NoValue
    /\ probing' = [probing EXCEPT ![c] = {}]
    /\ IF c \in connections THEN EnterSubscriptions(c, {p})
       ELSE UNCHANGED <<routes, toSubscribe, failed, toFetch, fetched, toUnsubscribe, delivery>>
    /\ UNCHANGED <<monitor, current, phase, connections>>

\* The subscribe raised, or there is no value of a connected signal: an error is
\* sent, and a signal made for the probe stays without callbacks.
ProbeRejects(c, p) ==
    /\ p \in probing[c]
    /\ probing' = [probing EXCEPT ![c] = {}]
    /\ UNCHANGED <<monitor, current, phase, connections, routes, toSubscribe, failed,
                   toFetch, fetched, toUnsubscribe, delivery>>

-----------------------------------------------------------------------------
(* Unsubscribing and disconnecting                                         *)

\* Mistake: a PV the client never had counts as one it was the last client of.
LeavePVsUnasked(c, ps) ==
    LET last == {p \in ps : pvClients[p] \subseteq {c}}
    IN  /\ pvClients' = [p \in PV |-> IF p \in ps THEN pvClients[p] \ {c} ELSE pvClients[p]]
        /\ pvCallback' = [p \in PV |-> IF p \in last THEN NoCallback ELSE pvCallback[p]]
        /\ toUnsubscribe' = [toUnsubscribe EXCEPT ![c] = {pvCallback[p] : p \in last}]
        /\ early' = early \ ({c} \X ps)
        /\ UNCHANGED <<broadcasts, outbox, seen>>

\* Mistake: the last client takes the routes, and the monitor is not told.
LeavePVsSilently(c, ps) ==
    LET last == {p \in ps : pvClients[p] # {} /\ pvClients[p] \subseteq {c}}
    IN  /\ pvClients' = [p \in PV |-> IF p \in ps THEN pvClients[p] \ {c} ELSE pvClients[p]]
        /\ pvCallback' = [p \in PV |-> IF p \in last THEN NoCallback ELSE pvCallback[p]]
        /\ early' = early \ ({c} \X ps)
        /\ UNCHANGED <<toUnsubscribe, broadcasts, outbox, seen>>

\* The client leaves ps; a PV without clients loses its callback, which the
\* monitor is told afterwards, from worker threads.
LeavePVs(c, ps) ==
    LET last == {p \in ps : pvClients[p] # {} /\ pvClients[p] \subseteq {c}}
    IN  /\ pvClients' = [p \in PV |-> IF p \in ps THEN pvClients[p] \ {c} ELSE pvClients[p]]
        /\ pvCallback' = [p \in PV |-> IF p \in last THEN NoCallback ELSE pvCallback[p]]
        /\ toUnsubscribe' = [toUnsubscribe EXCEPT ![c] = {pvCallback[p] : p \in last}]
        /\ early' = early \ ({c} \X ps)
        /\ UNCHANGED <<broadcasts, outbox, seen>>

Unsubscribe(c, ps) ==
    /\ Receiving(c)
    /\ subscriptions' = [subscriptions EXCEPT ![c] = @ \ ps]
    /\ LeavePVs(c, ps)
    /\ UNCHANGED <<monitor, current, phase, connections, probing, toSubscribe, failed,
                   toFetch, fetched>>

\* The peer is gone, or receive_json raises after close_all.
Disconnect(c) ==
    /\ Receiving(c)
    /\ phase' = [phase EXCEPT ![c] = "left"]
    /\ connections' = connections \ {c}
    /\ subscriptions' = [subscriptions EXCEPT ![c] = {}]
    /\ LeavePVs(c, subscriptions[c])
    /\ UNCHANGED <<monitor, current, probing, toSubscribe, failed, toFetch, fetched>>

\* Mistake: the thread call is made for no effect.
UnsubscribeForgotten(c, cb) ==
    /\ cb \in toUnsubscribe[c]
    /\ toUnsubscribe' = [toUnsubscribe EXCEPT ![c] = @ \ {cb}]
    /\ UNCHANGED <<monitor, current, phase, connections, routes, probing, toSubscribe,
                   failed, toFetch, fetched, delivery>>

UnsubscribeReturns(c, cb) ==
    /\ cb \in toUnsubscribe[c]
    /\ toUnsubscribe' = [toUnsubscribe EXCEPT ![c] = @ \ {cb}]
    /\ M!Release(PvOf(cb), cb)
    /\ UNCHANGED <<current, phase, connections, routes, probing, toSubscribe, failed,
                   toFetch, fetched, delivery>>

\* Shutdown: _connections is emptied and the sockets are closed.
CloseAll ==
    /\ connections # {}
    /\ connections' = {}
    /\ UNCHANGED <<monitor, current, phase, routes, handler, delivery>>

-----------------------------------------------------------------------------
(* Updates                                                                 *)

\* The dispatcher calls a closure, which posts _broadcast_update to the loop.
CallCallback(cb) ==
    /\ M!Call(cb)
    /\ broadcasts' = broadcasts \cup {<<PvOf(cb), valueCalls[cb]>>}
    /\ UNCHANGED <<current, phase, connections, routes, handler, outbox, seen, early>>

\* _broadcast_update: the clients of the PV are copied, then sent to in turn.
StartBroadcast(p, v) ==
    /\ <<p, v>> \in broadcasts
    /\ broadcasts' = broadcasts \ {<<p, v>>}
    /\ outbox' = outbox \cup (pvClients[p] \X {p} \X {v})
    /\ UNCHANGED <<monitor, current, phase, connections, routes, handler, seen, early>>

SendBroadcast(c, p, v) ==
    /\ <<c, p, v>> \in outbox
    /\ outbox' = outbox \ {<<c, p, v>>}
    /\ Send(c, p, v)
    /\ UNCHANGED <<monitor, current, phase, connections, routes, handler, broadcasts, early>>

-----------------------------------------------------------------------------
(* The rest of the service and the IOCs                                    *)

Rest == <<phase, connections, routes, handler, delivery>>

\* GET /pv/{pv}/monitored/value subscribes without a callback.
HttpSubscribes(p) ==
    /\ \E v \in {current[p], NoValue} : M!Track(p, NoCallback, v)
    /\ UNCHANGED <<current, Rest>>

\* Some get_value finds nothing cached and reads the signal.
GetValueReads(p) ==
    /\ M!ReadValue(p, current[p])
    /\ UNCHANGED <<current, Rest>>

IocChanges(p) ==
    /\ current[p] < MaxVersion
    /\ current' = [current EXCEPT ![p] = @ + 1]
    /\ IF p \in tracked THEN M!Owe(p) ELSE UNCHANGED monitor
    /\ UNCHANGED Rest

\* An event is handled; a PV is settled only by its newest value (CacheConverges).
MonitorUpdates(p) ==
    /\ p \in owed
    /\ \E v \in 1 .. current[p] : M!Update(p, v) /\ (p \in owed' \/ v = current[p])
    /\ UNCHANGED <<current, Rest>>

-----------------------------------------------------------------------------

HandlerStep(c) ==
    \/ \E cb \in Callback :
        SubscribeReturns(c, cb) \/ SubscribeRaises(c, cb) \/ UnsubscribeReturns(c, cb)
    \/ HandleFailure(c)
    \/ \E p \in PV : FetchValue(c, p) \/ SendFetched(c, p)
    \/ \E p \in PV : ProbeConnects(c, p) \/ ProbeAccepts(c, p) \/ ProbeRejects(c, p)

ClientRequest(c) ==
    \/ Connect(c)
    \/ \E ps \in SUBSET PV \ {{}} : Subscribe(c, ps) \/ Unsubscribe(c, ps)
    \/ \E p \in PV : SubscribeSafely(c, p)
    \/ Refresh(c)
    \/ Disconnect(c)

Delivery ==
    \/ \E cb \in Callback : CallCallback(cb)
    \/ \E p \in PV, v \in Value :
        StartBroadcast(p, v) \/ \E c \in Client : SendBroadcast(c, p, v)

World ==
    \/ CloseAll
    \/ \E p \in PV : HttpSubscribes(p) \/ GetValueReads(p) \/ IocChanges(p) \/ MonitorUpdates(p)

Next ==
    \/ \E c \in Client : HandlerStep(c) \/ ClientRequest(c)
    \/ Delivery
    \/ World

\* A handler whose worker thread returned is resumed by the event loop.
Fairness == \A c \in Client : WF_vars(HandlerStep(c))

Spec == Init /\ [][Next]_vars /\ Fairness

-----------------------------------------------------------------------------
(* Properties                                                              *)

\* _subscriptions, _pv_clients and _pv_callbacks agree: a PV routes only to
\* clients that hold the subscription, and has a callback as long as it has
\* clients, through every failed subscribe and every disconnect.
RoutesAgree ==
    \A p \in PV :
        /\ \A c \in pvClients[p] : phase[c] = "open" /\ p \in subscriptions[c]
        /\ pvClients[p] # {} <=> pvCallback[p] # NoCallback

\* max_subscriptions_per_client holds although it is checked in one locked
\* section and used in another.
CapHolds == Cap > 0 => \A c \in Client : Cardinality(subscriptions[c]) <= Cap

\* No callback is left in the monitor that nobody will remove, and none is
\* missing: the monitor has exactly the routed callbacks, up to the thread
\* calls under way.
MonitorMatchesRoutes ==
    \A p \in PV :
        /\ \A cb \in callbacks[p] :
            cb = pvCallback[p] \/ \E c \in Client : cb \in toUnsubscribe[c]
        /\ pvCallback[p] # NoCallback =>
            \/ pvCallback[p] \in callbacks[p]
            \/ \E c \in pvClients[p] : pvCallback[p] \in toSubscribe[c] \/ p \in failed[c]

\* Nothing is on its way to anybody.
AtRest ==
    /\ \A c \in Client : phase[c] = "open" => Receiving(c)
    /\ owed = {} /\ broadcasts = {} /\ outbox = {}
    /\ \A cb \in Callback : valueCalls[cb] = NoValue

UpToDate(c, p) == latest[p] # NoValue => seen[c][p] >= latest[p]

\* Initial value and updates leave no gap: at rest, every client a PV routes to
\* was sent the value the monitor has, if it was the PV's first client or joined
\* after the first one's callback was registered, however its subscribe
\* interleaved with updates and with the other clients.
NoGap ==
    AtRest => \A p \in PV : \A c \in pvClients[p] \cap connections :
                <<c, p>> \notin early => UpToDate(c, p)

\* README.md:327: the callback of a PV that its last client has left, or that a
\* new first client has replaced meanwhile, is removed in the end, and the signal
\* goes with it unless somebody else has a callback there by then.  (A signal on
\* which no callback was ever registered, that of a rejected probe, of a monitored
\* read or of a subscribe that raised, is released by nobody.)
LastClientReleases ==
    \A cb \in Callback :
        LET p == PvOf(cb) IN
        (cb \in callbacks[p] /\ pvCallback[p] # cb)
            ~> (cb \notin callbacks[p] /\ (callbacks[p] = {} => p \notin tracked))

-----------------------------------------------------------------------------
(* A statement of the tests that the code does not keep                    *)

\* tests/test_epics_integration.py:80, "Subscribe via WebSocket; receive the
\* subscribed ack and an initial update", of every client.
InitialUpdateReceived ==
    AtRest => \A p \in PV : \A c \in pvClients[p] \cap connections : UpToDate(c, p)

=============================================================================
