----------------------------- MODULE PVMonitor -----------------------------
(***************************************************************************)
(* PVMonitorManager (src/direct_control/monitoring/pv_monitor.py): the one *)
(* object through which both WebSocket managers and the HTTP monitored     *)
(* read watch EPICS process variables.                                     *)
(*                                                                         *)
(* Its state is shared by four kinds of threads under one RLock: worker    *)
(* threads running subscribe / unsubscribe / get_value, ophyd's "monitor"  *)
(* dispatcher running _handle_value_update, ophyd's "metadata" dispatcher  *)
(* running _handle_meta_update, and shutdown running cleanup.  A critical  *)
(* section is one action, except subscribe: connecting and registering are *)
(* two actions with the lock held in between, because the IOC goes on.     *)
(* Callbacks are called, and signals destroyed, after the lock is dropped. *)
(*                                                                         *)
(* External parts, modelled from how this code uses them: the IOC, ophyd's *)
(* signals (an event per live signal, an initial event at registration)    *)
(* and its two dispatchers, each one thread over a FIFO queue; what they   *)
(* have queued survives destroy().  Only the order of one PV's events      *)
(* matters here, so a dispatcher has a queue per PV.                       *)
(***************************************************************************)
EXTENDS Naturals, Sequences, FiniteSets

CONSTANTS
    PV,          \* process variable names
    Callback,    \* callback closures; each subscription makes a fresh one
    Signal,      \* identities of EpicsSignal objects
    Value,       \* PV values
    NoPV, NoCallback, NoSignal, NoValue,   \* Python's None
    BufferSize,  \* settings.pv_buffer_size
    MaxPending   \* bound: the IOC is quiet while this many events are queued

ASSUME BufferSizeAssumption == BufferSize \in Nat \ {0}
ASSUME SignalAssumption == IsFiniteSet(Signal)
ASSUME NoneAssumption ==
    /\ NoPV \notin PV
    /\ NoCallback \notin Callback
    /\ NoSignal \notin Signal
    /\ NoValue \notin Value

\* The connection states of a PV, and none recorded yet.
Connection == {"connected", "disconnected"}
Unknown == "unknown"

\* What a connection update says; a value update says a value and connected=True.
NoCall == [connected |-> Unknown, value |-> NoValue]

VARIABLES
    iocValue, online,     \* the IOC: current values and the PVs it serves now
    live,                 \* live[s]: the PV of an undestroyed signal, or NoPV
    feeds,                \* feeds[s]: the event types s is subscribed to
    valueQ, metaQ,        \* events queued in ophyd's two dispatchers
    opening, joining,     \* the subscribe that holds the lock, if any
    signals, callbacks, connStatus, latest, buffers,    \* the manager
    valueCalls, metaCalls,   \* calls the dispatchers still have to make
    seenValue, seenConn,     \* what each callback was last told
    overtaken                \* history: callbacks that are told of a connection
                             \* with an older value than the cached one, last

ioc == <<iocValue, online>>
ophyd == <<live, feeds, valueQ, metaQ>>
lock == <<opening, joining>>
manager == <<signals, callbacks, connStatus, latest, buffers>>
calls == <<valueCalls, metaCalls, seenValue, seenConn, overtaken>>
vars == <<ioc, ophyd, lock, manager, calls>>

-----------------------------------------------------------------------------

TypeOK ==
    /\ iocValue \in [PV -> Value]
    /\ online \subseteq PV
    /\ live \in [Signal -> PV \cup {NoPV}]
    /\ feeds \in [Signal -> SUBSET {"value", "meta"}]
    /\ valueQ \in [PV -> Seq(Value)]
    /\ metaQ \in [PV -> Seq(Connection)]
    /\ opening \in PV \cup {NoPV}
    /\ joining \in Callback \cup {NoCallback}
    /\ signals \in [PV -> Signal \cup {NoSignal}]
    /\ callbacks \in [PV -> SUBSET Callback]
    /\ connStatus \in [PV -> Connection \cup {Unknown}]
    /\ latest \in [PV -> Value \cup {NoValue}]
    /\ buffers \in [PV -> Seq(Value)]
    /\ valueCalls \in [Callback -> Value \cup {NoValue}]
    /\ metaCalls \in [Callback -> [connected : Connection \cup {Unknown},
                                 value : Value \cup {NoValue}]]
    /\ seenValue \in [Callback -> Value \cup {NoValue}]
    /\ seenConn \in [Callback -> Connection \cup {Unknown}]
    /\ overtaken \subseteq Callback

Init ==
    /\ iocValue \in [PV -> Value]
    /\ online \in SUBSET PV
    /\ live = [s \in Signal |-> NoPV]
    /\ feeds = [s \in Signal |-> {}]
    /\ valueQ = [p \in PV |-> <<>>]
    /\ metaQ = [p \in PV |-> <<>>]
    /\ opening = NoPV
    /\ joining = NoCallback
    /\ signals = [p \in PV |-> NoSignal]
    /\ callbacks = [p \in PV |-> {}]
    /\ connStatus = [p \in PV |-> Unknown]
    /\ latest = [p \in PV |-> NoValue]
    /\ buffers = [p \in PV |-> <<>>]
    /\ valueCalls = [c \in Callback |-> NoValue]
    /\ metaCalls = [c \in Callback |-> NoCall]
    /\ seenValue = [c \in Callback |-> NoValue]
    /\ seenConn = [c \in Callback |-> Unknown]
    /\ overtaken = {}

Free == opening = NoPV

\* The connection state ophyd sees.
Link(p) == IF p \in online THEN "connected" ELSE "disconnected"

\* deque(maxlen=BufferSize).append
Push(buffer, v) ==
    IF Len(buffer) < BufferSize THEN Append(buffer, v) ELSE Append(Tail(buffer), v)

\* One event for every live signal of p that is subscribed to that event type.
Feeding(p, kind) == {s \in Signal : live[s] = p /\ kind \in feeds[s]}
Emit(queue, p, kind, event) ==
    [queue EXCEPT ![p] = @ \o [i \in 1 .. Cardinality(Feeding(p, kind)) |-> event]]

\* The metadata dispatcher has still to call c.
Telling(c) == metaCalls[c].connected # Unknown

\* A closure made for this subscription: registered nowhere, called by no one.
Fresh(cb) ==
    /\ \A p \in PV : cb \notin callbacks[p]
    /\ valueCalls[cb] = NoValue
    /\ ~Telling(cb)

\* Mistake: appends None when no callback was given.
RegisterAlways(p, cb) ==
    /\ callbacks' = [callbacks EXCEPT ![p] = @ \cup {cb}]
    /\ seenValue' = [c \in Callback |-> IF c = cb THEN NoValue ELSE seenValue[c]]
    /\ seenConn' = [c \in Callback |-> IF c = cb THEN Unknown ELSE seenConn[c]]
    /\ overtaken' = overtaken \ {cb}

\* callbacks[p].append(cb), if a callback was given
Register(p, cb) ==
    IF cb = NoCallback THEN UNCHANGED <<callbacks, seenValue, seenConn, overtaken>>
    ELSE /\ callbacks' = [callbacks EXCEPT ![p] = @ \cup {cb}]
         /\ seenValue' = [seenValue EXCEPT ![cb] = NoValue]
         /\ seenConn' = [seenConn EXCEPT ![cb] = Unknown]
         /\ overtaken' = overtaken \ {cb}

-----------------------------------------------------------------------------
(* subscribe                                                               *)

\* The PV is new: connect within 5 s, record the signal, try the initial read.
\* (A connection that times out raises PVNotFoundError and changes nothing.)
SubscribeOpen(p, cb) ==
    /\ Free
    /\ signals[p] = NoSignal
    /\ p \in online
    /\ cb # NoCallback => Fresh(cb)
    /\ Len(valueQ[p]) <= MaxPending /\ Len(metaQ[p]) <= MaxPending
    /\ \E s \in Signal :
        /\ live[s] = NoPV
        /\ live' = [live EXCEPT ![s] = p]
        /\ signals' = [signals EXCEPT ![p] = s]
    /\ opening' = p
    /\ joining' = cb
    /\ connStatus' = [connStatus EXCEPT ![p] = "connected"]
    /\ \/ /\ latest' = [latest EXCEPT ![p] = iocValue[p]]
          /\ buffers' = [buffers EXCEPT ![p] = Push(@, iocValue[p])]
       \/ UNCHANGED <<latest, buffers>>           \* initial_value_read_failed
    /\ UNCHANGED <<ioc, feeds, valueQ, metaQ, callbacks, calls>>

\* Mistake: the value registration asks for no initial event (run=False).
SubscribeFinishNoValue(p) ==
    /\ opening = p
    /\ feeds' = [feeds EXCEPT ![signals[p]] = {"value", "meta"}]
    /\ metaQ' = [metaQ EXCEPT ![p] = Append(@, Link(p))]
    /\ Register(p, joining)
    /\ opening' = NoPV
    /\ joining' = NoCallback
    /\ UNCHANGED <<ioc, live, valueQ, signals, connStatus, latest, buffers,
                   valueCalls, metaCalls>>

\* Mistake: the metadata registration gets no initial event.
SubscribeFinishNoMeta(p) ==
    /\ opening = p
    /\ feeds' = [feeds EXCEPT ![signals[p]] = {"value", "meta"}]
    /\ valueQ' = [valueQ EXCEPT ![p] = IF p \in online THEN Append(@, iocValue[p]) ELSE @]
    /\ Register(p, joining)
    /\ opening' = NoPV
    /\ joining' = NoCallback
    /\ UNCHANGED <<ioc, live, metaQ, signals, connStatus, latest, buffers,
                   valueCalls, metaCalls>>

\* Register for both event types; ophyd queues the current value, if there is
\* one, and the current connection state.  Append the callback and unlock.
SubscribeFinish(p) ==
    /\ opening = p
    /\ feeds' = [feeds EXCEPT ![signals[p]] = {"value", "meta"}]
    /\ valueQ' = [valueQ EXCEPT ![p] = IF p \in online THEN Append(@, iocValue[p]) ELSE @]
    /\ metaQ' = [metaQ EXCEPT ![p] = Append(@, Link(p))]
    /\ Register(p, joining)
    /\ opening' = NoPV
    /\ joining' = NoCallback
    /\ UNCHANGED <<ioc, live, signals, connStatus, latest, buffers,
                   valueCalls, metaCalls>>

\* A registration raises: PVNotFoundError, no callback, but the signal stays
\* in _signals with the registrations already made.
SubscribeFail(p) ==
    /\ opening = p
    /\ \/ UNCHANGED <<feeds, valueQ>>
       \/ /\ feeds' = [feeds EXCEPT ![signals[p]] = {"value"}]
          /\ valueQ' = [valueQ EXCEPT ![p] = IF p \in online THEN Append(@, iocValue[p]) ELSE @]
    /\ opening' = NoPV
    /\ joining' = NoCallback
    /\ UNCHANGED <<ioc, live, metaQ, manager, calls>>

\* The PV is already monitored: only the callback is added.
SubscribeJoin(p, cb) ==
    /\ Free
    /\ signals[p] # NoSignal
    /\ cb # NoCallback
    /\ Fresh(cb)
    /\ Register(p, cb)
    /\ UNCHANGED <<ioc, ophyd, lock, signals, connStatus, latest, buffers,
                   valueCalls, metaCalls>>

-----------------------------------------------------------------------------
(* The two dispatcher threads                                              *)

ValueThreadIdle == \A c \in Callback : valueCalls[c] = NoValue
MetaThreadIdle == \A c \in Callback : ~Telling(c)

\* The value v of p is to be passed on to the callbacks copied now.
PassOn(p, v) ==
    /\ valueCalls' = [c \in Callback |-> IF c \in callbacks[p] THEN v ELSE NoValue]
    /\ overtaken' = (overtaken \ callbacks[p])
                       \cup {c \in callbacks[p] : Telling(c) /\ metaCalls[c].value # v}

\* Mistake: an event of a PV no longer monitored is cached all the same.
HandleValueUnguarded(p) ==
    /\ Free
    /\ ValueThreadIdle
    /\ valueQ[p] # <<>>
    /\ valueQ' = [valueQ EXCEPT ![p] = Tail(@)]
    /\ latest' = [latest EXCEPT ![p] = Head(valueQ[p])]
    /\ buffers' = [buffers EXCEPT ![p] = Push(@, Head(valueQ[p]))]
    /\ PassOn(p, Head(valueQ[p]))
    /\ UNCHANGED <<ioc, live, feeds, metaQ, lock, signals, callbacks, connStatus,
                   metaCalls, seenValue, seenConn>>

\* Mistake: a value equal to the cached one is not passed on.
HandleValueSkipsRepeats(p) ==
    /\ Free
    /\ ValueThreadIdle
    /\ valueQ[p] # <<>>
    /\ valueQ' = [valueQ EXCEPT ![p] = Tail(@)]
    /\ LET v == Head(valueQ[p]) IN
       IF signals[p] = NoSignal \/ latest[p] = v
       THEN UNCHANGED <<latest, buffers, valueCalls, overtaken>>
       ELSE /\ latest' = [latest EXCEPT ![p] = v]
            /\ buffers' = [buffers EXCEPT ![p] = Push(@, v)]
            /\ PassOn(p, v)
    /\ UNCHANGED <<ioc, live, feeds, metaQ, lock, signals, callbacks, connStatus,
                   metaCalls, seenValue, seenConn>>

\* Mistake: a value that comes while the PV counts as disconnected is cached and
\* not passed on, for the reconnection is thought to bring it.
HandleValueQuietWhileDown(p) ==
    /\ Free
    /\ ValueThreadIdle
    /\ valueQ[p] # <<>>
    /\ valueQ' = [valueQ EXCEPT ![p] = Tail(@)]
    /\ LET v == Head(valueQ[p]) IN
       IF signals[p] = NoSignal
       THEN UNCHANGED <<latest, buffers, valueCalls, overtaken>>
       ELSE /\ latest' = [latest EXCEPT ![p] = v]
            /\ buffers' = [buffers EXCEPT ![p] = Push(@, v)]
            /\ IF connStatus[p] = "connected" THEN PassOn(p, v)
               ELSE UNCHANGED <<valueCalls, overtaken>>
    /\ UNCHANGED <<ioc, live, feeds, metaQ, lock, signals, callbacks, connStatus,
                   metaCalls, seenValue, seenConn>>

\* The locked part of _handle_value_update.
HandleValueUpdate(p) ==
    /\ Free
    /\ ValueThreadIdle
    /\ valueQ[p] # <<>>
    /\ valueQ' = [valueQ EXCEPT ![p] = Tail(@)]
    /\ LET v == Head(valueQ[p]) IN
       IF signals[p] = NoSignal
       THEN UNCHANGED <<latest, buffers, valueCalls, overtaken>>
       ELSE /\ latest' = [latest EXCEPT ![p] = v]
            /\ buffers' = [buffers EXCEPT ![p] = Push(@, v)]
            /\ PassOn(p, v)
    /\ UNCHANGED <<ioc, live, feeds, metaQ, lock, signals, callbacks, connStatus,
                   metaCalls, seenValue, seenConn>>

\* One turn of its loop over the snapshot; the update says connected=True.
CallWithValue(c) ==
    /\ valueCalls[c] # NoValue
    /\ seenValue' = [seenValue EXCEPT ![c] = valueCalls[c]]
    /\ seenConn' = [seenConn EXCEPT ![c] = "connected"]
    /\ valueCalls' = [valueCalls EXCEPT ![c] = NoValue]
    /\ overtaken' = IF Telling(c) THEN overtaken ELSE overtaken \ {c}
    /\ UNCHANGED <<ioc, ophyd, lock, manager, metaCalls>>

\* The connection update, with the value cached now, is to be passed on.
PassConnectionOn(p, connected) ==
    /\ metaCalls' = [c \in Callback |->
                        IF c \in callbacks[p]
                        THEN [connected |-> connected, value |-> latest[p]] ELSE NoCall]
    /\ overtaken' = overtaken \ callbacks[p]

\* Mistake: every "connected" is taken for the first one and not passed on.
HandleMetaQuietReconnect(p) ==
    /\ Free
    /\ MetaThreadIdle
    /\ metaQ[p] # <<>>
    /\ metaQ' = [metaQ EXCEPT ![p] = Tail(@)]
    /\ connStatus' = [connStatus EXCEPT ![p] = Head(metaQ[p])]
    /\ IF Head(metaQ[p]) \in {connStatus[p], "connected"}
       THEN UNCHANGED <<metaCalls, overtaken>>
       ELSE PassConnectionOn(p, Head(metaQ[p]))
    /\ UNCHANGED <<ioc, live, feeds, valueQ, lock, signals, callbacks, latest,
                   buffers, valueCalls, seenValue, seenConn>>

\* The locked part of _handle_meta_update.
HandleMetaUpdate(p) ==
    /\ Free
    /\ MetaThreadIdle
    /\ metaQ[p] # <<>>
    /\ metaQ' = [metaQ EXCEPT ![p] = Tail(@)]
    /\ LET connected == Head(metaQ[p])
           firstAndConnected == connStatus[p] = Unknown /\ connected = "connected"
       IN  /\ connStatus' = [connStatus EXCEPT ![p] = connected]
           /\ IF connStatus[p] = connected \/ firstAndConnected
              THEN UNCHANGED <<metaCalls, overtaken>>
              ELSE PassConnectionOn(p, connected)
    /\ UNCHANGED <<ioc, live, feeds, valueQ, lock, signals, callbacks, latest,
                   buffers, valueCalls, seenValue, seenConn>>

\* One turn of its loop over the snapshot, outside the lock: the value may be
\* older by now than one the other dispatcher has passed on.
CallWithConnection(c) ==
    /\ Telling(c)
    /\ seenValue' = [seenValue EXCEPT ![c] = metaCalls[c].value]
    /\ seenConn' = [seenConn EXCEPT ![c] = metaCalls[c].connected]
    /\ metaCalls' = [metaCalls EXCEPT ![c] = NoCall]
    /\ UNCHANGED <<ioc, ophyd, lock, manager, valueCalls, overtaken>>

-----------------------------------------------------------------------------
(* unsubscribe, get_value, cleanup                                         *)

\* Mistake: any unsubscribe takes the signal, whoever is left.
UnsubscribeDropsSignal(p, cb) ==
    /\ Free
    /\ callbacks' = [callbacks EXCEPT ![p] = IF cb = NoCallback THEN {} ELSE @ \ {cb}]
    /\ signals' = [signals EXCEPT ![p] = NoSignal]
    /\ connStatus' = [connStatus EXCEPT ![p] = Unknown]
    /\ buffers' = [buffers EXCEPT ![p] = <<>>]
    /\ latest' = [latest EXCEPT ![p] = NoValue]
    /\ UNCHANGED <<ioc, ophyd, lock, calls>>

\* Remove one callback, or all of them when none is given; the last one takes
\* the signal and everything recorded about the PV with it.
Unsubscribe(p, cb) ==
    /\ Free
    /\ LET left == IF cb = NoCallback THEN {} ELSE callbacks[p] \ {cb}
       IN  /\ callbacks' = [callbacks EXCEPT ![p] = left]
           /\ IF left = {} /\ signals[p] # NoSignal
              THEN /\ signals' = [signals EXCEPT ![p] = NoSignal]
                   /\ connStatus' = [connStatus EXCEPT ![p] = Unknown]
                   /\ buffers' = [buffers EXCEPT ![p] = <<>>]
                   /\ latest' = [latest EXCEPT ![p] = NoValue]
              ELSE UNCHANGED <<signals, connStatus, buffers, latest>>
    /\ UNCHANGED <<ioc, ophyd, lock, calls>>

\* signal.destroy(), some time after the lock was released.
Destroy(s) ==
    /\ live[s] # NoPV
    /\ signals[live[s]] # s
    /\ live' = [live EXCEPT ![s] = NoPV]
    /\ feeds' = [feeds EXCEPT ![s] = {}]
    /\ UNCHANGED <<ioc, valueQ, metaQ, lock, manager, calls>>

\* get_value on a PV with nothing cached reads the signal and caches the value.
GetValueReads(p) ==
    /\ Free
    /\ latest[p] = NoValue
    /\ signals[p] # NoSignal
    /\ p \in online
    /\ latest' = [latest EXCEPT ![p] = iocValue[p]]
    /\ UNCHANGED <<ioc, ophyd, lock, signals, callbacks, connStatus, buffers, calls>>

Cleanup ==
    /\ Free
    /\ signals' = [p \in PV |-> NoSignal]
    /\ callbacks' = [p \in PV |-> {}]
    /\ connStatus' = [p \in PV |-> Unknown]
    /\ buffers' = [p \in PV |-> <<>>]
    /\ latest' = [p \in PV |-> NoValue]
    /\ UNCHANGED <<ioc, ophyd, lock, calls>>

-----------------------------------------------------------------------------
(* The IOC                                                                 *)

IocPut(p, v) ==
    /\ Len(valueQ[p]) < MaxPending
    /\ p \in online
    /\ v # iocValue[p]
    /\ iocValue' = [iocValue EXCEPT ![p] = v]
    /\ valueQ' = Emit(valueQ, p, "value", v)
    /\ UNCHANGED <<online, live, feeds, metaQ, lock, manager, calls>>

IocDown(p) ==
    /\ Len(metaQ[p]) < MaxPending
    /\ p \in online
    /\ online' = online \ {p}
    /\ metaQ' = Emit(metaQ, p, "meta", "disconnected")
    /\ UNCHANGED <<iocValue, live, feeds, valueQ, lock, manager, calls>>

\* The IOC returns, perhaps with another value; the monitors are re-established.
IocReturns(p, v) ==
    /\ Len(valueQ[p]) < MaxPending /\ Len(metaQ[p]) < MaxPending
    /\ p \notin online
    /\ online' = online \cup {p}
    /\ iocValue' = [iocValue EXCEPT ![p] = v]
    /\ metaQ' = Emit(metaQ, p, "meta", "connected")
    /\ valueQ' = Emit(valueQ, p, "value", v)
    /\ UNCHANGED <<live, feeds, lock, manager, calls>>

-----------------------------------------------------------------------------

Subscribing ==
    \E p \in PV :
        \/ \E cb \in Callback \cup {NoCallback} : SubscribeOpen(p, cb)
        \/ SubscribeFinish(p)
        \/ SubscribeFail(p)
        \/ \E cb \in Callback : SubscribeJoin(p, cb)

Dispatching ==
    \/ \E p \in PV : HandleValueUpdate(p) \/ HandleMetaUpdate(p)
    \/ \E c \in Callback : CallWithValue(c) \/ CallWithConnection(c)

Releasing ==
    \/ \E p \in PV, cb \in Callback \cup {NoCallback} : Unsubscribe(p, cb)
    \/ \E s \in Signal : Destroy(s)
    \/ Cleanup

Environment ==
    \E p \in PV :
        \/ IocDown(p)
        \/ \E v \in Value : IocPut(p, v) \/ IocReturns(p, v)

Next ==
    \/ Subscribing
    \/ Dispatching
    \/ Releasing
    \/ \E p \in PV : GetValueReads(p)
    \/ Environment

Spec == Init /\ [][Next]_vars

-----------------------------------------------------------------------------
(* Properties                                                              *)

\* Whoever holds a callback on a PV holds a signal for it, and the signal a PV
\* has is alive and its own: unsubscribe never takes the signal from under a
\* subscriber, and the destroy() that follows it outside the lock never hits
\* the signal of a later subscribe.
SubscribersHaveSignal ==
    \A p \in PV :
        /\ callbacks[p] # {} => signals[p] # NoSignal
        /\ signals[p] # NoSignal => live[signals[p]] = p

\* What is cached for a PV goes with its signal, so a late event of the old
\* signal cannot bring back a value that a later get_value would serve; and
\* the buffer is bounded and ends with the value get_value returns.
CacheCoherent ==
    \A p \in PV :
        /\ signals[p] = NoSignal => latest[p] = NoValue /\ buffers[p] = <<>>
        /\ Len(buffers[p]) <= BufferSize
        /\ buffers[p] # <<>> => latest[p] = buffers[p][Len(buffers[p])]

\* The value the cache will hold once p's queued events are handled.
NewestValue(p) == IF valueQ[p] = <<>> THEN latest[p] ELSE valueQ[p][Len(valueQ[p])]
NewestStatus(p) == IF metaQ[p] = <<>> THEN connStatus[p] ELSE metaQ[p][Len(metaQ[p])]

\* The cache converges on the IOC: while a PV is monitored and its IOC is up,
\* the last event still queued, or the cached value when none is, is the IOC's
\* value, although the initial read, a get_value and late events of an earlier
\* signal write the same cache.
CacheConverges ==
    \A p \in PV :
        /\ signals[p] # NoSignal
        /\ "value" \in feeds[signals[p]]
        /\ p \in online
        => NewestValue(p) = iocValue[p]

\* The same for the connection status, which subscribe presets to connected
\* whatever happens between connecting and registering.
StatusConverges ==
    \A p \in PV :
        signals[p] # NoSignal /\ "meta" \in feeds[signals[p]] => NewestStatus(p) = Link(p)

\* What a subscriber was told last, or is about to be told, is the cached value,
\* unless the metadata dispatcher is overtaken between its copy of the value
\* under the lock and its call outside it.  That is the only way to be left
\* behind: not a subscribe, an unsubscribe, a get_value or a late event.
BehindOnlyIfOvertaken ==
    \A p \in PV : \A c \in callbacks[p] \ overtaken :
        /\ valueCalls[c] \in {NoValue, latest[p]}
        /\ metaCalls[c].value \in {NoValue, latest[p]}
        /\ seenValue[c] \in {NoValue, latest[p]} \/ valueCalls[c] # NoValue \/ Telling(c)

\* Nobody stays "disconnected": a subscriber that was told of an outage, or is
\* about to be, is told when the manager takes the PV for connected again, and
\* whoever joins meanwhile was not told.  (The converse is false: see
\* NoValueWhileDisconnected.)
ReconnectionIsTold ==
    \A p \in PV : \A c \in callbacks[p] :
        "disconnected" = (IF Telling(c) THEN metaCalls[c].connected ELSE seenConn[c])
            => connStatus[p] = "disconnected"

-----------------------------------------------------------------------------
(* Refinement: a subscribe takes effect when it releases the lock.         *)

Tracked == {p \in PV : signals[p] # NoSignal /\ opening # p}
Fed(p) == signals[p] # NoSignal /\ "value" \in feeds[signals[p]]

Promise == INSTANCE Monitor WITH
    tracked <- Tracked,
    latest <- [p \in PV |-> IF opening = p THEN NoValue ELSE latest[p]],
    owed <- {p \in Tracked : Fed(p) /\ (valueQ[p] # <<>> \/ p \notin online)}

\* What callers rely on: every call of the manager takes effect at one instant,
\* a registered callback gets every update from its registration on, and an
\* update is owed after a subscribe that opened the signal.
KeepsPromise == Promise!Spec

-----------------------------------------------------------------------------
(* A statement of the documentation that the code does not keep            *)

\* README.md:326, "Value-updates stop while the PV is disconnected": no value
\* is on its way to a subscriber that was told of a disconnection that lasts.
NoValueWhileDisconnected ==
    \A p \in PV : \A c \in callbacks[p] :
        seenConn[c] = "disconnected" /\ valueCalls[c] # NoValue => p \in online

=============================================================================
