---------------------------- MODULE ValueEndpoint ---------------------------
(***************************************************************************)
(* GET /api/v1/pvs/{pv_name}/value (main.py): validate the name, subscribe *)
(* to the PV without a callback, read the cached value, and put it in an   *)
(* envelope.  Validation is a request to the registry, subscribe and       *)
(* get_value are two calls in worker threads, and between them the         *)
(* WebSocket clients of the same PV come and go.                           *)
(*                                                                         *)
(* The PV monitor is the abstract Monitor; of WebSocketManager and         *)
(* DeviceWebSocketManager only their calls of the monitor are left.  What  *)
(* the registry answers and whether a first connection succeeds is open.   *)
(***************************************************************************)
EXTENDS Naturals, Sequences

CONSTANTS
    Request,       \* requests of the endpoint, each asking once
    PV,
    Callback,      \* of the WebSocket managers
    Value,
    Large,         \* values above response_bytesize_limit
    Numeric,       \* values that binary can carry
    NonFinite,     \* NaN and infinite values, which JSONResponse raises on
    NoCallback,    \* Python's None
    NoValue

VARIABLES
    tracked, callbacks, latest, owed, valueCalls,     \* the PV monitor
    stage,      \* of each request: "validate", "subscribe", "read", "respond"
    asks,       \* [pv, format, accept]: what it asks for
    value,      \* what get_value gave it
    answer,     \* the HTTP status it is answered with; 0 is none yet
    had         \* history: the monitor had a value when its subscribe returned

M == INSTANCE Monitor

monitor == <<tracked, callbacks, latest, owed, valueCalls>>
vars == <<monitor, stage, asks, value, answer, had>>

Media == {"json", "binary"}
Asks == [pv : PV, format : Media \cup {"none", "other"},
         accept : {<<>>} \cup {<<x>> : x \in Media \cup {"any", "other"}}
                         \cup {<<"other", x>> : x \in Media \cup {"any", "other"}}]

TypeOK ==
    /\ M!TypeInvariant
    /\ stage \in [Request -> {"validate", "subscribe", "read", "respond"}]
    /\ asks \in [Request -> Asks]
    /\ value \in [Request -> Value \cup {NoValue}]
    /\ answer \in [Request -> {0, 200, 400, 404, 406, 500, 503}]
    /\ had \in [Request -> BOOLEAN]

Init ==
    /\ M!Init
    /\ stage = [r \in Request |-> "validate"]
    /\ asks \in [Request -> Asks]
    /\ value = [r \in Request |-> NoValue]
    /\ answer = [r \in Request |-> 0]
    /\ had = [r \in Request |-> FALSE]

-----------------------------------------------------------------------------
(* The response                                                            *)

\* _negotiate_format: ?format= decides; else the first media type of Accept that
\* is served, and JSON without the header.
Negotiate(format, accept) ==
    LET served == {i \in DOMAIN accept : accept[i] \in Media \cup {"any"}}
        first == accept[CHOOSE i \in served : \A j \in served : i <= j]
    IN  CASE format # "none" -> format
          [] format = "none" /\ accept = <<>> -> "json"
          [] format = "none" /\ accept # <<>> /\ served = {} -> "other"
          [] OTHER -> IF first = "any" THEN "json" ELSE first

\* _build_value_response: the size is checked before the media type.
ResponseStatus(v, media) ==
    IF v \in Large THEN 400
    ELSE IF media = "other" \/ (media = "binary" /\ v \notin Numeric) THEN 406
    ELSE IF media = "json" /\ v \in NonFinite THEN 500
    ELSE 200

-----------------------------------------------------------------------------
(* get_monitored_pv_value                                                  *)

Answer(r, status) == answer' = [answer EXCEPT ![r] = status]

Advance(r, from, to) ==
    /\ stage[r] = from
    /\ answer[r] = 0
    /\ stage' = [stage EXCEPT ![r] = to]

\* validate_pv: not in the registry, or the registry did not answer.
Validate(r) ==
    /\ \/ Advance(r, "validate", "subscribe") /\ UNCHANGED answer
       \/ \E status \in {404, 503} :
            Advance(r, "validate", "validate") /\ Answer(r, status)
    /\ UNCHANGED <<monitor, asks, value, had>>

\* pv_monitor.subscribe(pv_name), which returns at once for a tracked PV.
Subscribe(r) ==
    LET p == asks[r].pv
    IN  /\ Advance(r, "subscribe", "read")
        /\ \/ p \in tracked /\ UNCHANGED monitor
           \/ \E v \in Value \cup {NoValue} : M!Track(p, NoCallback, v)
        /\ had' = [had EXCEPT ![r] = latest'[p] # NoValue]
        /\ UNCHANGED <<asks, value, answer>>

\* It raises: PVNotFoundError, or whatever else went wrong.
SubscribeRaises(r) ==
    /\ Advance(r, "subscribe", "subscribe")
    /\ \E v \in Value \cup {NoValue} : M!TrackAndRaise(asks[r].pv, v)
    /\ \E status \in {404, 500} : Answer(r, status)
    /\ UNCHANGED <<asks, value, had>>

\* pv_monitor.get_value(pv_name): the cached value, one read from the signal,
\* or none.
Read(r) ==
    LET p == asks[r].pv
    IN  /\ \/ /\ latest[p] # NoValue
              /\ Advance(r, "read", "respond")
              /\ value' = [value EXCEPT ![r] = latest[p]]
              /\ UNCHANGED <<monitor, answer>>
           \/ \E v \in Value :
                /\ M!ReadValue(p, v)
                /\ Advance(r, "read", "respond")
                /\ value' = [value EXCEPT ![r] = v]
                /\ UNCHANGED answer
           \/ /\ latest[p] = NoValue
              /\ Advance(r, "read", "read")
              /\ Answer(r, 404)
              /\ UNCHANGED <<monitor, value>>
        /\ UNCHANGED <<asks, had>>

Respond(r) ==
    /\ Advance(r, "respond", "respond")
    /\ Answer(r, ResponseStatus(value[r], Negotiate(asks[r].format, asks[r].accept)))
    /\ UNCHANGED <<monitor, asks, value, had>>

-----------------------------------------------------------------------------
(* The WebSocket managers, the IOC                                         *)

SocketSubscribes(p, cb) ==
    /\ \A q \in PV : cb \notin callbacks[q]
    /\ \/ \E v \in Value \cup {NoValue} : M!Track(p, cb, v)
       \/ M!Join(p, cb)
    /\ UNCHANGED <<stage, asks, value, answer, had>>

SocketUnsubscribes(p, cb) ==
    /\ cb \in callbacks[p]
    /\ M!Release(p, cb)
    /\ UNCHANGED <<stage, asks, value, answer, had>>

MonitorUpdates ==
    /\ \/ \E p \in PV : p \notin owed /\ M!Owe(p)
       \/ \E p \in owed, v \in Value : M!Update(p, v)
       \/ \E cb \in Callback : M!Call(cb)
    /\ UNCHANGED <<stage, asks, value, answer, had>>

Next ==
    \/ \E r \in Request :
        Validate(r) \/ Subscribe(r) \/ SubscribeRaises(r) \/ Read(r) \/ Respond(r)
    \/ \E p \in PV, cb \in Callback : SocketSubscribes(p, cb) \/ SocketUnsubscribes(p, cb)
    \/ MonitorUpdates

Spec == Init /\ [][Next]_vars

-----------------------------------------------------------------------------
(* Properties                                                              *)

\* The comment at the call says that subscribing unconditionally "avoids a
\* TOCTOU gap" (main.py:480-481): a request whose subscribe returned with a value
\* in the monitor's cache is not told that the PV was not found.
AvailableValueServed ==
    \A r \in Request : stage[r] = "read" /\ had[r] => answer[r] # 404

=============================================================================
