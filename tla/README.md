# TLA+ models of the Direct Device Control and Monitoring service

This directory holds the specifications of the service in `src/src/direct_control`
(SVC-003): a FastAPI process that writes EPICS process variables (PVs) after asking
Experiment Execution whether a plan holds the device, and that streams PV values to
WebSocket clients. The paths below are relative to `src/src/direct_control/`.

## The system

| part | code | state it keeps | operations |
|---|---|---|---|
| PV monitor | `monitoring/pv_monitor.py` | signals, callbacks, connection status, latest values and buffers per PV, under one RLock | subscribe, unsubscribe, get_value, the two event handlers, cleanup |
| PV WebSocket | `monitoring/websocket_manager.py` | connections, subscriptions per client, clients and callback per PV, heartbeats, under one asyncio lock | connect, disconnect, subscribe / subscribeSafely / subscribeReadOnly, unsubscribe, refresh, set, stop, broadcasts, close_all |
| Device WebSocket | `monitoring/device_websocket_manager.py` | the same per device, and the callbacks of all its PVs keyed by PV name | subscribe_device, unsubscribe_device, set, stop, broadcasts, cleanup |
| Device commands | `device_controller.py` | none between calls; pyepics connections and put callbacks | set_pv, execute_device_method, access_nested_device, get_pv_value |
| A4 coordination client | `coordination_client.py` | one HTTP client | check_device_available, is_service_available |
| Registry client | `registry_client.py` | two TTL caches of 30 s | validate_pv, validate_device |
| HTTP API | `main.py` | the objects above, created and closed by `lifespan` | set, execute, stop, nested, monitored value, health, statistics, proxies |
| Send lock and heartbeat | `monitoring/_envelopes.py` | one asyncio lock per connection | send_json, heartbeat_loop |
| Describers, array metadata, models, protocols, settings, command line | `monitoring/describers.py`, `_array_metadata.py`, `models.py`, `protocols.py`, `config.py`, `cli.py` | none | pure functions, data classes, configuration |

How they interact. One event loop runs every HTTP handler, one coroutine per
WebSocket connection, the broadcasts and the heartbeats. What may block (connecting
to a PV, reading it, putting to it, subscribing and unsubscribing) is handed to the
loop's default thread pool with `to_thread` / `run_in_executor`. ophyd delivers value
events and metadata (connection) events from two dispatcher threads of its own; they
take the monitor's lock, copy the callbacks, and call them after releasing it; a
callback posts a broadcast coroutine back to the loop. Plans (in Experiment Execution)
and IOCs change their state at any time.

What is hard here:

- *threads against threads* in the PV monitor: a `destroy()` outside the lock against the
  next subscribe, events still queued for a signal that is gone, the initial read
  against the first events, callbacks called from a snapshot by two threads, one of which
  carries a value it copied earlier;
- *coroutines and worker threads* in the WebSocket managers: every routing table is
  changed under the asyncio lock and the monitor is told afterwards, from a thread, so
  a new first client and the teardown for the last one overlap, a failed subscribe
  takes away clients that joined meanwhile, and the current value races the updates;
- *senders against senders* on a connection: handler, broadcasts and heartbeat queue for
  its send lock, some of them with the manager's lock in hand, while peers vanish;
- *answers out of date*: a device or a name is looked up over HTTP in the middle of a
  request, and what was found is used, or cached, when it may no longer be so;
- *check then act* in the command path: coordination check and put are separate steps,
  the answers may be late, missing or malformed, a put's completion may come after
  its timeout, and puts that wait hold workers everybody needs.

What makes each part correct: a subscriber has a live signal, is told every value and every
reconnection, and is behind the cache in one named case only (monitor); routes and callbacks agree with one another
and with the monitor, nobody misses a value, everything is released (PV socket, device
socket); no lock is left behind, updates keep their order, a dead peer is found out (the
sends); no answer is older than the cache allows (registry client); no
write without a permit, a truthful answer to every command, writes in the order
asked (commands). `PROJECT.json` lists the hazards line by line, each with the
properties that cover it or the reason none does.

## The modules

    PVMonitor  --implements-->  Monitor  <--are built on--  PvSocket, DeviceSocket, ValueEndpoint
    DirectControl  --implements-->  Coordination
    LockedSocket        the locks and sends below the two sockets
    RegistryCache       what the validation in DirectControl and in the sockets asks

`MC*` modules only fix the constants for TLC; `*Proofs` hold the theorems. The
definitions named `Mistake` in their comment are variants of an action with a plausible
bug, used to test that each property can fail; no specification refers to them.

### PVMonitor: `PVMonitorManager`

Variables `signals`, `callbacks`, `connStatus`, `latest`, `buffers` are the manager's
dictionaries (a missing key is `NoSignal`, `{}`, `Unknown`, `NoValue`, `<<>>`).
A section under the lock is one action, guarded by `Free`, except for subscribe:

| code | action |
|---|---|
| subscribe, new PV: connect, record, initial read | `SubscribeOpen` (the lock stays held: `opening`) |
| the two registrations, append the callback, unlock | `SubscribeFinish`, or `SubscribeFail` when the first or the second registration raises |
| subscribe, known PV | `SubscribeJoin` |
| `_handle_value_update`, `_handle_meta_update`, locked part | `HandleValueUpdate`, `HandleMetaUpdate` |
| their loops over the copied callbacks | `CallWithValue`, `CallWithConnection`, one call per step |
| unsubscribe, and `destroy()` after it | `Unsubscribe`, `Destroy` |
| get_value with nothing cached | `GetValueReads` |
| cleanup | `Cleanup`, and then `Destroy` |

External and modelled from its use: the IOC (`IocPut`, `IocDown`, `IocReturns`), ophyd's
signals and its two dispatchers, each one thread over a FIFO queue that keeps what it
holds when a signal is destroyed. An update is the value and the connection it carries: one of
`_handle_value_update` says connected whatever the state is (`CallWithValue`), one of
`_handle_meta_update` carries the value cached when the callbacks were copied (`PassConnectionOn`,
`CallWithConnection`). `seenValue` and `seenConn` are what each callback was told last, by
either; `overtaken` is a history variable, the callbacks that the metadata dispatcher has still to call, or has
called last, with a value that the value dispatcher has meanwhile replaced. Two signals of one PV are taken to have channels of
their own. Metadata of values, waveform handling and the statistics are left out. The
order of the dispatcher's calls over one snapshot is free in the model; in the code it
is the order of registration.

### Monitor: what callers rely on

The abstract monitor: each call takes effect at one instant, and `owed` says for which
PVs an update is still to come. `PVMonitor` implements it (`KeepsPromise`) under the
mapping at its end: a subscribe takes effect when it releases the lock, so a PV being
opened is not tracked yet; an update is owed while a value event is queued or the IOC
is away. `PvSocket` uses its actions.

### PvSocket: `WebSocketManager`

One handler coroutine per client: its place in `handle_client` is given by what it still has
to do (`probing`, `toSubscribe`, `failed`, `toFetch`, `fetched`, `toUnsubscribe`); with nothing
left it is in `receive_json` (`Receiving`). Every section under the asyncio lock has no
await inside, so it is one action:

| code | action |
|---|---|
| `subscribe_pvs`, locked part (also for subscribeReadOnly) | `Subscribe` (`EnterSubscriptions`) |
| its thread calls, one by one, and its `except` | `SubscribeReturns`, `SubscribeRaises`, `HandleFailure` |
| the current values: gathered fetches, then sends | `FetchValue`, `SendFetched` |
| `_handle_refresh` | `Refresh` |
| `_handle_subscribe_safely` | `SubscribeSafely`, `ProbeConnects`, `ProbeAccepts`, `ProbeRejects` |
| `unsubscribe_pvs`, `disconnect` and their thread calls | `Unsubscribe`, `Disconnect`, `UnsubscribeReturns` |
| the callback, `_broadcast_update` | `CallCallback`, `StartBroadcast`, `SendBroadcast` |
| `close_all` | `CloseAll` |

Values are numbered in the order the IOC takes them, so that "up to date" is a
comparison; `seen` is the newest value a client was sent since it subscribed. Left
out: connection updates, sends that fail or exceed the size limit (a failed send ends the
handler in `disconnect`), heartbeats, and a registration refused for the very first
signal. Since `seen` is the newest value a client was sent and not the last, the value that a connection update
carries, or a current value overtaken by a broadcast, is not looked at here (the end of Findings is about the former).
`HttpSubscribes` stands for the monitored-value endpoint (`ValueEndpoint`), which
keeps a PV tracked without a callback.

### DeviceSocket: `DeviceWebSocketManager`

The same design for devices, with four differences that matter: the device is looked up over
HTTP between two locked sections, of which the second looks at nothing again; all the PVs of
a device are subscribed at once; one that fails is not undone; and `_pv_callbacks` is keyed by
PV while a callback belongs to a device. The handler's place is given by `asking`
(the device being looked up), `opening` (its subscribes are under way), `toSubscribe`, `raised`,
`toFetch`, `fetched` and `toUnsubscribe`.

| code | action |
|---|---|
| `subscribe_device`, first locked section | `RequestDevice` (`requires` is `require_connection`) |
| `_fetch_device_info` found nothing / its second locked section | `DeviceNotFound`, `EnterDevice` (`MakeCallbacks`) |
| its gathered thread calls | `SubscribeReturns`, `SubscribeRaises` |
| `not_connected`, and the early return | `AnswerNotConnected` |
| the current values | `OpenDevice`, `FetchValue`, `SendFetched` |
| `_handle_refresh` | `Refresh` |
| `unsubscribe_device`, `disconnect` and their thread calls | `Unsubscribe`, `Disconnect` (`LeaveDevices`), `UnsubscribeReturns` |
| the callback, `_broadcast_device_update` | `CallCallback`, `StartBroadcast`, `SendBroadcast` |
| `cleanup` | `CloseAll` |

What the configuration service says of a device is constant. Two history variables name
the cases in which the code gives no guarantee: `lost`, the routed callbacks
whose subscribe raised, and `missed`, the clients that joined before a PV's
callback was registered or were answered "not_connected".

### LockedSocket: the manager's lock, the send locks and the heartbeat

Who waits for whom. An asyncio lock is a FIFO queue of tasks whose head holds it (`queue`). Each
client has three senders: its handler, the broadcasts and its `heartbeat_loop`. They share the
send lock of its `LockedWS`, and all but the heartbeat take the manager's lock as well; the
error to a set or stop of a device that is not subscribed is sent with the manager's lock held.

| code | action |
|---|---|
| `run_coroutine_threadsafe` | `Start`, in the order posted |
| `_broadcast_device_update`: copy, then per client look up and send | `CopyClients`, `LookUp`, `SendUpdate` |
| `connect`; a message arrives | `Accept`, `Connect`, `Request` |
| the locked sections of subscribe, unsubscribe, current values, set and stop | `Subscribe`, `Unsubscribe`, `ReadCurrent`, `Check` |
| an answer, or the error with the lock held | `Reply`, `Complain` |
| `receive_json` raises; `disconnect` | `ReceiveFails`, `Disconnect` |
| `heartbeat_loop` | `WakeUp`, `Beat` |
| the peer says goodbye, or is lost | `SayGoodbye`, `Vanish` |

`gone[c]` is the moment the transport takes no more frames: a send to c then fails, and until
then it completes. The routes are one set, as for the clients of one device; several values of one `_send_current_values`
are one send. `disturbed` is a history variable: clients came or went after a broadcast copied them.

### RegistryCache: `RegistryClient`

`validate_pv` and `validate_device`, whose caches work alike, so one stands for both: `Hit`; `Ask`,
which deletes an expired entry; `RegistryAnswers`, `Receive` (200 and 404 are cached, any other status
raises like a 404 and is not), `Fail`. The registry changes at any time (`Change`), and time passes in ticks. The history
variables `had` and `lacked` record the last tick at which the registry had a name or had not. An answer on its way
is received or given up within `HttpTimeout`; that the loop runs a coroutine whose answer has
arrived before the clock moves on is an assumption of the model.

### ValueEndpoint: `GET /api/v1/pvs/{pv_name}/value`

The stages of `get_monitored_pv_value`: `Validate`, `Subscribe` or `SubscribeRaises`, `Read`,
`Respond`, each a request or a call in a thread, with WebSocket clients of the same PV coming and going
(`SocketSubscribes`, `SocketUnsubscribes`). `Negotiate` is `_negotiate_format`, `ResponseStatus` the status
`_build_value_response` ends with.

### DirectControl and Coordination: the command path

A session is one HTTP caller or one WebSocket connection; it sends its next command
after the answer to the last. `pc` is where the command is:

| code | action |
|---|---|
| a request or message arrives | `Submit` |
| the device socket's look at its subscriptions; registry validation | `LookUp`, `Validate` |
| `check_device_available`: no question asked / status read / answer arrives / timeout, error, unparseable | `SkipCheck`, `StatusRead`, `StatusReturns`, `StatusFails` |
| a thread job starts (FIFO, at most `Workers`) | `StartJob` |
| `_connect`; `_execute_put`'s three ways to send | `ConnectReturns`, `SendPut`, `PutFails`, `PutSkipped`, `PutReturns`, `PutTimesOut` |
| the wait for the put callback | `CallbackReturns` |

Validation is asked where the code asks it: not by the PV socket's stop, and the device
socket looks for a subscription instead. The registry is a constant here; the outcomes
are found, not found and unavailable, and an unexpected status is "not found" as in the
code. `execute_device_method` and `access_nested_device` are placeholders in the code (they
log and answer; the first reports failure, the second success), so in the model they
pass the check and write nothing. `permitted` and `heldAll` are history variables.

`Coordination` is the gate the service promises: a command writes only what it has a
permit for, and a permit is given only while no plan holds the name (`AsksFirst`).
It does *not* promise that the device is still free when the put goes out: the check and
the put are two steps in the code, and the permit is what the code guarantees.

## What TLC checks

| run | properties | what it shows |
|---|---|---|
| `pv_monitor` | TypeOK, SubscribersHaveSignal, CacheCoherent, CacheConverges, StatusConverges, BehindOnlyIfOvertaken, ReconnectionIsTold, KeepsPromise | in every order of subscribes, unsubscribes, late destroys, events and outages, subscribers keep a live signal, nothing of an old signal is cached, cache and status converge on the IOC, a subscriber is behind the cache only if a connection update with an older value reached it after the newer value had been passed on, nobody stays disconnected, and the monitor implements `Monitor` |
| `pv_socket` | RoutesAgree, MonitorMatchesRoutes, NoGap | two clients on one PV: tables agree with each other and with the monitor, and no value is missed, one case excepted (below) |
| `pv_socket_lifecycle` | TypeOK, CapHolds, LastClientReleases | two clients on one PV, or one with batches of two: the cap across awaits; and the callback a last client left is removed in the end, and the signal goes with it unless somebody else has a callback by then, though the other client subscribes, joins, fails or probes meanwhile |
| `device_socket` | TypeOK, CapHolds, RoutesAgree, MonitorMatchesRoutes, NoGap | two clients on one device, or one on a device of two PVs: whatever was looked up, refused or failed meanwhile, the four tables agree with one another and with the monitor, and the gaps are the named ones |
| `locked_socket` | TypeOK, BroadcastsInOrder, NoLockLeftBehind, EveryBroadcastEnds, DeadPeerReleased | updates keep their order while nobody comes or goes, what has ended holds no lock, no wait is for ever, a lost peer is found out by its heartbeat |
| `registry_cache` | TypeOK, EntryHadEvidence, AnswerAge | a cached answer was true at most an HTTP timeout before its stamp, and no verdict is further out of date than the TTL and the timeout together |
| `direct_control` | TypeOK, RefusedNeverWrites, DoneMeansWritten, JobsHaveOwners, SessionOrder, EveryCommandAnswered, AsksFirst | refusals never write, success is true, puts keep their order, nothing is left running, every command is answered, every put has a permit |
| `quiet_while_disconnected` | NoValueWhileDisconnected | violated, finding 1 |
| `initial_update` | InitialUpdateReceived | violated, finding 2 |
| `held_device` | HeldDeviceNotWritten | violated, finding 3 |
| `device_shared_pv` | AllPvsSubscribed | violated, finding 4 |
| `monitored_value` | AvailableValueServed | violated, finding 5 |

### Bounds

- `pv_monitor`: one PV, two callbacks, two signal objects, two values, a buffer of 2. PVs share
  nothing but the lock, which one PV already contends for (two callers); two signals are what
  a subscribe overlapping the destroy of its predecessor needs; a buffer of 2 overflows.
  `MaxPending` 1: the IOC makes no new change while an event is queued, but the initial events of a
  subscribe come on top, so queues of several events, old and new signals mixed, occur.
- `pv_socket`: two clients, one PV, two closures per PV (a new first client
  during the teardown for the last), `MaxVersion` 2 (a value before and one after).
  Each client connects once: a reconnect is a new client to the code as well (a fresh uuid). This
  run is about races on one PV, where subscription caps and batches play no role.
- `pv_socket_lifecycle`: `MCBound`: two clients at one PV with two closures and one value, so that a new first
  client or a joiner overlaps the last client's teardown, which a second value would not change (releasing
  looks at no value); or one client at two PVs, cap 1, with no value on its way, for the batches that the cap is
  about. `MCBound` refuses requests and events only, never a step of a handler, so it takes nothing
  from the fairness. No symmetry, as the run has a liveness property.
- `device_socket`: the configurations of `MCBound`, each with a cap of one: two clients at a device with one PV,
  with a value that changes only while one client is there or while clients join; or one client at a device
  with two PVs, of which one may fail. Together these are the cases two PVs and two clients differ in: what
  two clients share is a PV, and what two PVs can do to one another is fail apart. The constraint makes
  this run bounded rather than exhaustive; the theorems about it have no such bound.
- `device_shared_pv`: one client and two devices with one PV in common, no cap. `monitored_value`: one request, one
  PV, one WebSocket callback.
- `locked_socket`: two clients, two updates, two messages: two broadcasts can overtake one another at either
  client only if the code lets them, and one client may hold the manager's lock while the other is lost.
- `registry_cache`: two lookups of one name, TTL and HTTP timeout of two ticks, seven ticks: an entry is
  cached late, expires, and is asked for again.
- `direct_control`: two sessions with two commands and one, one worker (every job contends),
  six commands: a plain, a waiting and a `use_complete` set, a set on an unknown PV, a read
  and a nested access. The PV named like the device lets the check of a set answer "locked";
  the PV with a name of its own is what the third finding is about.

Symmetry is used over callbacks, signals, values, clients and closures, in runs without
liveness properties only. The runs of the sockets and of the endpoint say `CHECK_DEADLOCK FALSE`: with
all clients gone, the last value delivered and every request answered nothing is left to do. The others check for deadlock;
in LockedSocket tasks that wait for one another for ever would violate EveryBroadcastEnds or DeadPeerReleased.

### Fairness

- `PVMonitor`: none; its properties are safety, its convergence is stated on the last event queued.
- `PvSocket`: weak fairness of each client's handler: the event loop resumes a coroutine whose
  thread call has returned, and the calls return (a subscribe within 5 s). None for clients, IOCs,
  dispatchers or broadcasts.
- `LockedSocket`: weak fairness of each broadcast, handler and heartbeat: the event loop runs what is
  ready, a sleep ends, and a send completes or fails, since uvicorn's keepalive pings end a
  connection on which nothing moves. That a lock is granted in turn is in the queues, not
  in the fairness. None for peers, nor for new updates. The code itself has no send timeout: a client that
  answers pings and never reads would stop every broadcast and every handler that needs the lock its
  `Complain` holds. It is assumed away here, not shown harmless.
- `DeviceSocket`, `RegistryCache`, `ValueEndpoint`: none; their properties are safety.
- `DirectControl`: weak fairness of each session's steps between command and answer, and of
  the pool: the loop resumes coroutines, the executor takes jobs in order, and every wait of a command
  ends (HTTP timeout, connection timeout, put timeout). None for plans, for the IOC's completions
  or for callers.

### Findings

1. README.md:326 says value updates stop while a PV is disconnected. Values and connection events
   come from two dispatcher threads, and `_handle_value_update` always says connected: a value
   queued before the outage is delivered as connected after the disconnection was.
2. A test says that a subscriber receives an initial update. A client that joins while the first
   client's subscribe is still in its thread may receive none: it only reads what is cached then, which is
   nothing if the initial read failed and `get_value`, which tries again, gets None as well; and
   the update that follows may be handled before the first client's callback is registered. The
   test has one client.
   `NoGap` says that this is the only gap (`early` is the set of such clients).
3. README.md:8 promises 423 for a write to a device held by a plan. `set_pv` asks for the PV's name;
   Experiment Execution knows devices, its 404 counts as available, and the put goes out.
4. README.md:332 says that a device subscription is one to all the PVs of the device. When two
   devices share a PV, the second takes the PV's entry in `_pv_callbacks` (`device_websocket_manager.py:194`);
   the first to leave then unsubscribes the other's callback. Where no PV is shared the statement
   holds, which is proved.
5. The comment at main.py:480-481 says that subscribing unconditionally "avoids a TOCTOU gap". The
   subscribe of a tracked PV returns at once and adds no callback, so the last WebSocket
   client may release the PV before `get_value` (main.py:484), and the request is answered 404.
The code has one more weakness on the same line of README.md, a known limit of BehindOnlyIfOvertaken
rather than a run of its own. The update that announces a reconnection carries the value cached before it
(pv_monitor.py:175) and is sent outside the lock by the other dispatcher, perhaps after the fresh
one: the last value the client is told is then the old one, until the PV changes again.
BehindOnlyIfOvertaken says that this is the only way to be left behind.

## What is proved

TLAPS checks, for every value of the constants (any number of PVs, devices, clients, lookups and
commands, any buffer, cap and time to live, queues of any length):

| theorem | states |
|---|---|
| `PVMonitorProofs!TypeCorrect` | type correctness |
| `PVMonitorProofs!SubscribersKeepSignal` | SubscribersHaveSignal |
| `PVMonitorProofs!CacheIsCoherent` | CacheCoherent |
| `PVMonitorProofs!CacheFollowsIoc` | CacheConverges |
| `PVMonitorProofs!StatusFollowsIoc` | StatusConverges |
| `PVMonitorProofs!LeftBehindOnlyIfOvertaken` | BehindOnlyIfOvertaken |
| `PVMonitorProofs!EveryReconnectionIsTold` | ReconnectionIsTold |
| `PVMonitorProofs!ImplementsPromise` | KeepsPromise: PVMonitor implements Monitor |
| `DirectControlProofs!TypeCorrect` | type correctness |
| `DirectControlProofs!FailsClosed` | RefusedNeverWrites |
| `DirectControlProofs!SuccessIsTrue` | DoneMeansWritten |
| `DirectControlProofs!PutsInOrder` | SessionOrder |
| `DirectControlProofs!NoJobOrphaned` | JobsHaveOwners |
| `DirectControlProofs!ImplementsGate` | AsksFirst: DirectControl implements Coordination |
| `PvSocketProofs!TypeCorrect` | type correctness |
| `PvSocketProofs!CapNeverExceeded` | CapHolds |
| `PvSocketProofs!RoutesCorrect` | RoutesAgree |
| `PvSocketProofs!MonitorCorrect` | MonitorMatchesRoutes |
| `PvSocketProofs!NothingMissed` | NoGap |
| `DeviceSocketProofs!TypeCorrect` | type correctness |
| `DeviceSocketProofs!CapNeverExceeded` | CapHolds |
| `DeviceSocketProofs!RoutesCorrect` | RoutesAgree, where no two devices share a PV |
| `DeviceSocketProofs!MonitorCorrect` | MonitorMatchesRoutes, likewise |
| `DeviceSocketProofs!DisjointDevicesSubscribed` | AllPvsSubscribed, likewise: finding 4 needs a shared PV |
| `DeviceSocketProofs!NothingMissed` | NoGap, likewise |
| `LockedSocketProofs!TypeCorrect` | type correctness |
| `LockedSocketProofs!NothingLeftBehind` | NoLockLeftBehind |
| `LockedSocketProofs!UpdatesKeepTheirOrder` | BroadcastsInOrder |
| `RegistryCacheProofs!TypeCorrect` | type correctness |
| `RegistryCacheProofs!CacheFromEvidence` | EntryHadEvidence |
| `RegistryCacheProofs!BoundedAge` | AnswerAge |

Assumptions: the named ones in the modules. PVMonitor: the buffer holds at least one value, the set of
signal objects is finite (events are counted), and `None` is no PV, callback, signal or value.
DirectControl: every PV has a device, the commands are well formed, there is a worker. `MaxPending`
has no assumption: the theorems hold with or without that bound. PvSocket: the registry has finitely many
PVs (a batch is counted against the cap), `None` is no callback, the cap is a natural number, an IOC takes
at least one value. LockedSocket: the numbers of updates and of messages are natural numbers. DeviceSocket:
`Pvs` gives each device a set of PVs, `None` is no callback, the cap is a natural number; `Disjoint` is
a hypothesis of four theorems, not an assumption of the module. RegistryCache: the times are natural numbers and
a missing entry is not an entry.

Arguments. *Signals*: SubscribersHaveSignal is not inductive, for a subscribe between its two
halves is about to add a callback; the strengthening (`Ownership`) adds that the PV whose subscribe
holds the lock has its signal already, and that an unused signal object feeds nobody. *Cache*: it is coherent since a late event is
dropped when its PV has no signal. *Convergence*: every change of the IOC queues
an event for each feeding signal at the end of its PV's queue and the initial event of a registration
comes last of all, so the last queued event is the newest value, whatever old signals queued before
it; until it registers, a new signal feeds nobody (`Ownership` again). *Commands*: a put that is out must be
the current command's or an answered one's. `IInv` states it as four facts: a busy session has a
number left (`Numbered`); whatever is past the check is a set with a permit (`Covered`); the
puts of a session are numbered at most as far as its answers, or one further while the command is sent or
awaiting, and only puts that went out are completed (`PutsOut`); then the three properties themselves. `MoveStep`, `AnswerStep`, `PutStep` and `QuietStep` prove
preservation for the four shapes a step can have (the place changes; the answer is logged; the
put goes out; nothing of the session changes), and each action is one of them. The gate follows
from `Covered`: a put appends exactly one write, which has a permit and was not made before.

*Routes*: RoutesAgree and MonitorMatchesRoutes are not inductive, since they say nothing of what is
under way. In PvSocket `IInv` adds: a callback on its way to the monitor is the routed one, on its way
for one client only, which is entered for its PV, and is not there yet (`Arriving`); one whose
subscribe raised stays routed until that is handled, is not there, and fails one client only
(`Failing`, `HandlerInv`); one on its way out is not routed (`Departing`); callbacks stay with their PV
(`Bound`). `Failing` is what makes `HandleFailure` sound: it drops all the clients of the PV, and
nothing of it is left in the monitor. `Departing` is what makes a teardown that overlaps a new first
client sound: it removes the old closure only. One lemma per kind of step (`Entering`, `Leaving`,
`Registering`, `Raising`, `Handling`, `Unregistering`) and one for all the others (`RoutingFrame`).
That what the last client takes with it are callbacks is part of type correctness (`Linked`).
The device socket is alike (`HandlerInv`, `CallbackInv`; `Entering`, `Leaving`, `Subscribing`,
`Unsubscribing`, `Answering`, `RoutingFrame`), where `Disjoint` is used for two facts: the
entry in `_pv_callbacks` that a first client overwrites is free, and the one a last client removes is its
device's own. *Caps*: the request that waits for its lookup or its probe is counted already, and nothing
else enters anything for that client meanwhile (`CapInv`). *Cache*: an answer on its way was true when it was
read, at most HttpTimeout ago, and what is cached was such an answer when it was stamped; the age of a verdict
adds the TTL.

*Status*: subscribe presets the status before it registers for the metadata, so only the last queued
connection event is compared, as with the values; the proof is by `Ownership` again. *Subscribers*: neither
BehindOnlyIfOvertaken nor ReconnectionIsTold is inductive. `Told` says of every callback of a PV that the value dispatcher
calls it with the cached value or not at all, overtaken or not (`ValueTold`): that is why an overtaken callback is level
again once the value dispatcher is the last to call it; and `Separate` adds that a callback is on one PV, that the one a
pending subscribe brings is nobody's yet, and that nothing is kept of a call once it is made. *Promise*: every step of the manager is a step
of `Monitor` or a stutter (`PromiseStep`), from type correctness, `Ownership` and CacheCoherent: an open subscribe is
hidden, since its PV's value is not shown before the lock is released; the update of a handled event is
the abstract update because the callbacks are copied in the same section; of all
the PVs a step does not concern, one lemma says that nothing about them changes (`ApartFacts`).
*Jobs*: JobsHaveOwners is inductive given the types: a session enters the queue when it hands a job to the pool,
and leaves where it waits only when the job is done.

*No gap*: at rest a client has seen the newest value. What holds at every moment (`Carried`) is that
the monitor's value of a PV, or a newer one, is on its way to each of its clients in one of six places: an
update is owed, the callback is being called with it, a broadcast holds it, the client is about to
fetch it, has fetched it, or has seen it (`OnItsWay`). That needs two facts about what is missing: a
tracked PV without a value is owed an update (`OneOwed`), and as long as the routed callback is not in the monitor,
the client that brings it there has yet to fetch (`FirstFetches`); the clients that joined it meanwhile are
the named exceptions (`early`; `missed` and `lost` in the device socket). The rest is which step moves a value
from one place to the next: one lemma per kind of step, and a frame lemma for the others. In the device socket the update of
a PV is found through the closure in `_pv_callbacks`, so the routes (`CallbackInv`) and `Disjoint` are used.

*Locks*: `Placed` says that the tasks in the queue of a lock are exactly those whose place in the code
is before its release, each of them once; NoLockLeftBehind is half of it. Granting the lock in turn, a cancelled
heartbeat that gives up its place and a task that leaves while it waits are then facts about a
sequence without repetitions (`Without`, `Acquire`). *Order*: BroadcastsInOrder says nothing of broadcasts on their way. `InOrder`
adds that an undisturbed broadcast has a last part of the clients before it (`OnTrack`), that broadcasts copy
their clients in the order posted (`CopyInOrder`), that a newer one is at an earlier client or
behind the older one in the queue that both wait in (`NotOvertaken`), and that a client the older one has
yet to reach has received nothing newer (`NothingNewer`). It is the FIFO order of the two kinds of lock
that proves the third.

Every invariant a passing run checks is thus a theorem, and so are the two
refinements, AsksFirst and KeepsPromise. Only model-checked, since
they rest on fairness and ENABLED, which are out of the prover's reach: the
liveness properties LastClientReleases, EveryCommandAnswered, EveryBroadcastEnds and DeadPeerReleased. The five violated
properties are statements the code does not keep; AllPvsSubscribed is also proved where it does hold. The model of
ValueEndpoint has no theorem: the statement about it is false. No module here needs recursion over data.

## What is not modelled

- Updates of a PV's connection over the sockets, and values above the size cap, which become an error
  message to the client: the sockets' models are about which values arrive. That connection updates are
  made, with which value, and in which order with values, is in PVMonitor.
- The monitor's own calls in the loop's thread pool (subscribe, unsubscribe, get_value), which take workers from the
  puts of DirectControl: the pool of the model runs the commands' jobs only.
- A device two of whose components are one PV: DeviceSocket identifies a component with its PV. In the code the two
  callbacks overwrite one another's entry in `_pv_callbacks`, and one of them stays in the monitor when the
  device is released.
- Who releases a signal that never had a callback (a rejected probe, a monitored read, a subscribe that raised):
  nobody does, in the code as in the models, until a client subscribes to the PV and leaves it.
- Durations: every timeout may strike at any time, except in RegistryCache, where the age of an answer is
  the point. 5 s under the monitor's lock and a timeout of 0 turned into the default are listed as hazards without a property.
- The order of shutdown in `lifespan`: the server waits for its connections before it runs it, so it meets no
  handler. `CloseAll` and `Cleanup` are actions that may happen at any time all the same.
- Describers, array metadata, request and response classes, conversions of values, the proxied device
  listings and component trees, health and statistics, the command line: pure functions, data or I/O, without state
  that interacts.

## Plan

1. Connection updates in PvSocket, and what a health request sees while `subscribe` holds the monitor's lock.
2. What of ValueEndpoint does hold (an answer is never older than the monitor's value when it was read) as a
   property with its theorem.
3. That PvSocket and DeviceSocket implement one abstract socket, now that both have the same shape of
   proof for NoGap.
