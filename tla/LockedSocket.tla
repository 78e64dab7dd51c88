---------------------------- MODULE LockedSocket ----------------------------
(***************************************************************************)
(* The sends of DeviceWebSocketManager (device_websocket_manager.py) and   *)
(* of WebSocketManager, whose broadcasts are the same: who waits for whom. *)
(* A client has three senders, its handler, the broadcasts and a heartbeat *)
(* (_envelopes.py), which share the send lock of its LockedWS; and all of  *)
(* them but the heartbeat take the lock of the manager.                    *)
(*                                                                         *)
(* The asyncio locks are fair, so a lock is the queue of the tasks that    *)
(* want it and its head is the holder; a task runs a locked section in one *)
(* action.  Updates are those of one device, and what a client subscribes  *)
(* to is that device: its routes, PVs and values are in DeviceSocket.      *)
(*                                                                         *)
(* gone[c] is the moment the transport of c takes no more frames: a send   *)
(* then fails, and one to any other client completes.  The client may be   *)
(* slow, but uvicorn's keepalive pings end a connection on which nothing   *)
(* moves.  The handler is not told unless the peer says goodbye.           *)
(***************************************************************************)
EXTENDS Naturals, FiniteSets, Sequences, SequencesExt

CONSTANTS
    Client,        \* WebSocket clients, each connecting once
    MaxUpdate,     \* bound: updates of the device
    MaxRequest     \* bound: messages the clients send

ASSUME BoundsAssumption == MaxUpdate \in Nat /\ MaxRequest \in Nat

Update == 1 .. MaxUpdate

\* The tasks of the event loop, and the locks they share: that of the manager,
\* and the _send_lock of each client's LockedWS.
Broadcast(u) == <<"broadcast", u>>
Handler(c) == <<"handler", c>>
Heartbeat(c) == <<"heartbeat", c>>
Task == {Broadcast(u) : u \in Update} \cup {Handler(c) : c \in Client}
            \cup {Heartbeat(c) : c \in Client}
Manager == <<"manager">>
SendLock(c) == <<"send", c>>
Lock == {Manager} \cup {SendLock(c) : c \in Client}

VARIABLES
    queue,         \* of each lock: its holder and those that wait for it
    connections,   \* _connections
    order,         \* _device_clients of the device, in the set's order
    broadcast,     \* of each update's broadcast, where it is
    todo,          \* the clients it has not sent to yet
    disturbed,     \* history: a client came or went since it copied them
    handler,       \* of each client's handler, where it is
    requests,      \* messages the clients have sent
    heartbeat,     \* of each client's heartbeat_loop, where it is
    gone, closed,  \* the transport is broken; the server has closed it
    received       \* the updates that reached each client

tasks == <<broadcast, todo, handler, heartbeat>>
vars == <<queue, connections, order, tasks, disturbed, requests, gone, closed, received>>

TypeOK ==
    /\ queue \in [Lock -> Seq(Task)]
    /\ connections \subseteq Client
    /\ order \in Seq(Client) /\ IsInjective(order)
    /\ broadcast \in [Update -> {"posted", "copying", "looking", "sending", "done"}]
    /\ todo \in [Update -> Seq(Client)]
    /\ disturbed \in [Update -> BOOLEAN]
    /\ handler \in [Client -> {"new", "connecting", "receiving", "subscribing",
            "unsubscribing", "reading", "checking", "complaining",
            "replying", "leaving", "left"}]
    /\ requests \in 0 .. MaxRequest
    /\ heartbeat \in [Client -> {"none", "sleeping", "sending", "ended"}]
    /\ gone \in [Client -> BOOLEAN]
    /\ closed \in [Client -> BOOLEAN]
    /\ received \in [Client -> Seq(Update)]

Init ==
    /\ queue = [k \in Lock |-> <<>>]
    /\ connections = {}
    /\ order = <<>>
    /\ broadcast = [u \in Update |-> "posted"]
    /\ todo = [u \in Update |-> <<>>]
    /\ disturbed = [u \in Update |-> FALSE]
    /\ handler = [c \in Client |-> "new"]
    /\ requests = 0
    /\ heartbeat = [c \in Client |-> "none"]
    /\ gone = [c \in Client |-> FALSE]
    /\ closed = [c \in Client |-> FALSE]
    /\ received = [c \in Client |-> <<>>]

Holds(t, k) == queue[k] # <<>> /\ Head(queue[k]) = t

\* A task is in the queue of a lock once at most, as its holder or further back.
Without(s, t) ==
    IF t \in ToSet(s) THEN RemoveAt(s, CHOOSE i \in DOMAIN s : s[i] = t) ELSE s

\* What becomes of the queues q when t lets go of k, or asks for it.
Release(q, t, k) == [q EXCEPT ![k] = Without(@, t)]
Acquire(q, t, k) == [q EXCEPT ![k] = Append(@, t)]
Pass(t, from, to) == queue' = Acquire(Release(queue, t, from), t, to)

\* The order of a set may be another one after each change.
Arranged(S) == {s \in [1 .. Cardinality(S) -> S] : IsInjective(s)}

\* Broadcasts on their way see the clients change.
Disturb ==
    disturbed' = [u \in Update |-> disturbed[u] \/ broadcast[u] \in {"looking", "sending"}]

-----------------------------------------------------------------------------
(* Broadcasts: _broadcast_device_update and _send_to_client                *)

\* Mistake: coroutines start as the threads that made them please.
StartAnyOrder(u) ==
    /\ broadcast[u] = "posted"
    /\ broadcast' = [broadcast EXCEPT ![u] = "copying"]
    /\ queue' = Acquire(queue, Broadcast(u), Manager)
    /\ UNCHANGED <<connections, order, todo, handler, heartbeat, disturbed, requests,
                   gone, closed, received>>

\* run_coroutine_threadsafe: coroutines start in the order they were posted.
Start(u) ==
    /\ broadcast[u] = "posted"
    /\ \A v \in 1 .. u - 1 : broadcast[v] # "posted"
    /\ broadcast' = [broadcast EXCEPT ![u] = "copying"]
    /\ queue' = Acquire(queue, Broadcast(u), Manager)
    /\ UNCHANGED <<connections, order, todo, handler, heartbeat, disturbed, requests,
                   gone, closed, received>>

\* The next client, for whose connection the manager's lock is taken again.
Proceed(u, q, clients) ==
    /\ todo' = [todo EXCEPT ![u] = clients]
    /\ IF clients = <<>>
       THEN /\ broadcast' = [broadcast EXCEPT ![u] = "done"]
            /\ queue' = q
       ELSE /\ broadcast' = [broadcast EXCEPT ![u] = "looking"]
            /\ queue' = Acquire(q, Broadcast(u), Manager)

CopyClients(u) ==
    /\ broadcast[u] = "copying"
    /\ Holds(Broadcast(u), Manager)
    /\ Proceed(u, Release(queue, Broadcast(u), Manager), order)
    /\ UNCHANGED <<connections, order, handler, heartbeat, disturbed, requests,
                   gone, closed, received>>

LookUp(u) ==
    LET c == Head(todo[u])
    IN  /\ broadcast[u] = "looking"
        /\ Holds(Broadcast(u), Manager)
        /\ \/ /\ c \in connections
              /\ broadcast' = [broadcast EXCEPT ![u] = "sending"]
              /\ Pass(Broadcast(u), Manager, SendLock(c))
              /\ UNCHANGED todo
           \/ /\ c \notin connections
              /\ Proceed(u, Release(queue, Broadcast(u), Manager), Tail(todo[u]))
        /\ UNCHANGED <<connections, order, handler, heartbeat, disturbed, requests,
                       gone, closed, received>>

\* A failure is logged and the next client served.
SendUpdate(u) ==
    LET c == Head(todo[u])
    IN  /\ broadcast[u] = "sending"
        /\ Holds(Broadcast(u), SendLock(c))
        /\ received' = IF gone[c] THEN received ELSE [received EXCEPT ![c] = Append(@, u)]
        /\ Proceed(u, Release(queue, Broadcast(u), SendLock(c)), Tail(todo[u]))
        /\ UNCHANGED <<connections, order, handler, heartbeat, disturbed, requests,
                       gone, closed>>

-----------------------------------------------------------------------------
(* The handler of a client                                                 *)

\* The handler moves on, having asked for the locks in q.
Goes(c, to, q) ==
    /\ handler' = [handler EXCEPT ![c] = to]
    /\ queue' = q

Accept(c) ==
    /\ handler[c] = "new"
    /\ Goes(c, "connecting", Acquire(queue, Handler(c), Manager))
    /\ UNCHANGED <<connections, order, broadcast, todo, heartbeat, disturbed, requests,
                   gone, closed, received>>

Connect(c) ==
    /\ handler[c] = "connecting"
    /\ Holds(Handler(c), Manager)
    /\ connections' = connections \cup {c}
    /\ heartbeat' = [heartbeat EXCEPT ![c] = "sleeping"]
    /\ Goes(c, "receiving", Release(queue, Handler(c), Manager))
    /\ Disturb
    /\ UNCHANGED <<order, broadcast, todo, requests, gone, closed, received>>

\* A message: subscribe, unsubscribe, refresh, and set or stop take the
\* manager's lock; ping and what is malformed is answered at once.
Request(c) ==
    /\ handler[c] = "receiving"
    /\ ~gone[c]
    /\ requests < MaxRequest
    /\ requests' = requests + 1
    /\ \/ \E to \in {"subscribing", "unsubscribing", "reading", "checking"} :
            Goes(c, to, Acquire(queue, Handler(c), Manager))
       \/ Goes(c, "replying", Acquire(queue, Handler(c), SendLock(c)))
    /\ UNCHANGED <<connections, order, broadcast, todo, heartbeat, disturbed,
                   gone, closed, received>>

\* Mistake: the clients are a list, and one that subscribes twice is in it twice.
SubscribeTwice(c) ==
    /\ handler[c] = "subscribing"
    /\ Holds(Handler(c), Manager)
    /\ order' = Append(order, c)
    /\ Disturb
    /\ Goes(c, "reading", Acquire(Release(queue, Handler(c), Manager), Handler(c), Manager))
    /\ UNCHANGED <<connections, broadcast, todo, heartbeat, requests, gone, closed, received>>

\* subscribe_device's second section, and what follows outside it up to
\* _send_current_values, which asks for the lock again.  A client that has the
\* device is answered.
Subscribe(c) ==
    /\ handler[c] = "subscribing"
    /\ Holds(Handler(c), Manager)
    /\ \/ /\ c \notin ToSet(order)
          /\ order' \in Arranged(ToSet(order) \cup {c})
          /\ Disturb
          /\ Goes(c, "reading",
                  Acquire(Release(queue, Handler(c), Manager), Handler(c), Manager))
       \/ /\ c \in ToSet(order)
          /\ Pass(Handler(c), Manager, SendLock(c))
          /\ handler' = [handler EXCEPT ![c] = "replying"]
          /\ UNCHANGED <<order, disturbed>>
    /\ UNCHANGED <<connections, broadcast, todo, heartbeat, requests, gone, closed, received>>

Unsubscribe(c) ==
    /\ handler[c] = "unsubscribing"
    /\ Holds(Handler(c), Manager)
    /\ order' \in Arranged(ToSet(order) \ {c})
    /\ Disturb
    /\ Goes(c, "replying",
            Acquire(Release(queue, Handler(c), Manager), Handler(c), SendLock(c)))
    /\ UNCHANGED <<connections, broadcast, todo, heartbeat, requests, gone, closed, received>>

\* _send_current_values: the connection and PVs under the lock.  The values are
\* sent like the reply after them; if one fails that is logged, and so does the
\* reply.
ReadCurrent(c) ==
    /\ handler[c] = "reading"
    /\ Holds(Handler(c), Manager)
    /\ Goes(c, "replying",
            Acquire(Release(queue, Handler(c), Manager), Handler(c), SendLock(c)))
    /\ UNCHANGED <<connections, order, broadcast, todo, heartbeat, disturbed, requests,
                   gone, closed, received>>

\* Set and stop of a device the client has not subscribed to: the error is
\* sent with the manager's lock held.  Otherwise the command, and its outcome.
Check(c) ==
    /\ handler[c] = "checking"
    /\ Holds(Handler(c), Manager)
    /\ IF c \in ToSet(order)
       THEN Goes(c, "replying",
                 Acquire(Release(queue, Handler(c), Manager), Handler(c), SendLock(c)))
       ELSE Goes(c, "complaining", Acquire(queue, Handler(c), SendLock(c)))
    /\ UNCHANGED <<connections, order, broadcast, todo, heartbeat, disturbed, requests,
                   gone, closed, received>>

\* Back to receive_json, or out of the loop: disconnect wants the lock.
Returns(c, q) ==
    IF gone[c] THEN Goes(c, "leaving", Acquire(q, Handler(c), Manager))
               ELSE Goes(c, "receiving", q)

Complain(c) ==
    /\ handler[c] = "complaining"
    /\ Holds(Handler(c), SendLock(c))
    /\ Returns(c, Release(Release(queue, Handler(c), SendLock(c)), Handler(c), Manager))
    /\ UNCHANGED <<connections, order, broadcast, todo, heartbeat, disturbed, requests,
                   gone, closed, received>>

Reply(c) ==
    /\ handler[c] = "replying"
    /\ Holds(Handler(c), SendLock(c))
    /\ Returns(c, Release(queue, Handler(c), SendLock(c)))
    /\ UNCHANGED <<connections, order, broadcast, todo, heartbeat, disturbed, requests,
                   gone, closed, received>>

\* receive_json raises once the server has closed the connection.
ReceiveFails(c) ==
    /\ handler[c] = "receiving"
    /\ closed[c]
    /\ Goes(c, "leaving", Acquire(queue, Handler(c), Manager))
    /\ UNCHANGED <<connections, order, broadcast, todo, heartbeat, disturbed, requests,
                   gone, closed, received>>

\* Mistake: the task is forgotten with its place in the queue of the send lock.
DisconnectForgettingHeartbeat(c) ==
    /\ handler[c] = "leaving"
    /\ Holds(Handler(c), Manager)
    /\ connections' = connections \ {c}
    /\ order' \in Arranged(ToSet(order) \ {c})
    /\ heartbeat' = [heartbeat EXCEPT ![c] = "ended"]
    /\ Disturb
    /\ Goes(c, "left", Release(queue, Handler(c), Manager))
    /\ UNCHANGED <<broadcast, todo, requests, gone, closed, received>>

\* disconnect cancels the heartbeat, wherever it is; one that waits for the send
\* lock, or holds it, gives it up.
Disconnect(c) ==
    /\ handler[c] = "leaving"
    /\ Holds(Handler(c), Manager)
    /\ connections' = connections \ {c}
    /\ order' \in Arranged(ToSet(order) \ {c})
    /\ heartbeat' = [heartbeat EXCEPT ![c] = "ended"]
    /\ Disturb
    /\ Goes(c, "left",
            Release(Release(queue, Handler(c), Manager), Heartbeat(c), SendLock(c)))
    /\ UNCHANGED <<broadcast, todo, requests, gone, closed, received>>

-----------------------------------------------------------------------------
(* heartbeat_loop                                                          *)

WakeUp(c) ==
    /\ heartbeat[c] = "sleeping"
    /\ heartbeat' = [heartbeat EXCEPT ![c] = "sending"]
    /\ queue' = Acquire(queue, Heartbeat(c), SendLock(c))
    /\ UNCHANGED <<connections, order, broadcast, todo, handler, disturbed, requests,
                   gone, closed, received>>

\* Mistake: a failed send is swallowed and the loop goes on.
BeatForEver(c) ==
    /\ heartbeat[c] = "sending"
    /\ Holds(Heartbeat(c), SendLock(c))
    /\ heartbeat' = [heartbeat EXCEPT ![c] = "sleeping"]
    /\ queue' = Release(queue, Heartbeat(c), SendLock(c))
    /\ UNCHANGED <<connections, order, broadcast, todo, handler, disturbed, requests,
                   gone, closed, received>>

\* After a failed send the loop ends with LockedWS.close, which does not take the
\* lock and has nobody to wait for on a broken transport.
Beat(c) ==
    /\ heartbeat[c] = "sending"
    /\ Holds(Heartbeat(c), SendLock(c))
    /\ heartbeat' = [heartbeat EXCEPT ![c] = IF gone[c] THEN "ended" ELSE "sleeping"]
    /\ closed' = [closed EXCEPT ![c] = gone[c]]
    /\ queue' = Release(queue, Heartbeat(c), SendLock(c))
    /\ UNCHANGED <<connections, order, broadcast, todo, handler, disturbed, requests,
                   gone, received>>

-----------------------------------------------------------------------------
(* The peers                                                               *)

\* The peer closes the connection: receive_json raises WebSocketDisconnect.
SayGoodbye(c) ==
    /\ handler[c] = "receiving"
    /\ gone' = [gone EXCEPT ![c] = TRUE]
    /\ Goes(c, "leaving", Acquire(queue, Handler(c), Manager))
    /\ UNCHANGED <<connections, order, broadcast, todo, heartbeat, disturbed, requests,
                   closed, received>>

\* The peer is lost without a word.
Vanish(c) ==
    /\ handler[c] \notin {"new", "left"}
    /\ ~gone[c]
    /\ gone' = [gone EXCEPT ![c] = TRUE]
    /\ UNCHANGED <<queue, connections, order, broadcast, todo, handler, heartbeat, disturbed,
                   requests, closed, received>>

-----------------------------------------------------------------------------

BroadcastStep(u) == CopyClients(u) \/ LookUp(u) \/ SendUpdate(u)

HandlerStep(c) ==
    \/ Connect(c) \/ Subscribe(c) \/ Unsubscribe(c) \/ ReadCurrent(c)
    \/ Check(c) \/ Complain(c) \/ Reply(c) \/ ReceiveFails(c) \/ Disconnect(c)

HeartbeatStep(c) == WakeUp(c) \/ Beat(c)

World ==
    \/ \E u \in Update : Start(u)
    \/ \E c \in Client : Accept(c) \/ Request(c) \/ SayGoodbye(c) \/ Vanish(c)

Next ==
    \/ \E u \in Update : BroadcastStep(u)
    \/ \E c \in Client : HandlerStep(c) \/ HeartbeatStep(c)
    \/ World

\* The event loop runs whatever is ready, sends complete or fail, and sleeps
\* end; nobody has to connect, ask for anything or go away.
Fairness ==
    /\ \A u \in Update : WF_vars(BroadcastStep(u))
    /\ \A c \in Client : WF_vars(HandlerStep(c)) /\ WF_vars(HeartbeatStep(c))

Spec == Init /\ [][Next]_vars /\ Fairness

-----------------------------------------------------------------------------
(* Properties                                                              *)

\* Updates reach a client in the order the monitor sent them, though each
\* broadcast visits the clients one await at a time and many run at once;
\* unless a client came or went after the older one had copied its clients.
BroadcastsInOrder ==
    \A c \in Client : \A i, j \in DOMAIN received[c] :
        i < j /\ received[c][i] > received[c][j] => disturbed[received[c][j]]

\* Whatever has ended holds no lock and waits for none: a cancelled heartbeat,
\* a failed send or a handler that left blocks no one.
NoLockLeftBehind ==
    \A k \in Lock, t \in Task : t \in ToSet(queue[k]) =>
        \/ \E u \in Update : t = Broadcast(u) /\ broadcast[u] # "done"
        \/ \E c \in Client : t = Handler(c) /\ handler[c] \notin {"receiving", "left"}
        \/ \E c \in Client : t = Heartbeat(c) /\ heartbeat[c] = "sending"

\* Every broadcast comes to its end, though it waits for locks that handlers
\* keep while they send, and clients vanish while they are sent to.
EveryBroadcastEnds ==
    \A u \in Update : broadcast[u] = "copying" ~> broadcast[u] = "done"

\* A client that vanished is found out by its heartbeat: the handler leaves and
\* its subscriptions are released, though it never asks for anything again.
DeadPeerReleased ==
    \A c \in Client : gone[c] ~> c \notin connections /\ c \notin ToSet(order)

=============================================================================
