-------------------------- MODULE LockedSocketProofs --------------------------
(***************************************************************************)
(* Theorems about LockedSocket, for any clients and any number of updates  *)
(* and messages: its types, that what has ended holds no lock, and that    *)
(* no broadcast overtakes an older one while nobody comes or goes.         *)
(*                                                                         *)
(* The queues are spoken of in three ways only, for which there is a lemma *)
(* each: who is in them, who is ahead of whom, and who holds the lock.     *)
(***************************************************************************)
EXTENDS LockedSocket, SequenceTheorems, FiniteSetTheorems, TLAPS

Queued(q, t, k) == t \in ToSet(q[k])
Ahead(q, s, t, k) == \E i, j \in DOMAIN q[k] : i < j /\ q[k][i] = s /\ q[k][j] = t
Orderly(q) == q \in [Lock -> Seq(Task)] /\ \A k \in Lock : IsInjective(q[k])

\* The locks that a broadcast, a handler or a heartbeat holds or waits for.
BroadcastAt(u) ==
    IF broadcast[u] \in {"copying", "looking"} THEN {Manager}
    ELSE IF broadcast[u] = "sending" THEN {SendLock(Head(todo[u]))} ELSE {}
HandlerAt(c) ==
    (IF handler[c] \in {"connecting", "subscribing", "unsubscribing", "reading",
                        "checking", "complaining", "leaving"} THEN {Manager} ELSE {})
    \cup (IF handler[c] \in {"complaining", "replying"} THEN {SendLock(c)} ELSE {})
HeartbeatAt(c) == IF heartbeat[c] = "sending" THEN {SendLock(c)} ELSE {}

\* NoLockLeftBehind made inductive: the tasks in a queue are exactly those
\* whose place in the code is there, each once.
Placed ==
    /\ Orderly(queue)
    /\ \A k \in Lock :
        /\ \A u \in Update : Queued(queue, Broadcast(u), k) <=> k \in BroadcastAt(u)
        /\ \A c \in Client : Queued(queue, Handler(c), k) <=> k \in HandlerAt(c)
        /\ \A c \in Client : Queued(queue, Heartbeat(c), k) <=> k \in HeartbeatAt(c)

\* A heartbeat starts with its connection, and a broadcast has clients left
\* exactly while it is on its way.
OnItsWay(u) == broadcast[u] \in {"looking", "sending"}
Waiting(u) == broadcast[u] \in {"posted", "copying"}
Started ==
    /\ \A c \in Client : handler[c] \in {"new", "connecting"} => heartbeat[c] = "none"
    /\ \A u \in Update : todo[u] # <<>> <=> OnItsWay(u)
    /\ \A u \in Update : Waiting(u) => ~disturbed[u]

-----------------------------------------------------------------------------
(* BroadcastsInOrder made inductive                                        *)

Steady(u) == OnItsWay(u) /\ ~disturbed[u]

\* A broadcast that nothing disturbs has a last part of the clients before it,
\* and the client it sends to is still there.
OnTrack ==
    \A u \in Update : Steady(u) =>
        /\ Len(todo[u]) <= Len(order)
        /\ \A i \in DOMAIN todo[u] : todo[u][i] = order[Len(order) - Len(todo[u]) + i]
        /\ broadcast[u] = "sending" => Head(todo[u]) \in connections

\* Broadcasts copy their clients in the order they were posted.
CopiesAfter(v, u) ==
    /\ broadcast[u] = "posted" => broadcast[v] = "posted"
    /\ broadcast[u] = "copying" =>
          /\ Waiting(v)
          /\ broadcast[v] = "copying" => Ahead(queue, Broadcast(u), Broadcast(v), Manager)
CopyInOrder == \A u, v \in Update : u < v => CopiesAfter(v, u)

\* A newer broadcast has at least as many clients before it; and where both are
\* at the same one, the older is ahead in the queue they share.
StaysBehind(v, u) ==
    /\ Steady(v)
    /\ Len(todo[u]) <= Len(todo[v])
    /\ Len(todo[u]) = Len(todo[v]) =>
          /\ broadcast[u] = "looking" =>
                /\ broadcast[v] = "looking"
                /\ Ahead(queue, Broadcast(u), Broadcast(v), Manager)
          /\ broadcast[u] = "sending" /\ broadcast[v] = "sending" =>
                Ahead(queue, Broadcast(u), Broadcast(v), SendLock(Head(todo[u])))
NotOvertaken ==
    \A u, v \in Update : u < v /\ Steady(u) /\ ~Waiting(v) => StaysBehind(v, u)

\* What a client has received is nothing that still waits, and nothing newer
\* than what is still to come.
NothingNewer ==
    \A c \in Client, v \in Update :
        /\ Waiting(v) => v \notin ToSet(received[c])
        /\ \A u \in Update : u < v /\ Steady(u) /\ c \in ToSet(todo[u])
               => v \notin ToSet(received[c])

InOrder == OnTrack /\ CopyInOrder /\ NotOvertaken /\ NothingNewer /\ BroadcastsInOrder

IInv == TypeOK /\ Placed /\ Started /\ InOrder

-----------------------------------------------------------------------------
(* Tasks, locks and queues                                                 *)

LEMMA TaskFacts ==
    /\ \A u \in Update : Broadcast(u) \in Task
    /\ \A c \in Client : Handler(c) \in Task /\ Heartbeat(c) \in Task
    /\ \A t \in Task : \/ \E u \in Update : t = Broadcast(u)
                       \/ \E c \in Client : t = Handler(c) \/ t = Heartbeat(c)
    /\ \A u, v : Broadcast(u) = Broadcast(v) => u = v
    /\ \A c, d : Handler(c) = Handler(d) => c = d
    /\ \A c, d : Heartbeat(c) = Heartbeat(d) => c = d
    /\ \A c, d : Handler(c) # Heartbeat(d)
    /\ \A u, d : Broadcast(u) # Handler(d)
    /\ \A u, d : Broadcast(u) # Heartbeat(d)
<1>1. \A t \in Task : \/ \E u \in Update : t = Broadcast(u)
                    \/ \E c \in Client : t = Handler(c) \/ t = Heartbeat(c)
  BY DEF Task
<1>2. /\ \A u \in Update : Broadcast(u) \in Task
      /\ \A c \in Client : Handler(c) \in Task /\ Heartbeat(c) \in Task
  BY DEF Task
<1> QED BY <1>1, <1>2 DEF Broadcast, Handler, Heartbeat

LEMMA LockFacts ==
    /\ Manager \in Lock
    /\ \A c \in Client : SendLock(c) \in Lock
    /\ \A c : SendLock(c) # Manager
    /\ \A c, d : SendLock(c) = SendLock(d) => c = d
<1>1. \A c : SendLock(c) # Manager
  <2> SUFFICES ASSUME NEW c, SendLock(c) = Manager PROVE FALSE
    OBVIOUS
  <2>1. Len(<<"send", c>>) = 2 /\ Len(<<"manager">>) = 1
    OBVIOUS
  <2> QED BY <2>1 DEF SendLock, Manager
<1>2. \A c, d : SendLock(c) = SendLock(d) => c = d
  BY DEF SendLock
<1> QED BY <1>1, <1>2 DEF Lock

\* A queue with one element more, at its end.
LEMMA AppendedFacts ==
    ASSUME NEW S, NEW s \in Seq(S), NEW t \in S
    PROVE  /\ Append(s, t) \in Seq(S)
           /\ ToSet(Append(s, t)) = ToSet(s) \cup {t}
           /\ DOMAIN s = 1 .. Len(s) /\ Len(s) \in Nat
           /\ DOMAIN Append(s, t) = 1 .. Len(s) + 1
           /\ \A i \in DOMAIN s : Append(s, t)[i] = s[i]
           /\ Append(s, t)[Len(s) + 1] = t
           /\ IsInjective(s) /\ t \notin ToSet(s) => IsInjective(Append(s, t))
<1>1. /\ Append(s, t) \in Seq(S)
      /\ DOMAIN s = 1 .. Len(s) /\ Len(s) \in Nat
      /\ DOMAIN Append(s, t) = 1 .. Len(s) + 1
      /\ \A i \in 1 .. Len(s) : Append(s, t)[i] = s[i]
      /\ Append(s, t)[Len(s) + 1] = t
  OBVIOUS
<1>2. \A i \in DOMAIN Append(s, t) : i \in DOMAIN s \/ i = Len(s) + 1
  BY <1>1
<1>3. ToSet(Append(s, t)) = ToSet(s) \cup {t}
  BY <1>1, <1>2 DEF ToSet
<1>4. IsInjective(s) /\ t \notin ToSet(s) => IsInjective(Append(s, t))
  BY <1>1, <1>2 DEF ToSet, IsInjective
<1> QED BY <1>1, <1>3, <1>4

\* A queue with one element less, wherever it was: the others keep their order.
LEMMA WithoutFacts ==
    ASSUME NEW S, NEW s \in Seq(S), IsInjective(s), NEW t
    PROVE  /\ Without(s, t) \in Seq(S)
           /\ IsInjective(Without(s, t))
           /\ ToSet(Without(s, t)) = ToSet(s) \ {t}
           /\ \A i, j \in DOMAIN s : i < j /\ s[i] # t /\ s[j] # t =>
                  \E k, l \in DOMAIN Without(s, t) :
                      k < l /\ Without(s, t)[k] = s[i] /\ Without(s, t)[l] = s[j]
<1>1. CASE t \notin ToSet(s)
  BY <1>1 DEF Without, ToSet
<1>2. CASE t \in ToSet(s)
  <2> DEFINE n == CHOOSE i \in DOMAIN s : s[i] = t
             w == RemoveAt(s, n)
  <2>1. n \in DOMAIN s /\ s[n] = t /\ DOMAIN s = 1 .. Len(s) /\ Len(s) \in Nat
    BY <1>2 DEF ToSet
  <2>2. Without(s, t) = w
    BY <1>2 DEF Without
  <2> HIDE DEF n
  <2>3. /\ SubSeq(s, 1, n - 1) \in Seq(S) /\ Len(SubSeq(s, 1, n - 1)) = n - 1
        /\ \A i \in 1 .. n - 1 : SubSeq(s, 1, n - 1)[i] = s[i]
        /\ SubSeq(s, n + 1, Len(s)) \in Seq(S)
        /\ Len(SubSeq(s, n + 1, Len(s))) = Len(s) - n
        /\ \A i \in 1 .. Len(s) - n : SubSeq(s, n + 1, Len(s))[i] = s[n + i]
    BY <2>1
  <2>4. /\ w \in Seq(S) /\ DOMAIN w = 1 .. Len(s) - 1
        /\ \A i \in 1 .. Len(s) - 1 : w[i] = IF i < n THEN s[i] ELSE s[i + 1]
    <3> DEFINE a == SubSeq(s, 1, n - 1)
               b == SubSeq(s, n + 1, Len(s))
    <3>1. w = a \o b
      BY DEF RemoveAt
    <3> HIDE DEF a, b, w
    <3>2. /\ a \in Seq(S) /\ Len(a) = n - 1 /\ \A i \in 1 .. n - 1 : a[i] = s[i]
          /\ b \in Seq(S) /\ Len(b) = Len(s) - n /\ \A i \in 1 .. Len(s) - n : b[i] = s[n + i]
      BY <2>3 DEF a, b
    <3>3. /\ w \in Seq(S) /\ Len(w) = Len(s) - 1
          /\ \A i \in 1 .. Len(s) - 1 : w[i] = IF i <= n - 1 THEN a[i] ELSE b[i - (n - 1)]
      <4>1. /\ w \in Seq(S) /\ Len(w) = Len(a) + Len(b)
            /\ \A i \in 1 .. Len(a) + Len(b) : w[i] = IF i <= Len(a) THEN a[i] ELSE b[i - Len(a)]
        BY <3>1, <3>2, ConcatProperties
      <4>2. Len(a) + Len(b) = Len(s) - 1
        BY <2>1, <3>2
      <4> QED BY <3>2, <4>1, <4>2
    <3>4. ASSUME NEW i \in 1 .. Len(s) - 1 PROVE w[i] = IF i < n THEN s[i] ELSE s[i + 1]
      <4>1. CASE i < n
        BY <4>1, <2>1, <3>2, <3>3
      <4>2. CASE ~(i < n)
        <5>1. i - (n - 1) \in 1 .. Len(s) - n /\ n + (i - (n - 1)) = i + 1
          BY <4>2, <2>1
        <5> QED BY <4>2, <5>1, <2>1, <3>2, <3>3
      <4> QED BY <4>1, <4>2
    <3> QED BY <3>3, <3>4
  <2> HIDE DEF w
  <2>5. IsInjective(w)
    BY <2>1, <2>4 DEF IsInjective
  <2>6. \A i \in DOMAIN s : s[i] # t =>
            /\ i < n => i \in DOMAIN w /\ w[i] = s[i]
            /\ i > n => i - 1 \in DOMAIN w /\ w[i - 1] = s[i]
            /\ i # n
    BY <2>1, <2>4
  <2>7. \A i \in DOMAIN w : w[i] \in ToSet(s) \ {t}
    BY <2>1, <2>4 DEF ToSet, IsInjective
  <2>8. ToSet(w) = ToSet(s) \ {t}
    <3>1. ToSet(w) \subseteq ToSet(s) \ {t}
      BY <2>7 DEF ToSet
    <3>2. ASSUME NEW i \in DOMAIN s, s[i] # t PROVE s[i] \in ToSet(w)
      BY <2>1, <2>6, <3>2 DEF ToSet
    <3> QED BY <3>1, <3>2 DEF ToSet
  <2>9. ASSUME NEW i \in DOMAIN s, NEW j \in DOMAIN s, i < j, s[i] # t, s[j] # t
        PROVE  \E k, l \in DOMAIN w : k < l /\ w[k] = s[i] /\ w[l] = s[j]
    <3>1. CASE j < n
      BY <3>1, <2>1, <2>6, <2>9
    <3>2. CASE i < n /\ n < j
      BY <3>2, <2>1, <2>4, <2>6, <2>9
    <3>3. CASE n < i
      BY <3>3, <2>1, <2>6, <2>9
    <3> QED BY <3>1, <3>2, <3>3, <2>1, <2>6, <2>9
  <2> QED BY <2>2, <2>4, <2>5, <2>8, <2>9
<1> QED BY <1>1, <1>2

LEMMA AcquireFacts ==
    ASSUME NEW q, Orderly(q), NEW t \in Task, NEW k \in Lock, ~Queued(q, t, k)
    PROVE  /\ Orderly(Acquire(q, t, k))
           /\ \A l \in Lock, s \in Task :
                  Queued(Acquire(q, t, k), s, l) <=> Queued(q, s, l) \/ (s = t /\ l = k)
           /\ \A l \in Lock, r, s \in Task : Ahead(q, r, s, l) => Ahead(Acquire(q, t, k), r, s, l)
           /\ \A s \in Task : Queued(q, s, k) => Ahead(Acquire(q, t, k), s, t, k)
<1> DEFINE p == Acquire(q, t, k)
<1>1. q \in [Lock -> Seq(Task)] /\ \A l \in Lock : q[l] \in Seq(Task) /\ IsInjective(q[l])
  BY DEF Orderly
<1>2. p = [q EXCEPT ![k] = Append(q[k], t)]
  BY DEF Acquire
<1> HIDE DEF p
<1>3. p[k] = Append(q[k], t) /\ \A l \in Lock \ {k} : p[l] = q[l]
  BY <1>1, <1>2
<1>4. t \notin ToSet(q[k])
  BY DEF Queued
<1>5. /\ p[k] \in Seq(Task) /\ ToSet(p[k]) = ToSet(q[k]) \cup {t} /\ IsInjective(p[k])
      /\ DOMAIN q[k] = 1 .. Len(q[k]) /\ Len(q[k]) \in Nat /\ DOMAIN p[k] = 1 .. Len(q[k]) + 1
      /\ \A i \in DOMAIN q[k] : p[k][i] = q[k][i]
      /\ p[k][Len(q[k]) + 1] = t
  BY <1>1, <1>3, <1>4, AppendedFacts
<1>6. Orderly(p)
  BY <1>1, <1>2, <1>3, <1>5 DEF Orderly
<1>7. \A l \in Lock, s \in Task : Queued(p, s, l) <=> Queued(q, s, l) \/ (s = t /\ l = k)
  BY <1>3, <1>5 DEF Queued
<1>8. ASSUME NEW l \in Lock, NEW r \in Task, NEW s \in Task, Ahead(q, r, s, l)
      PROVE  Ahead(p, r, s, l)
  <2>1. CASE l = k
    <3>1. DOMAIN q[k] \subseteq DOMAIN p[k]
      BY <1>5
    <3> QED BY <2>1, <3>1, <1>5, <1>8 DEF Ahead
  <2>2. CASE l # k
    BY <2>2, <1>3, <1>8 DEF Ahead
  <2> QED BY <2>1, <2>2
<1>9. ASSUME NEW s \in Task, Queued(q, s, k) PROVE Ahead(p, s, t, k)
  <2>1. PICK i \in DOMAIN q[k] : q[k][i] = s
    BY <1>9 DEF Queued, ToSet
  <2>2. i \in DOMAIN p[k] /\ Len(q[k]) + 1 \in DOMAIN p[k] /\ i < Len(q[k]) + 1
    BY <2>1, <1>5
  <2> QED BY <2>1, <2>2, <1>5 DEF Ahead
<1> QED BY <1>6, <1>7, <1>8, <1>9 DEF p

LEMMA ReleaseFacts ==
    ASSUME NEW q, Orderly(q), NEW t \in Task, NEW k \in Lock
    PROVE  /\ Orderly(Release(q, t, k))
           /\ \A l \in Lock, s \in Task :
                  Queued(Release(q, t, k), s, l) <=> Queued(q, s, l) /\ ~(s = t /\ l = k)
           /\ \A l \in Lock, r, s \in Task :
                  Ahead(q, r, s, l) /\ (l = k => r # t /\ s # t)
                      => Ahead(Release(q, t, k), r, s, l)
<1> DEFINE p == Release(q, t, k)
<1>1. q \in [Lock -> Seq(Task)] /\ \A l \in Lock : q[l] \in Seq(Task) /\ IsInjective(q[l])
  BY DEF Orderly
<1>2. p = [q EXCEPT ![k] = Without(q[k], t)]
  BY DEF Release
<1> HIDE DEF p
<1>3. p[k] = Without(q[k], t) /\ \A l \in Lock \ {k} : p[l] = q[l]
  BY <1>1, <1>2
<1>4. /\ p[k] \in Seq(Task) /\ IsInjective(p[k]) /\ ToSet(p[k]) = ToSet(q[k]) \ {t}
      /\ \A i, j \in DOMAIN q[k] : i < j /\ q[k][i] # t /\ q[k][j] # t =>
             \E m, n \in DOMAIN p[k] : m < n /\ p[k][m] = q[k][i] /\ p[k][n] = q[k][j]
  BY <1>1, <1>3, WithoutFacts
<1>5. Orderly(p)
  BY <1>1, <1>2, <1>3, <1>4 DEF Orderly
<1>6. \A l \in Lock, s \in Task : Queued(p, s, l) <=> Queued(q, s, l) /\ ~(s = t /\ l = k)
  BY <1>3, <1>4 DEF Queued
<1>7. ASSUME NEW l \in Lock, NEW r \in Task, NEW s \in Task, Ahead(q, r, s, l),
             l = k => r # t /\ s # t
      PROVE  Ahead(p, r, s, l)
  <2>1. CASE l = k
    BY <2>1, <1>4, <1>7 DEF Ahead
  <2>2. CASE l # k
    BY <2>2, <1>3, <1>7 DEF Ahead
  <2> QED BY <2>1, <2>2
<1> QED BY <1>5, <1>6, <1>7 DEF p

\* The holder of a lock is in its queue, and nobody is ahead of it.
LEMMA HolderFacts ==
    ASSUME Orderly(queue), NEW t \in Task, NEW k \in Lock, Holds(t, k)
    PROVE  Queued(queue, t, k) /\ \A s \in Task : ~Ahead(queue, s, t, k)
<1>1. queue[k] \in Seq(Task) /\ IsInjective(queue[k]) /\ queue[k] # <<>> /\ Head(queue[k]) = t
  BY DEF Orderly, Holds
<1>2. 1 \in DOMAIN queue[k] /\ queue[k][1] = t /\ DOMAIN queue[k] = 1 .. Len(queue[k])
  BY <1>1
<1>3. Queued(queue, t, k)
  BY <1>2 DEF Queued, ToSet
<1>4. \A j \in DOMAIN queue[k] : queue[k][j] = t => j = 1
  BY <1>1, <1>2 DEF IsInjective
<1> QED BY <1>2, <1>3, <1>4 DEF Ahead

-----------------------------------------------------------------------------
(* Tasks that move                                                         *)

\* All tasks but t stay where they are, and in the order they are in.
Kept(q, p, t) ==
    \A l \in Lock :
        /\ \A s \in Task \ {t} : Queued(p, s, l) <=> Queued(q, s, l)
        /\ \A r, s \in Task \ {t} : Ahead(q, r, s, l) => Ahead(p, r, s, l)

LEMMA Acquires ==
    ASSUME NEW q, Orderly(q), NEW t \in Task, NEW k \in Lock, ~Queued(q, t, k)
    PROVE  /\ Orderly(Acquire(q, t, k)) /\ Kept(q, Acquire(q, t, k), t)
           /\ \A l \in Lock : Queued(Acquire(q, t, k), t, l) <=> Queued(q, t, l) \/ l = k
           /\ \A s \in Task \ {t} : Queued(q, s, k) => Ahead(Acquire(q, t, k), s, t, k)
  BY AcquireFacts DEF Kept

LEMMA Releases ==
    ASSUME NEW q, Orderly(q), NEW t \in Task, NEW k \in Lock
    PROVE  /\ Orderly(Release(q, t, k)) /\ Kept(q, Release(q, t, k), t)
           /\ \A l \in Lock : Queued(Release(q, t, k), t, l) <=> Queued(q, t, l) /\ l # k
  BY ReleaseFacts DEF Kept

LEMMA Passes ==
    ASSUME NEW q, Orderly(q), NEW t \in Task, NEW k \in Lock, NEW m \in Lock,
           Queued(q, t, m) => m = k
    PROVE  LET p == Acquire(Release(q, t, k), t, m) IN
           /\ Orderly(p) /\ Kept(q, p, t)
           /\ \A l \in Lock : Queued(p, t, l) <=> (Queued(q, t, l) /\ l # k) \/ l = m
           /\ \A s \in Task \ {t} : Queued(q, s, m) => Ahead(p, s, t, m)
<1> DEFINE r == Release(q, t, k)
           p == Acquire(r, t, m)
<1>1. /\ Orderly(r) /\ Kept(q, r, t)
      /\ \A l \in Lock : Queued(r, t, l) <=> Queued(q, t, l) /\ l # k
  BY Releases
<1> HIDE DEF r
<1>2. /\ Orderly(p) /\ Kept(r, p, t)
      /\ \A l \in Lock : Queued(p, t, l) <=> Queued(r, t, l) \/ l = m
      /\ \A s \in Task \ {t} : Queued(r, s, m) => Ahead(p, s, t, m)
  BY <1>1, Acquires
<1> HIDE DEF p
<1>3. Kept(q, p, t)
  BY <1>1, <1>2 DEF Kept
<1>4. \A s \in Task \ {t} : Queued(q, s, m) => Ahead(p, s, t, m)
  BY <1>1, <1>2 DEF Kept
<1> QED BY <1>1, <1>2, <1>3, <1>4 DEF p, r

-----------------------------------------------------------------------------
(* Steps of one task: where the tasks are                                  *)

\* The places say where the tasks are, again, if the one that moved is where its
\* new place says.
LEMMA BroadcastPlaced ==
    ASSUME Placed, NEW u \in Update, Orderly(queue'), Kept(queue, queue', Broadcast(u)),
           \A k \in Lock : Queued(queue', Broadcast(u), k) <=> k \in BroadcastAt(u)',
           \A v \in Update \ {u} : broadcast'[v] = broadcast[v] /\ todo'[v] = todo[v],
           UNCHANGED <<handler, heartbeat>>
    PROVE  Placed'
<1>1. ASSUME NEW k \in Lock, NEW v \in Update
      PROVE  Queued(queue', Broadcast(v), k) <=> k \in BroadcastAt(v)'
  <2>1. CASE v = u
    BY <2>1
  <2>2. CASE v # u
    <3>1. BroadcastAt(v)' = BroadcastAt(v)
      BY <2>2 DEF BroadcastAt
    <3>2. Broadcast(v) \in Task \ {Broadcast(u)}
      BY <2>2, TaskFacts
    <3> QED BY <3>1, <3>2 DEF Kept, Placed
  <2> QED BY <2>1, <2>2
<1>2. ASSUME NEW k \in Lock, NEW c \in Client
      PROVE  /\ Queued(queue', Handler(c), k) <=> k \in HandlerAt(c)'
             /\ Queued(queue', Heartbeat(c), k) <=> k \in HeartbeatAt(c)'
  <2>1. HandlerAt(c)' = HandlerAt(c) /\ HeartbeatAt(c)' = HeartbeatAt(c)
    BY DEF HandlerAt, HeartbeatAt
  <2>2. Handler(c) \in Task \ {Broadcast(u)} /\ Heartbeat(c) \in Task \ {Broadcast(u)}
    BY TaskFacts
  <2> QED BY <2>1, <2>2 DEF Kept, Placed
<1> QED BY <1>1, <1>2 DEF Placed

LEMMA HandlerPlaced ==
    ASSUME Placed, NEW c \in Client, Orderly(queue'), Kept(queue, queue', Handler(c)),
           \A k \in Lock : Queued(queue', Handler(c), k) <=> k \in HandlerAt(c)',
           \A d \in Client \ {c} : handler'[d] = handler[d],
           \A d \in Client : heartbeat'[d] = "sending" <=> heartbeat[d] = "sending",
           UNCHANGED <<broadcast, todo>>
    PROVE  Placed'
<1>1. ASSUME NEW k \in Lock, NEW d \in Client
      PROVE  /\ Queued(queue', Handler(d), k) <=> k \in HandlerAt(d)'
             /\ Queued(queue', Heartbeat(d), k) <=> k \in HeartbeatAt(d)'
  <2>1. HeartbeatAt(d)' = HeartbeatAt(d) /\ Heartbeat(d) \in Task \ {Handler(c)}
    BY TaskFacts DEF HeartbeatAt
  <2>2. d # c => HandlerAt(d)' = HandlerAt(d) /\ Handler(d) \in Task \ {Handler(c)}
    BY TaskFacts DEF HandlerAt
  <2> QED BY <2>1, <2>2 DEF Kept, Placed
<1>2. ASSUME NEW k \in Lock, NEW u \in Update
      PROVE  Queued(queue', Broadcast(u), k) <=> k \in BroadcastAt(u)'
  <2>1. BroadcastAt(u)' = BroadcastAt(u) /\ Broadcast(u) \in Task \ {Handler(c)}
    BY TaskFacts DEF BroadcastAt
  <2> QED BY <2>1 DEF Kept, Placed
<1> QED BY <1>1, <1>2 DEF Placed

LEMMA HeartbeatPlaced ==
    ASSUME Placed, NEW c \in Client, Orderly(queue'), Kept(queue, queue', Heartbeat(c)),
           \A k \in Lock : Queued(queue', Heartbeat(c), k) <=> k \in HeartbeatAt(c)',
           \A d \in Client \ {c} : heartbeat'[d] = heartbeat[d],
           UNCHANGED <<broadcast, todo, handler>>
    PROVE  Placed'
<1>1. ASSUME NEW k \in Lock, NEW d \in Client
      PROVE  /\ Queued(queue', Handler(d), k) <=> k \in HandlerAt(d)'
             /\ Queued(queue', Heartbeat(d), k) <=> k \in HeartbeatAt(d)'
  <2>1. HandlerAt(d)' = HandlerAt(d) /\ Handler(d) \in Task \ {Heartbeat(c)}
    BY TaskFacts DEF HandlerAt
  <2>2. d # c => HeartbeatAt(d)' = HeartbeatAt(d) /\ Heartbeat(d) \in Task \ {Heartbeat(c)}
    BY TaskFacts DEF HeartbeatAt
  <2> QED BY <2>1, <2>2 DEF Kept, Placed
<1>2. ASSUME NEW k \in Lock, NEW u \in Update
      PROVE  Queued(queue', Broadcast(u), k) <=> k \in BroadcastAt(u)'
  <2>1. BroadcastAt(u)' = BroadcastAt(u) /\ Broadcast(u) \in Task \ {Heartbeat(c)}
    BY TaskFacts DEF BroadcastAt
  <2> QED BY <2>1 DEF Kept, Placed
<1> QED BY <1>1, <1>2 DEF Placed

\* Handlers and heartbeats leave the broadcasts alone, or disturb all of them.
LEMMA OrderFrame ==
    ASSUME TypeOK, Started, InOrder,
           UNCHANGED <<broadcast, todo, received>>,
           UNCHANGED <<order, connections, disturbed>> \/ Disturb,
           \A k \in Lock, u, v \in Update :
               Ahead(queue, Broadcast(u), Broadcast(v), k)
                   => Ahead(queue', Broadcast(u), Broadcast(v), k)
    PROVE  InOrder' /\ \A u \in Update : Waiting(u)' => ~disturbed'[u]
<1>1. \A u \in Update : /\ disturbed[u] => disturbed'[u]
                        /\ Waiting(u)' => ~disturbed'[u]
                        /\ Waiting(u)' <=> Waiting(u)
                        /\ OnItsWay(u)' <=> OnItsWay(u)
  BY DEF Disturb, TypeOK, Started, Waiting, OnItsWay
<1>2. BroadcastsInOrder'
  <2> SUFFICES ASSUME NEW c \in Client, NEW i \in DOMAIN received[c], NEW j \in DOMAIN received[c],
                      i < j, received[c][i] > received[c][j]
               PROVE  disturbed'[received[c][j]]
    BY DEF BroadcastsInOrder
  <2>1. received[c][j] \in Update
    BY DEF TypeOK
  <2> QED BY <2>1, <1>1 DEF BroadcastsInOrder, InOrder
<1>3. CASE Disturb
  <2>1. \A u \in Update : ~Steady(u)'
    BY <1>3 DEF Disturb, Steady, OnItsWay
  <2>2. OnTrack' /\ NotOvertaken'
    BY <2>1 DEF OnTrack, NotOvertaken
  <2>3. NothingNewer'
    BY <1>1, <2>1 DEF NothingNewer, InOrder
  <2>4. CopyInOrder'
    BY <1>1, LockFacts DEF CopyInOrder, CopiesAfter, InOrder
  <2> QED BY <1>1, <1>2, <2>2, <2>3, <2>4 DEF InOrder
<1>4. CASE UNCHANGED <<order, connections, disturbed>>
  <2>1. \A u \in Update : Steady(u)' <=> Steady(u)
    BY <1>4, <1>1 DEF Steady
  <2>2. OnTrack'
    BY <1>4, <2>1 DEF OnTrack, InOrder
  <2>3. NothingNewer'
    BY <1>1, <2>1 DEF NothingNewer, InOrder
  <2>4. CopyInOrder'
    BY <1>1, LockFacts DEF CopyInOrder, CopiesAfter, InOrder
  <2>5. NotOvertaken'
    <3>1. \A u \in Update : broadcast[u] = "sending" => SendLock(Head(todo[u])) \in Lock
      <4>1. \A u \in Update : broadcast[u] = "sending" => todo[u] \in Seq(Client) /\ todo[u] # <<>>
        BY DEF TypeOK, Started, OnItsWay
      <4>2. \A u \in Update : broadcast[u] = "sending" => Head(todo[u]) \in Client
        BY <4>1
      <4> QED BY <4>2, LockFacts
    <3> QED BY <1>1, <2>1, <3>1, LockFacts DEF NotOvertaken, StaysBehind, InOrder
  <2> QED BY <1>1, <1>2, <2>2, <2>3, <2>4, <2>5 DEF InOrder
<1> QED BY <1>3, <1>4

-----------------------------------------------------------------------------
(* Steps of handlers and heartbeats                                        *)

HandlerState == {"new", "connecting", "receiving", "subscribing", "unsubscribing",
                 "reading", "checking", "complaining", "replying", "leaving", "left"}

LEMMA ArrangedFacts ==
    ASSUME NEW s \in Seq(Client), NEW c \in Client,
           NEW S, S \subseteq ToSet(s) \cup {c}, NEW t \in Arranged(S)
    PROVE  t \in Seq(Client) /\ IsInjective(t)
<1>1. ToSet(s) = {s[i] : i \in 1 .. Len(s)} /\ Len(s) \in Nat /\ ToSet(s) \subseteq Client
  BY DEF ToSet
<1>2. IsFiniteSet(ToSet(s))
  <2>1. IsFiniteSet(1 .. Len(s))
    BY <1>1, FS_Interval
  <2>2. s \in Surjection(1 .. Len(s), ToSet(s))
    BY <1>1 DEF Surjection
  <2> QED BY <2>1, <2>2, FS_Surjection
<1>3. IsFiniteSet(ToSet(s) \cup {c})
  BY <1>2, FS_AddElement
<1>4. Cardinality(S) \in Nat
  BY <1>3, FS_Subset, FS_CardinalityType
<1>5. t \in [1 .. Cardinality(S) -> Client] /\ IsInjective(t)
  BY <1>1 DEF Arranged
<1> QED BY <1>4, <1>5

\* A step of a handler preserves the invariant if it is queued where it says
\* and either leaves the clients alone or disturbs the broadcasts.
LEMMA HandlerMoves ==
    ASSUME IInv, NEW c \in Client, NEW to \in HandlerState \ {"new"},
           handler' = [handler EXCEPT ![c] = to],
           Orderly(queue'), Kept(queue, queue', Handler(c)),
           \A k \in Lock : Queued(queue', Handler(c), k) <=> k \in HandlerAt(c)',
           UNCHANGED <<broadcast, todo, received>>,
           UNCHANGED <<order, connections, disturbed>> \/ Disturb,
           order' \in Seq(Client), IsInjective(order'), connections' \subseteq Client,
           requests' \in 0 .. MaxRequest, gone' \in [Client -> BOOLEAN], UNCHANGED closed,
           \/ UNCHANGED heartbeat /\ (to = "connecting" => handler[c] = "new")
           \/ /\ to = "receiving" /\ handler[c] = "connecting"
              /\ heartbeat' = [heartbeat EXCEPT ![c] = "sleeping"]
    PROVE  IInv'
<1>1. /\ TypeOK /\ Placed /\ Started /\ InOrder
      /\ handler \in [Client -> HandlerState]
      /\ heartbeat \in [Client -> {"none", "sleeping", "sending", "ended"}]
  BY DEF IInv, TypeOK, HandlerState
<1>2. /\ handler' \in [Client -> HandlerState] /\ handler'[c] = to
      /\ \A d \in Client \ {c} : handler'[d] = handler[d]
      /\ heartbeat' \in [Client -> {"none", "sleeping", "sending", "ended"}]
      /\ \A d \in Client \ {c} : heartbeat'[d] = heartbeat[d]
  BY <1>1
<1>3. Placed'
  <2>1. heartbeat'[c] = "sending" <=> heartbeat[c] = "sending"
    BY <1>1 DEF Started
  <2> QED BY <1>1, <1>2, <2>1, HandlerPlaced
<1>4. InOrder' /\ \A u \in Update : Waiting(u)' => ~disturbed'[u]
  <2>1. \A u \in Update : Broadcast(u) \in Task \ {Handler(c)}
    BY TaskFacts
  <2>2. \A k \in Lock, u, v \in Update : Ahead(queue, Broadcast(u), Broadcast(v), k)
                                        => Ahead(queue', Broadcast(u), Broadcast(v), k)
    BY <2>1 DEF Kept
  <2> QED BY <1>1, <2>2, OrderFrame
<1>5. Started'
  <2>1. \A d \in Client : handler'[d] \in {"new", "connecting"} => heartbeat'[d] = "none"
    BY <1>1, <1>2 DEF Started
  <2>2. \A u \in Update : todo'[u] # <<>> <=> OnItsWay(u)'
    BY <1>1 DEF Started, OnItsWay
  <2> QED BY <1>4, <2>1, <2>2 DEF Started
<1>6. TypeOK'
  <2>1. queue' \in [Lock -> Seq(Task)]
    BY DEF Orderly
  <2>2. disturbed' \in [Update -> BOOLEAN]
    BY <1>1 DEF TypeOK, Disturb
  <2> QED BY <1>1, <1>2, <2>1, <2>2 DEF TypeOK, HandlerState
<1> QED BY <1>3, <1>4, <1>5, <1>6 DEF IInv

\* What the handler asks for and lets go of is what its places differ in.
LEMMA HandlerQueue ==
    ASSUME IInv, NEW c \in Client, NEW k \in Lock, NEW m \in Lock,
           \/ /\ queue' = Acquire(queue, Handler(c), m)
              /\ m \notin HandlerAt(c) /\ HandlerAt(c)' = HandlerAt(c) \cup {m}
           \/ /\ queue' = Release(queue, Handler(c), k)
              /\ HandlerAt(c)' = HandlerAt(c) \ {k}
           \/ /\ queue' = Acquire(Release(queue, Handler(c), k), Handler(c), m)
              /\ m \in HandlerAt(c) => m = k
              /\ HandlerAt(c)' = (HandlerAt(c) \ {k}) \cup {m}
    PROVE  /\ Orderly(queue') /\ Kept(queue, queue', Handler(c))
           /\ \A l \in Lock : Queued(queue', Handler(c), l) <=> l \in HandlerAt(c)'
<1>1. /\ Orderly(queue) /\ Handler(c) \in Task
      /\ \A l \in Lock : Queued(queue, Handler(c), l) <=> l \in HandlerAt(c)
  BY TaskFacts DEF IInv, Placed
<1>2. CASE queue' = Acquire(queue, Handler(c), m) /\ m \notin HandlerAt(c)
           /\ HandlerAt(c)' = HandlerAt(c) \cup {m}
  BY <1>1, <1>2, Acquires
<1>3. CASE queue' = Release(queue, Handler(c), k) /\ HandlerAt(c)' = HandlerAt(c) \ {k}
  BY <1>1, <1>3, Releases
<1>4. CASE queue' = Acquire(Release(queue, Handler(c), k), Handler(c), m)
           /\ (m \in HandlerAt(c) => m = k) /\ HandlerAt(c)' = (HandlerAt(c) \ {k}) \cup {m}
  BY <1>1, <1>4, Passes
<1> QED BY <1>2, <1>3, <1>4

LEMMA HandlerSteps ==
    ASSUME IInv, NEW c \in Client,
           \/ Accept(c) \/ Connect(c) \/ Request(c) \/ Subscribe(c) \/ Unsubscribe(c)
           \/ ReadCurrent(c) \/ Check(c) \/ Reply(c) \/ ReceiveFails(c) \/ SayGoodbye(c)
    PROVE  IInv'
<1>1. /\ handler \in [Client -> HandlerState]
      /\ order \in Seq(Client) /\ IsInjective(order) /\ connections \subseteq Client
      /\ requests \in 0 .. MaxRequest /\ gone \in [Client -> BOOLEAN]
      /\ Manager \in Lock /\ SendLock(c) \in Lock /\ SendLock(c) # Manager
  BY LockFacts DEF IInv, TypeOK, HandlerState
\* A step that changes nothing but the place of the handler.
<1>2. ASSUME NEW to \in HandlerState \ {"new"}, handler' = [handler EXCEPT ![c] = to],
             to = "connecting" => handler[c] = "new",
             NEW k \in Lock, NEW m \in Lock,
             \/ /\ queue' = Acquire(queue, Handler(c), m)
                /\ m \notin HandlerAt(c) /\ HandlerAt(c)' = HandlerAt(c) \cup {m}
             \/ /\ queue' = Release(queue, Handler(c), k)
                /\ HandlerAt(c)' = HandlerAt(c) \ {k}
             \/ /\ queue' = Acquire(Release(queue, Handler(c), k), Handler(c), m)
                /\ m \in HandlerAt(c) => m = k
                /\ HandlerAt(c)' = (HandlerAt(c) \ {k}) \cup {m},
             UNCHANGED <<broadcast, todo, received, heartbeat, closed>>,
             UNCHANGED <<order, connections, disturbed>> \/ Disturb,
             order' \in Seq(Client), IsInjective(order'), UNCHANGED connections,
             requests' \in 0 .. MaxRequest, gone' \in [Client -> BOOLEAN]
      PROVE  IInv'
  BY <1>1, <1>2, HandlerQueue, HandlerMoves
<1>3. CASE Accept(c)
  <2>1. handler[c] = "new" /\ handler'[c] = "connecting"
    BY <1>1, <1>3 DEF Accept, Goes
  <2>2. HandlerAt(c) = {} /\ HandlerAt(c)' = {Manager}
    BY <2>1 DEF HandlerAt
  <2> QED BY <1>1, <1>2, <1>3, <2>1, <2>2 DEF Accept, Goes, HandlerState
<1>4. CASE Connect(c)
  <2>1. handler[c] = "connecting" /\ handler'[c] = "receiving"
    BY <1>1, <1>4 DEF Connect, Goes
  <2>2. HandlerAt(c) = {Manager} /\ HandlerAt(c)' = {}
    BY <2>1 DEF HandlerAt
  <2>3. /\ Orderly(queue') /\ Kept(queue, queue', Handler(c))
        /\ \A l \in Lock : Queued(queue', Handler(c), l) <=> l \in HandlerAt(c)'
    BY <1>1, <1>4, <2>2, HandlerQueue DEF Connect, Goes
  <2>4. connections' \subseteq Client
    BY <1>1, <1>4 DEF Connect
  <2> QED BY <1>1, <1>4, <2>1, <2>3, <2>4, HandlerMoves DEF Connect, Goes, HandlerState
<1>5. CASE Request(c)
  <2>1. handler[c] = "receiving" /\ HandlerAt(c) = {}
    BY <1>5 DEF Request, HandlerAt
  <2>2. requests' \in 0 .. MaxRequest
    BY <1>1, <1>5, BoundsAssumption DEF Request
  <2>3. ASSUME NEW to \in {"subscribing", "unsubscribing", "reading", "checking"},
               Goes(c, to, Acquire(queue, Handler(c), Manager))
        PROVE  IInv'
    <3>1. HandlerAt(c)' = {Manager}
      BY <1>1, <2>3 DEF Goes, HandlerAt
    <3> QED BY <1>1, <1>2, <1>5, <2>1, <2>2, <2>3, <3>1 DEF Request, Goes, HandlerState
  <2>4. CASE Goes(c, "replying", Acquire(queue, Handler(c), SendLock(c)))
    <3>1. HandlerAt(c)' = {SendLock(c)}
      BY <1>1, <2>4 DEF Goes, HandlerAt
    <3> QED BY <1>1, <1>2, <1>5, <2>1, <2>2, <2>4, <3>1 DEF Request, Goes, HandlerState
  <2> QED BY <1>5, <2>3, <2>4 DEF Request
<1>6. CASE Subscribe(c)
  <2>1. handler[c] = "subscribing" /\ HandlerAt(c) = {Manager}
    BY <1>6 DEF Subscribe, HandlerAt
  <2>2. CASE order' \in Arranged(ToSet(order) \cup {c}) /\ Disturb
             /\ Goes(c, "reading",
                     Acquire(Release(queue, Handler(c), Manager), Handler(c), Manager))
    <3>1. HandlerAt(c)' = {Manager}
      BY <1>1, <2>2 DEF Goes, HandlerAt
    <3>2. order' \in Seq(Client) /\ IsInjective(order')
      BY <1>1, <2>2, ArrangedFacts
    <3> QED BY <1>1, <1>2, <1>6, <2>1, <2>2, <3>1, <3>2 DEF Subscribe, Goes, HandlerState
  <2>3. CASE Pass(Handler(c), Manager, SendLock(c)) /\ UNCHANGED <<order, disturbed>>
             /\ handler' = [handler EXCEPT ![c] = "replying"]
    <3>1. HandlerAt(c)' = {SendLock(c)}
      BY <1>1, <2>3 DEF HandlerAt
    <3> QED BY <1>1, <1>2, <1>6, <2>1, <2>3, <3>1 DEF Subscribe, Pass, HandlerState
  <2> QED BY <1>6, <2>2, <2>3 DEF Subscribe
<1>7. CASE Unsubscribe(c)
  <2>1. handler[c] = "unsubscribing" /\ handler'[c] = "replying"
    BY <1>1, <1>7 DEF Unsubscribe, Goes
  <2>2. HandlerAt(c) = {Manager} /\ HandlerAt(c)' = {SendLock(c)}
    BY <2>1 DEF HandlerAt
  <2>3. order' \in Seq(Client) /\ IsInjective(order')
    BY <1>1, <1>7, ArrangedFacts DEF Unsubscribe
  <2> QED BY <1>1, <1>2, <1>7, <2>1, <2>2, <2>3 DEF Unsubscribe, Goes, HandlerState
<1>8. CASE ReadCurrent(c)
  <2>1. handler[c] = "reading" /\ handler'[c] = "replying"
    BY <1>1, <1>8 DEF ReadCurrent, Goes
  <2>2. HandlerAt(c) = {Manager} /\ HandlerAt(c)' = {SendLock(c)}
    BY <2>1 DEF HandlerAt
  <2> QED BY <1>1, <1>2, <1>8, <2>1, <2>2 DEF ReadCurrent, Goes, HandlerState
<1>9. CASE Check(c)
  <2>1. handler[c] = "checking" /\ HandlerAt(c) = {Manager}
    BY <1>9 DEF Check, HandlerAt
  <2>2. CASE c \in ToSet(order)
    <3>1. HandlerAt(c)' = {SendLock(c)}
      BY <1>1, <1>9, <2>2 DEF Check, Goes, HandlerAt
    <3> QED BY <1>1, <1>2, <1>9, <2>1, <2>2, <3>1 DEF Check, Goes, HandlerState
  <2>3. CASE c \notin ToSet(order)
    <3>1. HandlerAt(c)' = {Manager, SendLock(c)}
      BY <1>1, <1>9, <2>3 DEF Check, Goes, HandlerAt
    <3> QED BY <1>1, <1>2, <1>9, <2>1, <2>3, <3>1 DEF Check, Goes, HandlerState
  <2> QED BY <2>2, <2>3
<1>10. CASE Reply(c)
  <2>1. handler[c] = "replying" /\ HandlerAt(c) = {SendLock(c)}
    BY <1>10 DEF Reply, HandlerAt
  <2>2. CASE gone[c]
    <3>1. HandlerAt(c)' = {Manager}
      BY <1>1, <1>10, <2>2 DEF Reply, Returns, Goes, HandlerAt
    <3> QED BY <1>1, <1>2, <1>10, <2>1, <2>2, <3>1 DEF Reply, Returns, Goes, HandlerState
  <2>3. CASE ~gone[c]
    <3>1. HandlerAt(c)' = {}
      BY <1>1, <1>10, <2>3 DEF Reply, Returns, Goes, HandlerAt
    <3> QED BY <1>1, <1>2, <1>10, <2>1, <2>3, <3>1 DEF Reply, Returns, Goes, HandlerState
  <2> QED BY <2>2, <2>3
<1>11. CASE ReceiveFails(c)
  <2>1. handler[c] = "receiving" /\ handler'[c] = "leaving"
    BY <1>1, <1>11 DEF ReceiveFails, Goes
  <2>2. HandlerAt(c) = {} /\ HandlerAt(c)' = {Manager}
    BY <2>1 DEF HandlerAt
  <2> QED BY <1>1, <1>2, <1>11, <2>1, <2>2 DEF ReceiveFails, Goes, HandlerState
<1>12. CASE SayGoodbye(c)
  <2>1. handler[c] = "receiving" /\ handler'[c] = "leaving"
    BY <1>1, <1>12 DEF SayGoodbye, Goes
  <2>2. HandlerAt(c) = {} /\ HandlerAt(c)' = {Manager}
    BY <2>1 DEF HandlerAt
  <2>3. gone' \in [Client -> BOOLEAN]
    BY <1>1, <1>12 DEF SayGoodbye
  <2> QED BY <1>1, <1>2, <1>12, <2>1, <2>2, <2>3 DEF SayGoodbye, Goes, HandlerState
<1> QED BY <1>3, <1>4, <1>5, <1>6, <1>7, <1>8, <1>9, <1>10, <1>11, <1>12

\* A complaint is answered with two locks held; both are let go of.
LEMMA ComplainStep ==
    ASSUME IInv, NEW c \in Client, Complain(c)
    PROVE  IInv'
<1> DEFINE h == Handler(c)
           q == Release(queue, h, SendLock(c))
           p == Release(q, h, Manager)
<1>1. /\ handler \in [Client -> HandlerState] /\ handler[c] = "complaining"
      /\ order \in Seq(Client) /\ IsInjective(order) /\ connections \subseteq Client
      /\ requests \in 0 .. MaxRequest /\ gone \in [Client -> BOOLEAN]
      /\ Manager \in Lock /\ SendLock(c) \in Lock /\ SendLock(c) # Manager
      /\ Orderly(queue) /\ h \in Task
      /\ \A l \in Lock : Queued(queue, h, l) <=> l \in HandlerAt(c)
  BY LockFacts, TaskFacts DEF IInv, TypeOK, HandlerState, Placed, Complain
<1>2. HandlerAt(c) = {Manager, SendLock(c)}
  BY <1>1 DEF HandlerAt
<1>3. /\ Orderly(q) /\ Kept(queue, q, h)
      /\ \A l \in Lock : Queued(q, h, l) <=> Queued(queue, h, l) /\ l # SendLock(c)
  BY <1>1, Releases
<1>4. CASE gone[c]
  <2>1. handler' = [handler EXCEPT ![c] = "leaving"] /\ queue' = Acquire(p, h, Manager)
    BY <1>4 DEF Complain, Returns, Goes
  <2>2. HandlerAt(c)' = {Manager}
    BY <1>1, <2>1 DEF HandlerAt
  <2> HIDE DEF q, h
  <2>3. /\ Orderly(queue') /\ Kept(q, queue', h)
        /\ \A l \in Lock : Queued(queue', h, l) <=> (Queued(q, h, l) /\ l # Manager) \/ l = Manager
    BY <1>1, <1>3, <2>1, Passes
  <2>4. Kept(queue, queue', h) /\ \A l \in Lock : Queued(queue', h, l) <=> l \in HandlerAt(c)'
    BY <1>1, <1>2, <1>3, <2>2, <2>3 DEF Kept
  <2> QED BY <1>1, <2>1, <2>3, <2>4, HandlerMoves DEF Complain, HandlerState, h
<1>5. CASE ~gone[c]
  <2>1. handler' = [handler EXCEPT ![c] = "receiving"] /\ queue' = p
    BY <1>5 DEF Complain, Returns, Goes
  <2>2. HandlerAt(c)' = {}
    BY <1>1, <2>1 DEF HandlerAt
  <2> HIDE DEF q, h
  <2>3. /\ Orderly(queue') /\ Kept(q, queue', h)
        /\ \A l \in Lock : Queued(queue', h, l) <=> Queued(q, h, l) /\ l # Manager
    BY <1>1, <1>3, <2>1, Releases
  <2>4. Kept(queue, queue', h) /\ \A l \in Lock : Queued(queue', h, l) <=> l \in HandlerAt(c)'
    BY <1>1, <1>2, <1>3, <2>2, <2>3 DEF Kept
  <2> QED BY <1>1, <2>1, <2>3, <2>4, HandlerMoves DEF Complain, HandlerState, h
<1> QED BY <1>4, <1>5

\* Two tasks leave their queues at once: the handler, and the heartbeat it cancels.
LEMMA DisconnectStep ==
    ASSUME IInv, NEW c \in Client, Disconnect(c)
    PROVE  IInv'
<1> DEFINE h == Handler(c)
           b == Heartbeat(c)
           q == Release(queue, h, Manager)
<1>1. /\ TypeOK /\ Placed /\ Started /\ InOrder
      /\ handler[c] = "leaving" /\ handler' = [handler EXCEPT ![c] = "left"]
      /\ handler \in [Client -> HandlerState] /\ handler' \in [Client -> HandlerState]
      /\ heartbeat \in [Client -> {"none", "sleeping", "sending", "ended"}]
      /\ heartbeat' = [heartbeat EXCEPT ![c] = "ended"]
      /\ queue' = Release(q, b, SendLock(c))
      /\ UNCHANGED <<broadcast, todo>>
  BY DEF IInv, TypeOK, HandlerState, Disconnect, Goes
<1>2. /\ Manager \in Lock /\ SendLock(c) \in Lock /\ SendLock(c) # Manager
      /\ h \in Task /\ b \in Task /\ h # b
      /\ Orderly(queue)
  BY <1>1, LockFacts, TaskFacts DEF Placed
<1>3. /\ Orderly(q) /\ Kept(queue, q, h)
      /\ \A l \in Lock : Queued(q, h, l) <=> Queued(queue, h, l) /\ l # Manager
  BY <1>2, Releases
<1> HIDE DEF q
<1>4. /\ Orderly(queue') /\ Kept(q, queue', b)
      /\ \A l \in Lock : Queued(queue', b, l) <=> Queued(q, b, l) /\ l # SendLock(c)
  BY <1>1, <1>2, <1>3, Releases
<1>5. ASSUME NEW k \in Lock, NEW t \in Task \ {h, b}
      PROVE  Queued(queue', t, k) <=> Queued(queue, t, k)
  BY <1>3, <1>4 DEF Kept
<1>6. Placed'
  <2>1. ASSUME NEW k \in Lock, NEW u \in Update
        PROVE  Queued(queue', Broadcast(u), k) <=> k \in BroadcastAt(u)'
    <3>1. BroadcastAt(u)' = BroadcastAt(u) /\ Broadcast(u) \in Task \ {h, b}
      BY <1>1, TaskFacts DEF BroadcastAt
    <3> QED BY <1>1, <1>5, <3>1 DEF Placed
  <2>2. ASSUME NEW k \in Lock, NEW d \in Client
        PROVE  Queued(queue', Handler(d), k) <=> k \in HandlerAt(d)'
    <3>1. CASE d = c
      <4>1. HandlerAt(c) = {Manager} /\ HandlerAt(c)' = {}
        BY <1>1 DEF HandlerAt
      <4>2. Queued(queue', h, k) <=> Queued(q, h, k)
        BY <1>2, <1>4 DEF Kept
      <4> QED BY <3>1, <4>1, <4>2, <1>1, <1>3 DEF Placed
    <3>2. CASE d # c
      <4>1. HandlerAt(d)' = HandlerAt(d) /\ Handler(d) \in Task \ {h, b}
        BY <1>1, <3>2, TaskFacts DEF HandlerAt
      <4> QED BY <1>1, <1>5, <4>1 DEF Placed
    <3> QED BY <3>1, <3>2
  <2>3. ASSUME NEW k \in Lock, NEW d \in Client
        PROVE  Queued(queue', Heartbeat(d), k) <=> k \in HeartbeatAt(d)'
    <3>1. CASE d = c
      <4>1. k \in HeartbeatAt(c) => k = SendLock(c)
        BY DEF HeartbeatAt
      <4>2. HeartbeatAt(c)' = {}
        BY <1>1 DEF HeartbeatAt
      <4>3. Queued(q, b, k) <=> Queued(queue, b, k)
        BY <1>2, <1>3 DEF Kept
      <4> QED BY <3>1, <4>1, <4>2, <4>3, <1>1, <1>4 DEF Placed
    <3>2. CASE d # c
      <4>1. HeartbeatAt(d)' = HeartbeatAt(d) /\ Heartbeat(d) \in Task \ {h, b}
        BY <1>1, <3>2, TaskFacts DEF HeartbeatAt
      <4> QED BY <1>1, <1>5, <4>1 DEF Placed
    <3> QED BY <3>1, <3>2
  <2> QED BY <1>4, <2>1, <2>2, <2>3 DEF Placed
<1>7. InOrder' /\ \A u \in Update : Waiting(u)' => ~disturbed'[u]
  <2>1. ASSUME NEW k \in Lock, NEW u \in Update, NEW v \in Update,
               Ahead(queue, Broadcast(u), Broadcast(v), k)
        PROVE  Ahead(queue', Broadcast(u), Broadcast(v), k)
    <3>1. Broadcast(u) \in Task \ {h, b} /\ Broadcast(v) \in Task \ {h, b}
      BY TaskFacts
    <3> QED BY <1>3, <1>4, <2>1, <3>1 DEF Kept
  <2> QED BY <1>1, <2>1, OrderFrame DEF Disconnect
<1>8. Started'
  <2>1. \A d \in Client : handler'[d] \in {"new", "connecting"} => heartbeat'[d] = "none"
    BY <1>1 DEF Started
  <2>2. \A u \in Update : todo'[u] # <<>> <=> OnItsWay(u)'
    BY <1>1 DEF Started, OnItsWay
  <2> QED BY <1>7, <2>1, <2>2 DEF Started
<1>9. TypeOK'
  <2>1. queue' \in [Lock -> Seq(Task)]
    BY <1>4 DEF Orderly
  <2>2. disturbed' \in [Update -> BOOLEAN]
    BY <1>1 DEF TypeOK, Disconnect, Disturb
  <2>3. order' \in Seq(Client) /\ IsInjective(order')
    BY <1>1, ArrangedFacts DEF TypeOK, Disconnect
  <2>4. connections' \subseteq Client
    BY <1>1 DEF TypeOK, Disconnect
  <2> QED BY <1>1, <2>1, <2>2, <2>3, <2>4 DEF TypeOK, HandlerState, Disconnect
<1> QED BY <1>6, <1>7, <1>8, <1>9 DEF IInv

LEMMA HeartbeatSteps ==
    ASSUME IInv, NEW c \in Client, WakeUp(c) \/ Beat(c)
    PROVE  IInv'
<1> DEFINE b == Heartbeat(c)
<1>1. /\ TypeOK /\ Placed /\ Started /\ InOrder
      /\ heartbeat \in [Client -> {"none", "sleeping", "sending", "ended"}]
      /\ Orderly(queue) /\ b \in Task /\ SendLock(c) \in Lock
      /\ \A l \in Lock : Queued(queue, b, l) <=> l \in HeartbeatAt(c)
  BY LockFacts, TaskFacts DEF IInv, TypeOK, Placed
<1>2. /\ Orderly(queue') /\ Kept(queue, queue', b)
      /\ \A l \in Lock : Queued(queue', b, l) <=> l \in HeartbeatAt(c)'
      /\ heartbeat' \in [Client -> {"none", "sleeping", "sending", "ended"}]
      /\ \A d \in Client \ {c} : heartbeat'[d] = heartbeat[d]
      /\ heartbeat[c] \in {"sleeping", "sending"}
      /\ closed' \in [Client -> BOOLEAN]
      /\ UNCHANGED <<connections, order, broadcast, todo, handler, disturbed, requests,
                     gone, received>>
  <2>1. CASE WakeUp(c)
    <3>1. /\ HeartbeatAt(c) = {} /\ HeartbeatAt(c)' = {SendLock(c)}
          /\ queue' = Acquire(queue, b, SendLock(c))
      BY <1>1, <2>1 DEF WakeUp, HeartbeatAt
    <3>2. /\ Orderly(queue') /\ Kept(queue, queue', b)
          /\ \A l \in Lock : Queued(queue', b, l) <=> l \in HeartbeatAt(c)'
      BY <1>1, <3>1, Acquires
    <3> QED BY <1>1, <2>1, <3>2 DEF WakeUp, TypeOK
  <2>2. CASE Beat(c)
    <3>1. /\ HeartbeatAt(c) = {SendLock(c)} /\ HeartbeatAt(c)' = {}
          /\ queue' = Release(queue, b, SendLock(c))
      BY <1>1, <2>2 DEF Beat, HeartbeatAt
    <3>2. /\ Orderly(queue') /\ Kept(queue, queue', b)
          /\ \A l \in Lock : Queued(queue', b, l) <=> l \in HeartbeatAt(c)'
      BY <1>1, <3>1, Releases
    <3> QED BY <1>1, <2>2, <3>2 DEF Beat, TypeOK
  <2> QED BY <2>1, <2>2
<1>3. Placed'
  BY <1>1, <1>2, HeartbeatPlaced
<1>4. InOrder' /\ \A u \in Update : Waiting(u)' => ~disturbed'[u]
  <2>1. \A u \in Update : Broadcast(u) \in Task \ {b}
    BY TaskFacts
  <2>2. \A k \in Lock, u, v \in Update : Ahead(queue, Broadcast(u), Broadcast(v), k)
                                        => Ahead(queue', Broadcast(u), Broadcast(v), k)
    BY <1>2, <2>1 DEF Kept
  <2> QED BY <1>1, <1>2, <2>2, OrderFrame
<1>5. Started'
  <2>1. \A u \in Update : todo'[u] # <<>> <=> OnItsWay(u)'
    BY <1>1, <1>2 DEF Started, OnItsWay
  <2>2. \A d \in Client : handler'[d] \in {"new", "connecting"} => heartbeat'[d] = "none"
    BY <1>1, <1>2 DEF Started
  <2> QED BY <1>4, <2>1, <2>2 DEF Started
<1>6. TypeOK'
  <2>1. queue' \in [Lock -> Seq(Task)]
    BY <1>2 DEF Orderly
  <2> QED BY <1>1, <1>2, <2>1 DEF TypeOK
<1> QED BY <1>3, <1>4, <1>5, <1>6 DEF IInv

LEMMA VanishStep ==
    ASSUME IInv, NEW c \in Client, Vanish(c)
    PROVE  IInv'
<1>1. TypeOK' /\ Placed'
  BY DEF IInv, TypeOK, Placed, Orderly, Vanish, BroadcastAt, HandlerAt, HeartbeatAt
<1>2. Started'
  BY DEF IInv, Started, OnItsWay, Waiting, Vanish
<1>3. InOrder'
  BY DEF IInv, InOrder, OnTrack, CopyInOrder, NotOvertaken, NothingNewer, BroadcastsInOrder,
         CopiesAfter, StaysBehind, Steady, OnItsWay, Waiting, Ahead, Vanish
<1> QED BY <1>1, <1>2, <1>3 DEF IInv

-----------------------------------------------------------------------------
(* Steps of broadcasts                                                     *)

\* Broadcast m is elsewhere, and with it nothing but what has been received.
Moved(m) ==
    /\ Orderly(queue') /\ Kept(queue, queue', Broadcast(m))
    /\ \A k \in Lock : Queued(queue', Broadcast(m), k) <=> k \in BroadcastAt(m)'
    /\ broadcast' \in [Update -> {"posted", "copying", "looking", "sending", "done"}]
    /\ todo' \in [Update -> Seq(Client)]
    /\ \A v \in Update \ {m} : broadcast'[v] = broadcast[v] /\ todo'[v] = todo[v]
    /\ todo'[m] # <<>> <=> OnItsWay(m)'
    /\ Waiting(m)' => Waiting(m)
    /\ UNCHANGED <<connections, order, handler, heartbeat, disturbed, requests, gone, closed>>

LEMMA MovedFacts ==
    ASSUME IInv, NEW m \in Update, Moved(m)
    PROVE  /\ Placed' /\ Started'
           /\ received' \in [Client -> Seq(Update)] => TypeOK'
<1>1. TypeOK /\ Placed /\ Started
  BY DEF IInv
<1>2. Placed'
  BY <1>1, BroadcastPlaced DEF Moved
<1>3. Started'
  <2>1. ASSUME NEW v \in Update \ {m}
        PROVE  (OnItsWay(v)' <=> OnItsWay(v)) /\ (Waiting(v)' <=> Waiting(v))
    BY DEF Moved, OnItsWay, Waiting
  <2>2. \A v \in Update : todo'[v] # <<>> <=> OnItsWay(v)'
    BY <1>1, <2>1 DEF Moved, Started
  <2>3. \A v \in Update : Waiting(v)' => ~disturbed'[v]
    BY <1>1, <2>1 DEF Moved, Started
  <2>4. \A c \in Client : handler'[c] \in {"new", "connecting"} => heartbeat'[c] = "none"
    BY <1>1 DEF Moved, Started
  <2> QED BY <2>2, <2>3, <2>4 DEF Started
<1>4. queue' \in [Lock -> Seq(Task)]
  BY DEF Moved, Orderly
<1> QED BY <1>1, <1>2, <1>3, <1>4 DEF Moved, TypeOK

\* The queue after Proceed, and who is ahead in it.
LEMMA ProceedFacts ==
    ASSUME IInv, NEW m \in Update, NEW k \in Lock, BroadcastAt(m) = {k},
           NEW clients \in Seq(Client), ~(broadcast[m] = "done"),
           Proceed(m, Release(queue, Broadcast(m), k), clients),
           UNCHANGED <<connections, order, handler, heartbeat, disturbed, requests,
                       gone, closed>>
    PROVE  /\ Moved(m)
           /\ todo'[m] = clients
           /\ broadcast'[m] = IF clients = <<>> THEN "done" ELSE "looking"
           /\ clients # <<>> => \A s \in Task \ {Broadcast(m)} :
                  Queued(queue, s, Manager) => Ahead(queue', s, Broadcast(m), Manager)
<1> DEFINE b == Broadcast(m)
<1>1. /\ Orderly(queue) /\ b \in Task /\ Manager \in Lock
      /\ \A l \in Lock : Queued(queue, b, l) <=> l = k
  BY TaskFacts, LockFacts DEF IInv, Placed
<1>2. /\ broadcast' \in [Update -> {"posted", "copying", "looking", "sending", "done"}]
      /\ todo' \in [Update -> Seq(Client)]
      /\ \A v \in Update \ {m} : broadcast'[v] = broadcast[v] /\ todo'[v] = todo[v]
      /\ todo'[m] = clients
      /\ broadcast'[m] = IF clients = <<>> THEN "done" ELSE "looking"
  BY DEF IInv, TypeOK, Proceed
<1>3. (todo'[m] # <<>> <=> OnItsWay(m)') /\ ~Waiting(m)'
  BY <1>2 DEF OnItsWay, Waiting
<1>4. CASE clients = <<>>
  <2>1. queue' = Release(queue, b, k) /\ BroadcastAt(m)' = {}
    BY <1>2, <1>4 DEF Proceed, BroadcastAt
  <2>2. /\ Orderly(queue') /\ Kept(queue, queue', b)
        /\ \A l \in Lock : Queued(queue', b, l) <=> l \in BroadcastAt(m)'
    BY <1>1, <2>1, Releases
  <2> QED BY <1>2, <1>3, <1>4, <2>2 DEF Moved
<1>5. CASE clients # <<>>
  <2>1. queue' = Acquire(Release(queue, b, k), b, Manager) /\ BroadcastAt(m)' = {Manager}
    BY <1>2, <1>5 DEF Proceed, BroadcastAt
  <2>2. /\ Orderly(queue') /\ Kept(queue, queue', b)
        /\ \A l \in Lock : Queued(queue', b, l) <=> (Queued(queue, b, l) /\ l # k) \/ l = Manager
        /\ \A s \in Task \ {b} : Queued(queue, s, Manager) => Ahead(queue', s, b, Manager)
    BY <1>1, <2>1, Passes
  <2>3. \A l \in Lock : Queued(queue', b, l) <=> l \in BroadcastAt(m)'
    BY <1>1, <2>1, <2>2
  <2> QED BY <1>2, <1>3, <2>2, <2>3 DEF Moved
<1> QED BY <1>4, <1>5

\* What one broadcast does is nothing to the order of two others.
LEMMA OthersInOrder ==
    ASSUME IInv, NEW m \in Update, Moved(m), NEW u \in Update \ {m}, NEW v \in Update \ {m}
    PROVE  /\ Steady(u)' <=> Steady(u)
           /\ Waiting(u)' <=> Waiting(u)
           /\ todo'[u] = todo[u] /\ broadcast'[u] = broadcast[u]
           /\ u < v => CopiesAfter(v, u)'
           /\ u < v /\ Steady(u)' /\ ~Waiting(v)' => StaysBehind(v, u)'
<1>1. Broadcast(u) \in Task \ {Broadcast(m)} /\ Broadcast(v) \in Task \ {Broadcast(m)}
  BY TaskFacts
<1>2. \A k \in Lock : Ahead(queue, Broadcast(u), Broadcast(v), k)
                          => Ahead(queue', Broadcast(u), Broadcast(v), k)
  BY <1>1 DEF Moved, Kept
<1>3. broadcast[u] = "sending" => SendLock(Head(todo[u])) \in Lock
  <2>1. broadcast[u] = "sending" => todo[u] \in Seq(Client) /\ todo[u] # <<>>
    BY DEF IInv, TypeOK, Started, OnItsWay
  <2> QED BY <2>1, LockFacts
<1>4. /\ todo'[u] = todo[u] /\ broadcast'[u] = broadcast[u]
      /\ todo'[v] = todo[v] /\ broadcast'[v] = broadcast[v]
      /\ Steady(u)' <=> Steady(u)
      /\ Steady(v)' <=> Steady(v)
      /\ Waiting(u)' <=> Waiting(u)
      /\ Waiting(v)' <=> Waiting(v)
  BY DEF Moved, Steady, Waiting, OnItsWay
<1>5. u < v => CopiesAfter(v, u)'
  <2>1. u < v => CopiesAfter(v, u)
    BY DEF IInv, InOrder, CopyInOrder
  <2> QED BY <1>2, <1>4, <2>1, LockFacts DEF CopiesAfter
<1>6. u < v /\ Steady(u)' /\ ~Waiting(v)' => StaysBehind(v, u)'
  <2>1. u < v /\ Steady(u)' /\ ~Waiting(v)' => StaysBehind(v, u)
    BY <1>4 DEF IInv, InOrder, NotOvertaken
  <2> QED BY <1>2, <1>3, <1>4, <2>1, LockFacts DEF StaysBehind
<1> QED BY <1>4, <1>5, <1>6

\* Two broadcasts with as many clients left are at the same client, and what
\* is left of a shorter one does not have the client of the longer.
LEMMA TrackFacts ==
    ASSUME IInv, NEW u \in Update, NEW v \in Update, Steady(u), Steady(v)
    PROVE  /\ todo[u] \in Seq(Client) /\ todo[u] # <<>> /\ Len(todo[u]) \in Nat
           /\ todo[v] \in Seq(Client) /\ todo[v] # <<>> /\ Len(todo[v]) \in Nat
           /\ Len(todo[u]) = Len(todo[v]) => Head(todo[u]) = Head(todo[v])
           /\ Len(todo[u]) < Len(todo[v]) => Head(todo[v]) \notin ToSet(todo[u])
<1>1. /\ todo[u] \in Seq(Client) /\ todo[u] # <<>>
      /\ todo[v] \in Seq(Client) /\ todo[v] # <<>>
  BY DEF IInv, TypeOK, Started, Steady
<1>2. /\ Len(todo[u]) \in Nat /\ Len(todo[u]) > 0 /\ DOMAIN todo[u] = 1 .. Len(todo[u])
      /\ Len(todo[v]) \in Nat /\ Len(todo[v]) > 0 /\ DOMAIN todo[v] = 1 .. Len(todo[v])
      /\ Head(todo[u]) = todo[u][1] /\ Head(todo[v]) = todo[v][1]
  BY <1>1
<1>3. /\ Len(todo[u]) <= Len(order) /\ Len(todo[v]) <= Len(order)
      /\ \A i \in DOMAIN todo[u] : todo[u][i] = order[Len(order) - Len(todo[u]) + i]
      /\ \A i \in DOMAIN todo[v] : todo[v][i] = order[Len(order) - Len(todo[v]) + i]
  BY DEF IInv, InOrder, OnTrack
<1>4. Len(order) \in Nat /\ DOMAIN order = 1 .. Len(order) /\ IsInjective(order)
  BY DEF IInv, TypeOK
<1>5. Len(todo[u]) = Len(todo[v]) => Head(todo[u]) = Head(todo[v])
  BY <1>2, <1>3
<1>6. ASSUME Len(todo[u]) < Len(todo[v]) PROVE Head(todo[v]) \notin ToSet(todo[u])
  <2> SUFFICES ASSUME NEW i \in DOMAIN todo[u], todo[u][i] = todo[v][1] PROVE FALSE
    BY <1>2 DEF ToSet
  <2> DEFINE a == Len(todo[u])
             b == Len(todo[v])
             n == Len(order)
  <2>1. /\ a \in Nat /\ b \in Nat /\ n \in Nat /\ a <= n /\ b <= n /\ a < b
        /\ i \in 1 .. a /\ 1 \in DOMAIN todo[v]
    BY <1>2, <1>3, <1>4, <1>6
  <2>2. order[n - a + i] = order[n - b + 1]
    BY <1>3, <2>1
  <2> HIDE DEF a, b, n
  <2>3. n - a + i \in 1 .. n /\ n - b + 1 \in 1 .. n /\ n - a + i # n - b + 1
    BY <2>1
  <2> QED BY <1>4, <2>2, <2>3 DEF IsInjective, n
<1> QED BY <1>1, <1>2, <1>5, <1>6

\* A newer broadcast that goes on to its next client has more of them left than
\* every older one.
LEMMA StillBehind ==
    ASSUME IInv, NEW u \in Update, NEW m \in Update, u < m, Steady(u),
           \/ /\ broadcast[m] = "sending"
              /\ Holds(Broadcast(m), SendLock(Head(todo[m])))
           \/ /\ broadcast[m] = "looking"
              /\ Holds(Broadcast(m), Manager)
              /\ Head(todo[m]) \notin connections
    PROVE  Steady(m) /\ Len(todo[u]) < Len(todo[m])
<1>1. /\ Steady(m) /\ Len(todo[u]) <= Len(todo[m])
      /\ Len(todo[u]) = Len(todo[m]) =>
              /\ broadcast[u] = "looking" =>
                    /\ broadcast[m] = "looking"
                    /\ Ahead(queue, Broadcast(u), Broadcast(m), Manager)
              /\ broadcast[u] = "sending" /\ broadcast[m] = "sending" =>
                    Ahead(queue, Broadcast(u), Broadcast(m), SendLock(Head(todo[u])))
      /\ broadcast[u] = "sending" => Head(todo[u]) \in connections
  BY DEF IInv, InOrder, NotOvertaken, StaysBehind, OnTrack, Waiting
<1>2. /\ Len(todo[u]) \in Nat /\ Len(todo[m]) \in Nat
      /\ Len(todo[u]) = Len(todo[m]) => Head(todo[u]) = Head(todo[m])
      /\ Head(todo[m]) \in Client
  BY <1>1, TrackFacts
<1>3. /\ Orderly(queue) /\ Manager \in Lock /\ SendLock(Head(todo[m])) \in Lock
      /\ Broadcast(u) \in Task /\ Broadcast(m) \in Task
  BY <1>2, TaskFacts, LockFacts DEF IInv, Placed
<1>4. ASSUME Len(todo[u]) = Len(todo[m]) PROVE FALSE
  <2>1. broadcast[u] = "looking" \/ broadcast[u] = "sending"
    BY DEF Steady, OnItsWay
  <2>2. CASE broadcast[m] = "sending"
    <3>1. Ahead(queue, Broadcast(u), Broadcast(m), SendLock(Head(todo[m])))
      BY <1>1, <1>2, <1>4, <2>1, <2>2
    <3> QED BY <1>3, <2>2, <3>1, HolderFacts
  <2>3. CASE broadcast[m] = "looking"
    <3>1. Ahead(queue, Broadcast(u), Broadcast(m), Manager)
      BY <1>1, <1>2, <1>4, <2>1, <2>3
    <3> QED BY <1>3, <2>3, <3>1, HolderFacts
  <2> QED BY <2>2, <2>3
<1> QED BY <1>1, <1>2, <1>4

\* A broadcast that starts is behind those that started before it.
LEMMA StartStep ==
    ASSUME IInv, NEW m \in Update, Start(m)
    PROVE  IInv'
<1> DEFINE b == Broadcast(m)
<1>1. /\ TypeOK /\ Placed /\ Started /\ InOrder
      /\ Orderly(queue) /\ b \in Task /\ Manager \in Lock
      /\ \A l \in Lock : Queued(queue, b, l) <=> l \in BroadcastAt(m)
      /\ broadcast[m] = "posted" /\ broadcast' = [broadcast EXCEPT ![m] = "copying"]
      /\ broadcast \in [Update -> {"posted", "copying", "looking", "sending", "done"}]
  BY TaskFacts, LockFacts DEF IInv, TypeOK, Placed, Start
<1>2. /\ BroadcastAt(m) = {} /\ BroadcastAt(m)' = {Manager}
      /\ queue' = Acquire(queue, b, Manager)
  BY <1>1 DEF Start, BroadcastAt
<1>3. /\ Orderly(queue') /\ Kept(queue, queue', b)
      /\ \A l \in Lock : Queued(queue', b, l) <=> l \in BroadcastAt(m)'
      /\ \A s \in Task \ {b} : Queued(queue, s, Manager) => Ahead(queue', s, b, Manager)
  BY <1>1, <1>2, Acquires
<1>4. broadcast'[m] = "copying" /\ Waiting(m) /\ Waiting(m)' /\ ~OnItsWay(m) /\ ~OnItsWay(m)'
  BY <1>1 DEF Waiting, OnItsWay
<1>5. Moved(m)
  BY <1>1, <1>3, <1>4 DEF Start, Moved, TypeOK, Started
<1>6. \A v \in Update : /\ Steady(v)' <=> Steady(v)
                        /\ Waiting(v)' <=> Waiting(v)
  BY <1>4, <1>5, OthersInOrder DEF Steady
<1>7. UNCHANGED <<order, connections, disturbed, todo, received>>
  BY DEF Start
<1>8. OnTrack'
  BY <1>1, <1>4, <1>5, <1>6, <1>7 DEF OnTrack, InOrder, Moved
<1>9. CopyInOrder'
  <2> SUFFICES ASSUME NEW u \in Update, NEW v \in Update, u < v
               PROVE  CopiesAfter(v, u)'
    BY DEF CopyInOrder
  <2>1. CASE u = m
    <3>1. broadcast[v] = "posted" /\ v # m
      BY <1>1, <2>1 DEF InOrder, CopyInOrder, CopiesAfter, Update
    <3>2. broadcast'[v] = "posted"
      BY <1>1, <3>1
    <3> QED BY <2>1, <1>4, <3>2 DEF Waiting, CopiesAfter
  <2>2. CASE v = m
    <3>1. broadcast[u] # "posted" /\ u # m
      <4>1. u \in 1 .. m - 1
        BY <2>2, BoundsAssumption DEF Update
      <4> QED BY <4>1, <2>2 DEF Start, Update
    <3>2. broadcast'[u] = broadcast[u] /\ Broadcast(u) \in Task \ {b}
      BY <1>1, <3>1, TaskFacts
    <3>3. broadcast[u] = "copying" => Queued(queue, Broadcast(u), Manager)
      BY <1>1 DEF Placed, BroadcastAt
    <3> QED BY <2>2, <1>3, <1>4, <3>1, <3>2, <3>3 DEF CopiesAfter
  <2>3. CASE u # m /\ v # m
    BY <1>5, <2>3, OthersInOrder
  <2> QED BY <2>1, <2>2, <2>3
<1>10. NotOvertaken'
  <2> SUFFICES ASSUME NEW u \in Update, NEW v \in Update, u < v, Steady(u), ~Waiting(v)
               PROVE  StaysBehind(v, u)'
    BY <1>6, <1>7 DEF NotOvertaken
  <2>1. u # m /\ v # m
    BY <1>4 DEF Steady
  <2> QED BY <1>5, <1>6, <2>1, OthersInOrder
<1>11. NothingNewer' /\ BroadcastsInOrder'
  BY <1>1, <1>6, <1>7 DEF InOrder, NothingNewer, BroadcastsInOrder
<1>12. received' \in [Client -> Seq(Update)]
  BY <1>1, <1>7 DEF TypeOK
<1> QED BY <1>5, <1>8, <1>9, <1>10, <1>11, <1>12, MovedFacts DEF IInv, InOrder

\* A broadcast that copies its clients has the longest list of all, and no newer
\* one has copied them before.
LEMMA CopyStep ==
    ASSUME IInv, NEW m \in Update, CopyClients(m)
    PROVE  IInv'
<1> DEFINE b == Broadcast(m)
<1>1. /\ TypeOK /\ Placed /\ Started /\ InOrder
      /\ Orderly(queue) /\ b \in Task /\ Manager \in Lock
      /\ broadcast[m] = "copying" /\ BroadcastAt(m) = {Manager}
      /\ Holds(b, Manager)
      /\ order \in Seq(Client)
  BY TaskFacts, LockFacts DEF IInv, TypeOK, Placed, CopyClients, BroadcastAt
<1>2. /\ Moved(m)
      /\ todo'[m] = order
      /\ broadcast'[m] = IF order = <<>> THEN "done" ELSE "looking"
      /\ order # <<>> => \A s \in Task \ {b} :
             Queued(queue, s, Manager) => Ahead(queue', s, b, Manager)
  BY <1>1, ProceedFacts DEF CopyClients
<1>3. UNCHANGED <<order, connections, disturbed, received>>
  BY DEF CopyClients
<1>4. ~Waiting(m)' /\ Waiting(m) /\ ~disturbed[m] /\ ~Steady(m) /\ (Steady(m)' <=> order # <<>>)
  BY <1>1, <1>2, <1>3 DEF Waiting, Steady, OnItsWay, Started
\* The older ones have copied before, the newer ones have not.
<1>5. /\ \A v \in Update : m < v => Waiting(v)
      /\ \A u \in Update : u < m => ~Waiting(u)
  <2>1. ASSUME NEW u \in Update, u < m, Waiting(u) PROVE FALSE
    <3>1. broadcast[u] = "copying"
      BY <1>1, <2>1 DEF Waiting, InOrder, CopyInOrder, CopiesAfter
    <3>2. Ahead(queue, Broadcast(u), b, Manager)
      BY <1>1, <2>1, <3>1 DEF InOrder, CopyInOrder, CopiesAfter
    <3> QED BY <1>1, <3>2, TaskFacts, HolderFacts
  <2> QED BY <1>1, <2>1 DEF InOrder, CopyInOrder, CopiesAfter
<1>6. OnTrack'
  <2> SUFFICES ASSUME NEW u \in Update, Steady(u)'
               PROVE  /\ Len(todo'[u]) <= Len(order)
                      /\ \A i \in DOMAIN todo'[u] :
                             todo'[u][i] = order[Len(order) - Len(todo'[u]) + i]
                      /\ broadcast'[u] = "sending" => Head(todo'[u]) \in connections
    BY <1>3 DEF OnTrack
  <2>1. CASE u = m
    <3>1. Len(order) \in Nat /\ DOMAIN order = 1 .. Len(order)
      BY <1>1
    <3>2. \A i \in DOMAIN order : Len(order) - Len(order) + i = i
      BY <3>1
    <3> QED BY <2>1, <1>2, <3>1, <3>2
  <2>2. CASE u # m
    BY <1>1, <1>2, <2>2, OthersInOrder DEF OnTrack, InOrder, Moved
  <2> QED BY <2>1, <2>2
<1>7. CopyInOrder'
  <2> SUFFICES ASSUME NEW u \in Update, NEW v \in Update, u < v
               PROVE  CopiesAfter(v, u)'
    BY DEF CopyInOrder
  <2>1. CASE u = m
    BY <2>1, <1>2 DEF CopiesAfter
  <2>2. CASE v = m
    <3>1. u # m /\ ~Waiting(u)
      BY <1>5, <2>2 DEF Update
    <3>2. broadcast'[u] = broadcast[u]
      BY <1>2, <3>1 DEF Moved
    <3> QED BY <3>1, <3>2 DEF Waiting, CopiesAfter
  <2>3. CASE u # m /\ v # m
    BY <1>2, <2>3, OthersInOrder
  <2> QED BY <2>1, <2>2, <2>3
<1>8. NotOvertaken'
  <2> SUFFICES ASSUME NEW u \in Update, NEW v \in Update, u < v, Steady(u)', ~Waiting(v)'
               PROVE  StaysBehind(v, u)'
    BY DEF NotOvertaken
  <2>1. CASE u = m
    <3>1. v # m /\ Waiting(v)
      BY <1>5, <2>1 DEF Update
    <3> QED BY <1>2, <3>1, OthersInOrder
  <2>2. CASE v = m
    <3>1. u # m
      BY <2>2 DEF Update
    <3>2. Steady(u) /\ todo'[u] = todo[u] /\ broadcast'[u] = broadcast[u]
          /\ Broadcast(u) \in Task \ {b}
      BY <1>2, <3>1, OthersInOrder, TaskFacts DEF Moved
    <3>3. /\ Len(todo[u]) <= Len(order) /\ todo[u] # <<>> /\ todo[u] \in Seq(Client)
      BY <1>1, <3>2 DEF InOrder, OnTrack, TypeOK, Started, Steady
    <3>4. order # <<>>
      BY <3>3
    <3>5. broadcast[u] = "looking" => Queued(queue, Broadcast(u), Manager)
      BY <1>1 DEF Placed, BroadcastAt
    <3> QED BY <1>2, <1>4, <2>2, <3>2, <3>3, <3>4, <3>5 DEF StaysBehind
  <2>3. CASE u # m /\ v # m
    BY <1>2, <2>3, OthersInOrder
  <2> QED BY <2>1, <2>2, <2>3
<1>9. NothingNewer'
  <2> SUFFICES ASSUME NEW c \in Client, NEW v \in Update
               PROVE  /\ Waiting(v)' => v \notin ToSet(received[c])
                      /\ \A u \in Update : u < v /\ Steady(u)' /\ c \in ToSet(todo'[u])
                             => v \notin ToSet(received[c])
    BY <1>3 DEF NothingNewer
  <2>1. Waiting(v) => v \notin ToSet(received[c])
    BY <1>1 DEF InOrder, NothingNewer
  <2>2. Waiting(v)' => Waiting(v)
    BY <1>2, <1>4, OthersInOrder
  <2>3. ASSUME NEW u \in Update, u < v, Steady(u)', c \in ToSet(todo'[u])
        PROVE  v \notin ToSet(received[c])
    <3>1. CASE u = m
      BY <1>5, <2>1, <2>3, <3>1
    <3>2. CASE u # m
      <4>1. Steady(u) /\ todo'[u] = todo[u]
        BY <1>2, <2>3, <3>2, OthersInOrder DEF Moved
      <4> QED BY <1>1, <2>3, <4>1 DEF InOrder, NothingNewer
    <3> QED BY <3>1, <3>2
  <2> QED BY <2>1, <2>2, <2>3
<1>10. BroadcastsInOrder'
  BY <1>1, <1>3 DEF InOrder, BroadcastsInOrder
<1>11. received' \in [Client -> Seq(Update)]
  BY <1>1, <1>3 DEF TypeOK
<1> QED BY <1>2, <1>6, <1>7, <1>8, <1>9, <1>10, <1>11, MovedFacts DEF IInv, InOrder

\* A broadcast that finds the connection is behind the older ones that wait to
\* send to the same client.
LEMMA FoundStep ==
    ASSUME IInv, NEW m \in Update, LookUp(m), Head(todo[m]) \in connections,
           broadcast' = [broadcast EXCEPT ![m] = "sending"],
           Pass(Broadcast(m), Manager, SendLock(Head(todo[m]))), UNCHANGED todo
    PROVE  IInv'
<1> DEFINE b == Broadcast(m)
           c == Head(todo[m])
<1>1. /\ TypeOK /\ Placed /\ Started /\ InOrder
      /\ Orderly(queue) /\ b \in Task /\ Manager \in Lock
      /\ \A l \in Lock : Queued(queue, b, l) <=> l \in BroadcastAt(m)
      /\ broadcast[m] = "looking" /\ BroadcastAt(m) = {Manager}
      /\ Holds(b, Manager)
      /\ broadcast \in [Update -> {"posted", "copying", "looking", "sending", "done"}]
      /\ todo[m] # <<>> /\ todo[m] \in Seq(Client)
  BY TaskFacts, LockFacts DEF IInv, TypeOK, Placed, LookUp, BroadcastAt, Started, OnItsWay
<1>2. c \in Client /\ SendLock(c) \in Lock /\ SendLock(c) # Manager
  BY <1>1, LockFacts
<1>3. broadcast'[m] = "sending" /\ BroadcastAt(m)' = {SendLock(c)}
  BY <1>1 DEF BroadcastAt
<1>4. queue' = Acquire(Release(queue, b, Manager), b, SendLock(c))
  BY DEF Pass
<1> HIDE DEF c
<1>5. /\ Orderly(queue') /\ Kept(queue, queue', b)
      /\ \A l \in Lock : Queued(queue', b, l) <=> l \in BroadcastAt(m)'
      /\ \A s \in Task \ {b} : Queued(queue, s, SendLock(c)) => Ahead(queue', s, b, SendLock(c))
  BY <1>1, <1>2, <1>3, <1>4, Passes
<1>6. UNCHANGED <<order, connections, disturbed, todo, received>>
  BY DEF LookUp
<1>7. ~Waiting(m) /\ ~Waiting(m)' /\ OnItsWay(m) /\ OnItsWay(m)'
  BY <1>1, <1>3 DEF Waiting, OnItsWay
<1>8. Moved(m)
  BY <1>1, <1>5, <1>7 DEF LookUp, Moved, TypeOK
<1>9. \A v \in Update : (Steady(v)' <=> Steady(v)) /\ (Waiting(v)' <=> Waiting(v))
  BY <1>6, <1>7, <1>8, OthersInOrder DEF Steady
<1>10. OnTrack'
  <2> SUFFICES ASSUME NEW u \in Update, Steady(u)
               PROVE  broadcast'[u] = "sending" => Head(todo[u]) \in connections
    BY <1>1, <1>6, <1>9 DEF InOrder, OnTrack
  <2>1. CASE u = m
    BY <2>1
  <2>2. CASE u # m
    BY <1>1, <1>8, <2>2 DEF InOrder, OnTrack, Moved
  <2> QED BY <2>1, <2>2
<1>11. CopyInOrder'
  <2> SUFFICES ASSUME NEW u \in Update, NEW v \in Update, u < v
               PROVE  CopiesAfter(v, u)'
    BY DEF CopyInOrder
  <2>1. CASE u = m
    BY <2>1, <1>3 DEF CopiesAfter
  <2>2. CASE v = m
    <3>1. u # m /\ ~Waiting(u)
      BY <1>1, <1>7, <2>2 DEF Update, InOrder, CopyInOrder, CopiesAfter, Waiting
    <3> QED BY <1>9, <3>1 DEF Waiting, CopiesAfter
  <2>3. CASE u # m /\ v # m
    BY <1>8, <2>3, OthersInOrder
  <2> QED BY <2>1, <2>2, <2>3
<1>12. NotOvertaken'
  <2> SUFFICES ASSUME NEW u \in Update, NEW v \in Update, u < v, Steady(u)', ~Waiting(v)'
               PROVE  StaysBehind(v, u)'
    BY DEF NotOvertaken
  <2>1. StaysBehind(v, u)
    BY <1>1, <1>9 DEF InOrder, NotOvertaken
  <2>2. CASE u = m
    <3>1. v # m
      BY <2>2 DEF Update
    <3>2. broadcast'[v] = broadcast[v]
      BY <1>8, <3>1 DEF Moved
    <3> QED BY <1>1, <1>3, <1>6, <1>9, <2>1, <2>2, <3>2 DEF StaysBehind
  <2>3. CASE v = m
    <3>1. u # m /\ Steady(u) /\ Steady(m)
      BY <1>9, <2>1, <2>3 DEF Update, StaysBehind
    <3>2. broadcast'[u] = broadcast[u] /\ Broadcast(u) \in Task \ {b}
      BY <1>8, <3>1, TaskFacts DEF Moved
    <3>3. Len(todo[u]) = Len(todo[m]) => Head(todo[u]) = c
      BY <3>1, TrackFacts DEF c
    <3>4. ~(Len(todo[u]) = Len(todo[m]) /\ broadcast[u] = "looking")
      BY <1>1, <2>1, <2>3, TaskFacts, HolderFacts DEF StaysBehind
    <3>5. Len(todo[u]) = Len(todo[m]) /\ broadcast[u] = "sending"
              => Queued(queue, Broadcast(u), SendLock(c))
      BY <1>1, <1>2, <3>3 DEF Placed, BroadcastAt
    <3> QED BY <1>5, <1>6, <1>9, <2>1, <2>3, <3>2, <3>3, <3>4, <3>5 DEF StaysBehind
  <2>4. CASE u # m /\ v # m
    BY <1>8, <2>4, OthersInOrder
  <2> QED BY <2>2, <2>3, <2>4
<1>13. NothingNewer' /\ BroadcastsInOrder'
  BY <1>1, <1>6, <1>9 DEF InOrder, NothingNewer, BroadcastsInOrder
<1>14. received' \in [Client -> Seq(Update)]
  BY <1>1, <1>6 DEF TypeOK
<1> QED BY <1>8, <1>10, <1>11, <1>12, <1>13, <1>14, MovedFacts DEF IInv, InOrder

\* A broadcast that goes on to its next client, having sent to this one or not
\* found it, is not there before an older one.
LEMMA NextClientStep ==
    ASSUME IInv, NEW m \in Update,
           \/ /\ SendUpdate(m)
           \/ /\ LookUp(m) /\ Head(todo[m]) \notin connections
              /\ Proceed(m, Release(queue, Broadcast(m), Manager), Tail(todo[m]))
    PROVE  IInv'
<1> DEFINE b == Broadcast(m)
           c == Head(todo[m])
<1>1. /\ TypeOK /\ Placed /\ Started /\ InOrder
      /\ b \in Task /\ Manager \in Lock
      /\ broadcast[m] \in {"looking", "sending"}
      /\ todo[m] # <<>> /\ todo[m] \in Seq(Client)
      /\ received \in [Client -> Seq(Update)]
      /\ UNCHANGED <<connections, order, handler, heartbeat, disturbed, requests, gone, closed>>
  BY TaskFacts, LockFacts DEF IInv, TypeOK, Placed, LookUp, SendUpdate, Started, OnItsWay
<1>2. /\ c \in Client /\ Tail(todo[m]) \in Seq(Client)
      /\ Len(Tail(todo[m])) = Len(todo[m]) - 1 /\ Len(todo[m]) \in Nat \ {0}
      /\ DOMAIN Tail(todo[m]) = 1 .. Len(todo[m]) - 1
      /\ \A i \in 1 .. Len(todo[m]) - 1 : Tail(todo[m])[i] = todo[m][i + 1]
      /\ ToSet(Tail(todo[m])) \subseteq ToSet(todo[m]) /\ c \in ToSet(todo[m])
      /\ Len(todo[m]) > 1 => Tail(todo[m]) # <<>>
  <2>1. /\ Tail(todo[m]) \in Seq(Client) /\ Len(Tail(todo[m])) = Len(todo[m]) - 1
        /\ Len(todo[m]) \in Nat \ {0} /\ DOMAIN todo[m] = 1 .. Len(todo[m])
        /\ DOMAIN Tail(todo[m]) = 1 .. Len(todo[m]) - 1
        /\ \A i \in 1 .. Len(todo[m]) - 1 : Tail(todo[m])[i] = todo[m][i + 1]
        /\ c = todo[m][1] /\ c \in Client
    BY <1>1
  <2>2. ToSet(Tail(todo[m])) \subseteq ToSet(todo[m]) /\ c \in ToSet(todo[m])
    BY <2>1 DEF ToSet
  <2>3. Len(todo[m]) > 1 => Tail(todo[m]) # <<>>
    <3> DEFINE t == Tail(todo[m])
    <3>1. t \in Seq(Client) /\ Len(t) = Len(todo[m]) - 1 /\ Len(todo[m]) \in Nat
      BY <2>1
    <3> HIDE DEF t
    <3>2. Len(todo[m]) > 1 => t # <<>>
      BY <3>1
    <3> QED BY <3>2 DEF t
  <2> QED BY <2>1, <2>2, <2>3
<1>3. /\ Moved(m)
      /\ todo'[m] = Tail(todo[m])
      /\ broadcast'[m] = IF Tail(todo[m]) = <<>> THEN "done" ELSE "looking"
      /\ Tail(todo[m]) # <<>> => \A s \in Task \ {b} :
             Queued(queue, s, Manager) => Ahead(queue', s, b, Manager)
  <2>1. CASE SendUpdate(m)
    <3>1. BroadcastAt(m) = {SendLock(c)} /\ SendLock(c) \in Lock
      BY <1>2, <2>1, LockFacts DEF SendUpdate, BroadcastAt
    <3> QED BY <1>1, <1>2, <2>1, <3>1, ProceedFacts DEF SendUpdate
  <2>2. CASE LookUp(m) /\ Proceed(m, Release(queue, Broadcast(m), Manager), Tail(todo[m]))
    <3>1. BroadcastAt(m) = {Manager}
      BY <2>2 DEF LookUp, BroadcastAt
    <3> QED BY <1>1, <1>2, <2>2, <3>1, ProceedFacts
  <2> QED BY <2>1, <2>2
\* The update has come to its client, if anywhere.
<1>4. /\ received' \in [Client -> Seq(Update)]
      /\ \A d \in Client : received'[d] # received[d] =>
             d = c /\ received'[d] = Append(received[d], m)
  <2>1. CASE SendUpdate(m)
    <3>1. received' = received \/ received' = [received EXCEPT ![c] = Append(@, m)]
      BY <2>1 DEF SendUpdate
    <3>2. Append(received[c], m) \in Seq(Update)
      BY <1>1, <1>2, AppendedFacts
    <3> QED BY <1>1, <1>2, <3>1, <3>2
  <2>2. CASE LookUp(m)
    BY <1>1, <2>2 DEF LookUp
  <2> QED BY <2>1, <2>2
<1>5. ~Waiting(m) /\ ~Waiting(m)' /\ OnItsWay(m) /\ (Steady(m)' => Steady(m))
  BY <1>1, <1>3 DEF Waiting, OnItsWay, Steady
<1>6. ASSUME NEW u \in Update, u < m, Steady(u)
      PROVE  Steady(m) /\ Len(todo[u]) < Len(todo[m])
  BY <1>6, StillBehind DEF LookUp, SendUpdate
<1> HIDE DEF c
<1>7. \A v \in Update : Steady(v)' => Steady(v)
  BY <1>3, <1>5, OthersInOrder
<1>8. OnTrack'
  <2> SUFFICES ASSUME NEW u \in Update, Steady(u)'
               PROVE  /\ Len(todo'[u]) <= Len(order)
                      /\ \A i \in DOMAIN todo'[u] :
                             todo'[u][i] = order[Len(order) - Len(todo'[u]) + i]
                      /\ broadcast'[u] = "sending" => Head(todo'[u]) \in connections
    BY <1>1 DEF OnTrack
  <2>1. /\ Len(todo[u]) <= Len(order)
        /\ \A i \in DOMAIN todo[u] : todo[u][i] = order[Len(order) - Len(todo[u]) + i]
        /\ broadcast[u] = "sending" => Head(todo[u]) \in connections
    BY <1>1, <1>7 DEF InOrder, OnTrack
  <2>2. CASE u = m
    <3>1. Len(order) \in Nat
      BY <1>1 DEF TypeOK
    <3>2. ASSUME NEW i \in DOMAIN todo'[m]
          PROVE  todo'[m][i] = order[Len(order) - Len(todo'[m]) + i]
      <4>1. i \in 1 .. Len(todo[m]) - 1 /\ i + 1 \in DOMAIN todo[m]
        BY <1>1, <1>2, <1>3
      <4>2. todo'[m][i] = order[Len(order) - Len(todo[m]) + (i + 1)]
        BY <1>2, <1>3, <2>1, <2>2, <4>1
      <4>3. Len(order) - Len(todo[m]) + (i + 1) = Len(order) - Len(todo'[m]) + i
        BY <1>2, <1>3, <3>1, <4>1
      <4> QED BY <4>2, <4>3
    <3>3. Len(todo'[m]) <= Len(order)
      BY <1>2, <1>3, <2>1, <2>2, <3>1
    <3>4. broadcast'[m] # "sending"
      BY <1>3
    <3> QED BY <2>2, <3>2, <3>3, <3>4
  <2>3. CASE u # m
    BY <1>3, <2>1, <2>3 DEF Moved
  <2> QED BY <2>2, <2>3
<1>9. CopyInOrder'
  <2> SUFFICES ASSUME NEW u \in Update, NEW v \in Update, u < v
               PROVE  CopiesAfter(v, u)'
    BY DEF CopyInOrder
  <2>1. CASE u = m
    BY <2>1, <1>3 DEF CopiesAfter
  <2>2. CASE v = m
    <3>1. u # m /\ ~Waiting(u)
      BY <1>1, <1>5, <2>2 DEF Update, InOrder, CopyInOrder, CopiesAfter, Waiting
    <3>2. ~Waiting(u)'
      BY <1>3, <3>1, OthersInOrder
    <3> QED BY <3>2 DEF Waiting, CopiesAfter
  <2>3. CASE u # m /\ v # m
    BY <1>3, <2>3, OthersInOrder
  <2> QED BY <2>1, <2>2, <2>3
<1>10. NotOvertaken'
  <2> SUFFICES ASSUME NEW u \in Update, NEW v \in Update, u < v, Steady(u)', ~Waiting(v)'
               PROVE  StaysBehind(v, u)'
    BY DEF NotOvertaken
  <2>1. CASE u = m
    <3>1. v # m
      BY <2>1 DEF Update
    <3>2. /\ todo'[v] = todo[v] /\ broadcast'[v] = broadcast[v]
          /\ (Steady(v)' <=> Steady(v)) /\ ~Waiting(v)
      BY <1>3, <3>1, OthersInOrder
    <3>3. StaysBehind(v, m)
      BY <1>1, <1>7, <2>1, <3>2 DEF InOrder, NotOvertaken
    <3>4. Steady(v)' /\ Len(todo'[m]) < Len(todo'[v])
      <4>1. Steady(m) /\ Steady(v) /\ Len(todo[m]) <= Len(todo[v])
        BY <1>7, <2>1, <3>3 DEF StaysBehind
      <4>2. Len(todo[v]) \in Nat
        BY <4>1, TrackFacts
      <4> QED BY <1>2, <1>3, <3>2, <4>1, <4>2
    <3>5. Len(todo'[m]) \in Nat /\ Len(todo'[v]) \in Nat
      BY <1>2, <1>3, <3>2, <3>3, <1>5, <2>1, TrackFacts DEF StaysBehind
    <3> QED BY <2>1, <3>4, <3>5 DEF StaysBehind
  <2>2. CASE v = m
    <3>1. /\ u # m /\ Steady(u) /\ Steady(m) /\ Len(todo[u]) < Len(todo[m])
      BY <1>6, <1>7, <2>2 DEF Update
    <3>2. /\ todo'[u] = todo[u] /\ broadcast'[u] = broadcast[u]
          /\ Broadcast(u) \in Task \ {b}
      BY <1>3, <3>1, OthersInOrder, TaskFacts
    <3>3. Len(todo[u]) \in Nat \ {0}
      BY <3>1, TrackFacts
    <3>4. /\ Len(todo[u]) <= Len(todo'[m]) /\ broadcast'[m] = "looking"
          /\ Tail(todo[m]) # <<>>
      BY <1>2, <1>3, <3>1, <3>3
    <3>5. Steady(m)'
      BY <1>1, <3>1, <3>4 DEF Steady, OnItsWay
    <3>6. broadcast[u] = "looking" => Queued(queue, Broadcast(u), Manager)
      BY <1>1 DEF Placed, BroadcastAt
    <3> QED BY <1>3, <2>2, <3>2, <3>4, <3>5, <3>6 DEF StaysBehind
  <2>3. CASE u # m /\ v # m
    BY <1>3, <2>3, OthersInOrder
  <2> QED BY <2>1, <2>2, <2>3
<1>11. ASSUME NEW d \in Client PROVE ToSet(received'[d]) \subseteq ToSet(received[d]) \cup {m}
  <2>1. CASE received'[d] = received[d]
    BY <2>1
  <2>2. CASE received'[d] = Append(received[d], m)
    <3>1. received[d] \in Seq(Update)
      BY <1>1
    <3> QED BY <2>2, <3>1, AppendedFacts
  <2> QED BY <1>4, <2>1, <2>2
<1>12. NothingNewer'
  <2> SUFFICES ASSUME NEW d \in Client, NEW v \in Update, v \in ToSet(received'[d])
               PROVE  /\ ~Waiting(v)'
                      /\ \A u \in Update : ~(u < v /\ Steady(u)' /\ d \in ToSet(todo'[u]))
    BY DEF NothingNewer
  <2>1. CASE v \in ToSet(received[d])
    <3>1. ~Waiting(v) /\ \A u \in Update : ~(u < v /\ Steady(u) /\ d \in ToSet(todo[u]))
      BY <1>1, <2>1 DEF InOrder, NothingNewer
    <3>2. \A u \in Update : ToSet(todo'[u]) \subseteq ToSet(todo[u])
      BY <1>2, <1>3, OthersInOrder
    <3>3. ~Waiting(v)'
      BY <1>3, <1>5, <3>1, OthersInOrder
    <3> QED BY <1>7, <3>1, <3>2, <3>3
  <2>2. CASE v \notin ToSet(received[d])
    <3>1. v = m /\ d = c
      BY <1>4, <1>11, <2>2
    <3>2. ASSUME NEW u \in Update, u < m, Steady(u)', c \in ToSet(todo'[u]) PROVE FALSE
      <4>1. u # m /\ Steady(u) /\ Steady(m) /\ Len(todo[u]) < Len(todo[m])
        BY <1>6, <1>7, <3>2 DEF Update
      <4>2. c \in ToSet(todo[u])
        BY <1>3, <3>2, <4>1, OthersInOrder
      <4> QED BY <4>1, <4>2, TrackFacts DEF c
    <3> QED BY <1>5, <3>1, <3>2
  <2> QED BY <2>1, <2>2
<1>13. BroadcastsInOrder'
  <2> SUFFICES ASSUME NEW d \in Client, NEW i \in DOMAIN received'[d],
                      NEW j \in DOMAIN received'[d],
                      i < j, received'[d][i] > received'[d][j]
               PROVE  disturbed[received'[d][j]]
    BY <1>1 DEF BroadcastsInOrder
  <2>1. CASE received'[d] = received[d]
    BY <1>1, <2>1 DEF InOrder, BroadcastsInOrder
  <2>2. CASE received'[d] # received[d]
    <3> DEFINE s == received[d]
    <3>1. d = c /\ received'[d] = Append(s, m) /\ s \in Seq(Update)
      BY <1>1, <1>4, <2>2
    <3> HIDE DEF s
    <3>2. /\ DOMAIN s = 1 .. Len(s) /\ Len(s) \in Nat
          /\ DOMAIN Append(s, m) = 1 .. Len(s) + 1
          /\ \A k \in DOMAIN s : Append(s, m)[k] = s[k]
          /\ Append(s, m)[Len(s) + 1] = m
      BY <3>1, AppendedFacts
    <3>3. i \in DOMAIN s /\ received'[d][i] = s[i]
      BY <3>1, <3>2
    <3>4. CASE j \in DOMAIN s
      <4>1. received'[d][j] = s[j]
        BY <3>1, <3>2, <3>4
      <4> QED BY <1>1, <3>3, <3>4, <4>1 DEF InOrder, BroadcastsInOrder, s
    <3>5. CASE j \notin DOMAIN s
      <4>1. received'[d][j] = m
        BY <3>1, <3>2, <3>5
      <4>2. s[i] \in ToSet(received[d])
        BY <3>3 DEF ToSet, s
      <4>3. s[i] \in Update /\ m < s[i]
        <5>1. s[i] \in Update /\ s[i] > m
          BY <3>1, <3>2, <3>3, <4>1
        <5> QED BY <5>1 DEF Update
      <4>4. ~Steady(m)
        BY <1>1, <1>2, <3>1, <4>2, <4>3 DEF InOrder, NothingNewer, c
      <4> QED BY <1>5, <4>1, <4>4 DEF Steady
    <3> QED BY <3>4, <3>5
  <2> QED BY <2>1, <2>2
<1> QED BY <1>3, <1>4, <1>8, <1>9, <1>10, <1>12, <1>13, MovedFacts DEF IInv, InOrder

-----------------------------------------------------------------------------
(* The invariant                                                           *)

LEMMA InitIInv == Init => IInv
<1> SUFFICES ASSUME Init PROVE IInv
  OBVIOUS
<1>1. \A S : <<>> \in Seq(S) /\ ToSet(<<>>) = {} /\ IsInjective(<<>>)
  BY DEF ToSet, IsInjective
<1>2. TypeOK
  <2>1. queue \in [Lock -> Seq(Task)] /\ todo \in [Update -> Seq(Client)]
        /\ received \in [Client -> Seq(Update)] /\ order \in Seq(Client)
    BY <1>1 DEF Init
  <2>2. requests \in 0 .. MaxRequest
    BY BoundsAssumption DEF Init
  <2> QED BY <1>1, <2>1, <2>2 DEF Init, TypeOK
<1>3. Placed
  <2>1. Orderly(queue) /\ \A k \in Lock : \A t : ~Queued(queue, t, k)
    BY <1>1 DEF Init, Orderly, Queued
  <2>2. /\ \A u \in Update : BroadcastAt(u) = {}
        /\ \A c \in Client : HandlerAt(c) = {} /\ HeartbeatAt(c) = {}
    BY DEF Init, BroadcastAt, HandlerAt, HeartbeatAt
  <2> QED BY <2>1, <2>2 DEF Placed
<1>4. Started
  BY DEF Init, Started, OnItsWay, Waiting
<1>5. \A u \in Update : broadcast[u] = "posted" /\ Waiting(u) /\ ~Steady(u)
  BY DEF Init, Waiting, Steady, OnItsWay
<1>6. \A c \in Client : ToSet(received[c]) = {} /\ DOMAIN received[c] = {}
  <2>1. DOMAIN <<>> = {}
    OBVIOUS
  <2> QED BY <1>1, <2>1 DEF Init
<1>7. InOrder
  BY <1>5, <1>6 DEF InOrder, OnTrack, CopyInOrder, CopiesAfter, NotOvertaken, NothingNewer,
                    BroadcastsInOrder
<1> QED BY <1>2, <1>3, <1>4, <1>7 DEF IInv

LEMMA Inductive == IInv /\ [Next]_vars => IInv'
<1> SUFFICES ASSUME IInv, [Next]_vars PROVE IInv'
  OBVIOUS
<1>1. ASSUME NEW u \in Update, BroadcastStep(u) PROVE IInv'
  <2>1. CASE CopyClients(u)
    BY <2>1, CopyStep
  <2>2. CASE LookUp(u)
    <3>1. CASE Head(todo[u]) \in connections
      BY <2>2, <3>1, FoundStep DEF LookUp
    <3>2. CASE Head(todo[u]) \notin connections
      BY <2>2, <3>2, NextClientStep DEF LookUp
    <3> QED BY <3>1, <3>2
  <2>3. CASE SendUpdate(u)
    BY <2>3, NextClientStep
  <2> QED BY <1>1, <2>1, <2>2, <2>3 DEF BroadcastStep
<1>2. ASSUME NEW c \in Client, HandlerStep(c) PROVE IInv'
  BY <1>2, HandlerSteps, ComplainStep, DisconnectStep DEF HandlerStep
<1>3. ASSUME NEW c \in Client, HeartbeatStep(c) PROVE IInv'
  BY <1>3, HeartbeatSteps DEF HeartbeatStep
<1>4. CASE World
  BY <1>4, StartStep, HandlerSteps, VanishStep DEF World
<1>5. CASE UNCHANGED vars
  <2>1. TypeOK' /\ Placed' /\ Started'
    BY <1>5 DEF IInv, vars, tasks, TypeOK, Placed, Orderly, Queued, BroadcastAt, HandlerAt,
                HeartbeatAt, Started, OnItsWay, Waiting
  <2>2. InOrder'
    BY <1>5 DEF IInv, vars, tasks, InOrder, OnTrack, CopyInOrder, CopiesAfter, NotOvertaken,
                StaysBehind, NothingNewer, BroadcastsInOrder, Steady, OnItsWay, Waiting, Ahead
  <2> QED BY <2>1, <2>2 DEF IInv
<1> QED BY <1>1, <1>2, <1>3, <1>4, <1>5 DEF Next

\* The strengthening holds throughout, and with it what the theorems below state.
THEOREM Invariance == Spec => []IInv
BY InitIInv, Inductive, PTL DEF Spec

\* The queues of the locks, the places of the tasks and the clients of each
\* broadcast (device_websocket_manager.py, _envelopes.py) keep their types: what
\* waits in a queue is a task, and no client is among those of a device twice.
THEOREM TypeCorrect == Spec => []TypeOK
<1>1. IInv => TypeOK
  BY DEF IInv
<1> QED BY <1>1, Invariance, PTL

\* However many clients come and go, whatever ends in _broadcast_device_update,
\* in a handler or in a heartbeat_loop that disconnect cancels, ends without a
\* lock and without a place in the queue of one.
THEOREM NothingLeftBehind == Spec => []NoLockLeftBehind
<1>1. IInv => NoLockLeftBehind
  <2> SUFFICES ASSUME IInv, NEW k \in Lock, NEW t \in Task, t \in ToSet(queue[k])
               PROVE  \/ \E u \in Update : t = Broadcast(u) /\ broadcast[u] # "done"
                      \/ \E c \in Client : t = Handler(c) /\ handler[c] \notin {"receiving", "left"}
                      \/ \E c \in Client : t = Heartbeat(c) /\ heartbeat[c] = "sending"
    BY DEF NoLockLeftBehind
  <2>1. Queued(queue, t, k) /\ Placed
    BY DEF Queued, IInv
  <2>2. ASSUME NEW u \in Update, t = Broadcast(u) PROVE broadcast[u] # "done"
    BY <2>1, <2>2 DEF Placed, BroadcastAt
  <2>3. ASSUME NEW c \in Client, t = Handler(c) PROVE handler[c] \notin {"receiving", "left"}
    BY <2>1, <2>3 DEF Placed, HandlerAt
  <2>4. ASSUME NEW c \in Client, t = Heartbeat(c) PROVE heartbeat[c] = "sending"
    BY <2>1, <2>4 DEF Placed, HeartbeatAt
  <2> QED BY <2>2, <2>3, <2>4, TaskFacts
<1> QED BY <1>1, Invariance, PTL

\* With any number of broadcasts and clients: updates reach a client in the
\* order in which the monitor posted them, though each _broadcast_device_update
\* waits for a lock before every client; unless the clients changed after the
\* older one had copied them.
THEOREM UpdatesKeepTheirOrder == Spec => []BroadcastsInOrder
<1>1. IInv => BroadcastsInOrder
  BY DEF IInv, InOrder
<1> QED BY <1>1, Invariance, PTL

=============================================================================
