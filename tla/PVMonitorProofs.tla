-------------------------- MODULE PVMonitorProofs --------------------------
(***************************************************************************)
(* Proofs about PVMonitor, for any set of PVs, callbacks, signals and      *)
(* values, any buffer size and queues of any length.                       *)
(***************************************************************************)
EXTENDS PVMonitor, FiniteSetTheorems, SequenceTheorems, TLAPS

-----------------------------------------------------------------------------
(* Facts about the buffer and the event queues                             *)

LEMMA PushFacts ==
    ASSUME NEW S, NEW buffer \in Seq(S), NEW v \in S
    PROVE  /\ Push(buffer, v) \in Seq(S)
           /\ Push(buffer, v) # <<>>
           /\ Push(buffer, v)[Len(Push(buffer, v))] = v
           /\ Len(buffer) <= BufferSize => Len(Push(buffer, v)) <= BufferSize
<1> USE BufferSizeAssumption
<1>1. CASE Len(buffer) < BufferSize
  BY <1>1 DEF Push
<1>2. CASE ~(Len(buffer) < BufferSize)
  <2>1. buffer # <<>> /\ Len(buffer) \in Nat
    BY <1>2
  <2>2. Tail(buffer) \in Seq(S) /\ Len(Tail(buffer)) = Len(buffer) - 1
    BY <2>1
  <2> QED BY <1>2, <2>1, <2>2 DEF Push
<1> QED BY <1>1, <1>2

\* The events one IOC change queues.
Burst(p, kind, event) == [i \in 1 .. Cardinality(Feeding(p, kind)) |-> event]

LEMMA BurstFacts ==
    ASSUME NEW p, NEW kind, NEW S, NEW event \in S, NEW q \in Seq(S)
    PROVE  /\ Burst(p, kind, event) \in Seq(S)
           /\ q \o Burst(p, kind, event) \in Seq(S)
           /\ Feeding(p, kind) # {} =>
                /\ q \o Burst(p, kind, event) # <<>>
                /\ (q \o Burst(p, kind, event))[Len(q \o Burst(p, kind, event))] = event
<1> DEFINE n == Cardinality(Feeding(p, kind))
<1>1. IsFiniteSet(Feeding(p, kind))
  BY SignalAssumption, FS_Subset DEF Feeding
<1>2. n \in Nat
  BY <1>1, FS_CardinalityType
<1>3. Feeding(p, kind) # {} => n > 0
  BY <1>1, <1>2, FS_EmptySet
<1> DEFINE b == [i \in 1 .. n |-> event]
<1> HIDE DEF n
<1>4. b \in Seq(S) /\ Len(b) = n /\ \A i \in 1 .. n : b[i] = event
  BY <1>2
<1> HIDE DEF b
<1>5. /\ q \o b \in Seq(S) /\ Len(q \o b) = Len(q) + n /\ Len(q) \in Nat
      /\ \A i \in 1 .. Len(q) + n :
            (q \o b)[i] = IF i <= Len(q) THEN q[i] ELSE b[i - Len(q)]
  BY <1>4, ConcatProperties, LenProperties
<1>6. ASSUME n > 0
      PROVE  (q \o b) # <<>> /\ (q \o b)[Len(q \o b)] = event
  <2>1. Len(q) + n \in 1 .. Len(q) + n /\ ~(Len(q) + n <= Len(q))
    BY <1>2, <1>5, <1>6
  <2>2. (q \o b)[Len(q) + n] = b[n]
    BY <2>1, <1>2, <1>5, <1>6
  <2>3. b[n] = event
    BY <1>2, <1>4, <1>6
  <2>4. (q \o b) # <<>>
    BY <2>1, <1>2, <1>5, <1>6
  <2> QED BY <1>5, <2>2, <2>3, <2>4
<1>7. Burst(p, kind, event) = b
  BY DEF b, n, Burst
<1> QED BY <1>3, <1>4, <1>5, <1>6, <1>7

-----------------------------------------------------------------------------
(* Type correctness                                                        *)

\* Every reachable state has well-typed manager, ophyd and IOC state.
THEOREM TypeCorrect == Spec => []TypeOK
<1> USE NoneAssumption
<1>1. Init => TypeOK
  BY DEF Init, TypeOK, Connection, Unknown, NoCall
<1>2. TypeOK /\ [Next]_vars => TypeOK'
  <2> SUFFICES ASSUME TypeOK, [Next]_vars PROVE TypeOK'
    OBVIOUS
  <2> USE DEF ioc, ophyd, lock, manager, calls
  <2>a. callbacks \in [PV -> SUBSET Callback]
    BY DEF TypeOK
  <2>b. feeds \in [Signal -> SUBSET {"value", "meta"}]
    BY DEF TypeOK
  <2>c. iocValue \in [PV -> Value] /\ valueQ \in [PV -> Seq(Value)]
    BY DEF TypeOK
  <2>d. buffers \in [PV -> Seq(Value)] /\ latest \in [PV -> Value \cup {NoValue}]
    BY DEF TypeOK
  <2>e. metaQ \in [PV -> Seq(Connection)] /\ \A p \in PV : Link(p) \in Connection
    BY DEF TypeOK, Link, Connection
  <2>f. connStatus \in [PV -> Connection \cup {Unknown}] /\ "connected" \in Connection
    BY DEF TypeOK, Connection
  <2>g. /\ seenValue \in [Callback -> Value \cup {NoValue}]
        /\ seenConn \in [Callback -> Connection \cup {Unknown}]
        /\ valueCalls \in [Callback -> Value \cup {NoValue}]
        /\ metaCalls \in [Callback -> [connected : Connection \cup {Unknown},
                                       value : Value \cup {NoValue}]]
        /\ overtaken \subseteq Callback
    BY DEF TypeOK
  <2>h. /\ signals \in [PV -> Signal \cup {NoSignal}]
        /\ live \in [Signal -> PV \cup {NoPV}]
    BY DEF TypeOK
  <2>1. ASSUME NEW p \in PV, NEW cb \in Callback \cup {NoCallback}, SubscribeOpen(p, cb)
        PROVE  TypeOK'
    <3>1. Push(buffers[p], iocValue[p]) \in Seq(Value)
      BY <2>c, <2>d, PushFacts
    <3>2. buffers' \in [PV -> Seq(Value)]
      <4>1. \/ buffers' = buffers
            \/ buffers' = [buffers EXCEPT ![p] = Push(@, iocValue[p])]
        BY <2>1 DEF SubscribeOpen
      <4> QED BY <4>1, <2>d, <3>1
    <3>5. latest' \in [PV -> Value \cup {NoValue}]
      BY <2>1, <2>c, <2>d DEF SubscribeOpen
    <3>3. connStatus' \in [PV -> Connection \cup {Unknown}]
      BY <2>1, <2>f DEF SubscribeOpen
    <3>4. /\ signals' \in [PV -> Signal \cup {NoSignal}]
          /\ live' \in [Signal -> PV \cup {NoPV}]
      BY <2>1, <2>h DEF SubscribeOpen
    <3> QED BY <2>1, <3>2, <3>3, <3>4, <3>5 DEF SubscribeOpen, TypeOK
  <2>2. ASSUME NEW p \in PV, SubscribeFinish(p) PROVE TypeOK'
    <3>1. /\ callbacks' \in [PV -> SUBSET Callback]
          /\ seenValue' \in [Callback -> Value \cup {NoValue}]
          /\ seenConn' \in [Callback -> Connection \cup {Unknown}]
          /\ overtaken' \subseteq Callback
      <4>1. joining \in Callback \cup {NoCallback}
        BY DEF TypeOK
      <4> QED BY <2>2, <4>1, <2>a, <2>g DEF SubscribeFinish, Register
    <3>2. feeds' \in [Signal -> SUBSET {"value", "meta"}]
      BY <2>2, <2>b DEF SubscribeFinish
    <3>3. valueQ' \in [PV -> Seq(Value)]
      BY <2>2, <2>c DEF SubscribeFinish
    <3>4. metaQ' \in [PV -> Seq(Connection)]
      BY <2>2, <2>e DEF SubscribeFinish
    <3> QED BY <2>2, <3>1, <3>2, <3>3, <3>4 DEF SubscribeFinish, TypeOK
  <2>3. ASSUME NEW p \in PV, SubscribeFail(p) PROVE TypeOK'
    <3>1. feeds' \in [Signal -> SUBSET {"value", "meta"}]
      BY <2>3, <2>b DEF SubscribeFail
    <3>2. valueQ' \in [PV -> Seq(Value)]
      <4>1. \/ valueQ' = valueQ
            \/ valueQ' = [valueQ EXCEPT ![p] = Append(@, iocValue[p])]
        BY <2>3, <2>c DEF SubscribeFail
      <4>2. Append(valueQ[p], iocValue[p]) \in Seq(Value)
        BY <2>c
      <4> QED BY <4>1, <4>2, <2>c
    <3> QED BY <2>3, <3>1, <3>2 DEF SubscribeFail, TypeOK
  <2>4. ASSUME NEW p \in PV, NEW cb \in Callback, SubscribeJoin(p, cb) PROVE TypeOK'
    <3>1. /\ callbacks' \in [PV -> SUBSET Callback]
          /\ seenValue' \in [Callback -> Value \cup {NoValue}]
          /\ seenConn' \in [Callback -> Connection \cup {Unknown}]
          /\ overtaken' \subseteq Callback
      BY <2>4, <2>a, <2>g DEF SubscribeJoin, Register
    <3> QED BY <2>4, <3>1 DEF SubscribeJoin, TypeOK
  <2>5. ASSUME NEW p \in PV, HandleValueUpdate(p) PROVE TypeOK'
    <3>1. Head(valueQ[p]) \in Value /\ Tail(valueQ[p]) \in Seq(Value)
      BY <2>5, <2>c DEF HandleValueUpdate
    <3>2. Push(buffers[p], Head(valueQ[p])) \in Seq(Value)
      BY <3>1, <2>d, PushFacts
    <3>3. /\ buffers' \in [PV -> Seq(Value)]
          /\ latest' \in [PV -> Value \cup {NoValue}]
      BY <2>5, <2>d, <3>1, <3>2 DEF HandleValueUpdate
    <3>4. /\ valueCalls' \in [Callback -> Value \cup {NoValue}]
          /\ overtaken' \subseteq Callback
      <4>1. CASE UNCHANGED <<valueCalls, overtaken>>
        BY <4>1, <2>g
      <4>2. CASE PassOn(p, Head(valueQ[p]))
        BY <4>2, <2>a, <2>g, <3>1 DEF PassOn
      <4> QED BY <2>5, <4>1, <4>2 DEF HandleValueUpdate
    <3>5. valueQ' \in [PV -> Seq(Value)]
      BY <2>5, <2>c, <3>1 DEF HandleValueUpdate
    <3> QED BY <2>5, <3>3, <3>4, <3>5 DEF HandleValueUpdate, TypeOK
  <2>6. ASSUME NEW p \in PV, HandleMetaUpdate(p) PROVE TypeOK'
    <3>1. Head(metaQ[p]) \in Connection /\ Tail(metaQ[p]) \in Seq(Connection)
      <4>1. metaQ[p] \in Seq(Connection) /\ metaQ[p] # <<>>
        BY <2>6, <2>e DEF HandleMetaUpdate
      <4> QED BY <4>1, HeadTailProperties
    <3>2. connStatus' \in [PV -> Connection \cup {Unknown}]
      BY <2>6, <2>f, <3>1 DEF HandleMetaUpdate
    <3>3. /\ metaCalls' \in [Callback -> [connected : Connection \cup {Unknown},
                                           value : Value \cup {NoValue}]]
          /\ overtaken' \subseteq Callback
      <4>1. NoCall \in [connected : Connection \cup {Unknown}, value : Value \cup {NoValue}]
        BY DEF NoCall
      <4>2. CASE UNCHANGED <<metaCalls, overtaken>>
        BY <4>2, <2>g
      <4>3. CASE PassConnectionOn(p, Head(metaQ[p]))
        BY <4>1, <4>3, <2>d, <2>g, <3>1 DEF PassConnectionOn
      <4> QED BY <2>6, <4>2, <4>3 DEF HandleMetaUpdate
    <3>4. metaQ' \in [PV -> Seq(Connection)]
      BY <2>6, <2>e, <3>1 DEF HandleMetaUpdate
    <3> QED BY <2>6, <3>2, <3>3, <3>4 DEF HandleMetaUpdate, TypeOK
  <2>7. ASSUME NEW c \in Callback, CallWithValue(c) PROVE TypeOK'
    BY <2>7, <2>f, <2>g DEF CallWithValue, TypeOK
  <2>8. ASSUME NEW c \in Callback, CallWithConnection(c) PROVE TypeOK'
    <3>1. NoCall \in [connected : Connection \cup {Unknown}, value : Value \cup {NoValue}]
      BY DEF NoCall
    <3>2. /\ metaCalls' \in [Callback -> [connected : Connection \cup {Unknown},
                                           value : Value \cup {NoValue}]]
          /\ seenValue' \in [Callback -> Value \cup {NoValue}]
          /\ seenConn' \in [Callback -> Connection \cup {Unknown}]
      BY <2>8, <2>g, <3>1 DEF CallWithConnection
    <3> QED BY <2>8, <3>2 DEF CallWithConnection, TypeOK
  <2>9. ASSUME NEW p \in PV, NEW cb \in Callback \cup {NoCallback}, Unsubscribe(p, cb)
        PROVE  TypeOK'
    <3>1. callbacks' \in [PV -> SUBSET Callback]
      BY <2>9, <2>a DEF Unsubscribe
    <3>2. buffers' \in [PV -> Seq(Value)]
      <4>1. buffers' = buffers \/ buffers' = [buffers EXCEPT ![p] = <<>>]
        BY <2>9 DEF Unsubscribe
      <4>2. buffers \in [PV -> Seq(Value)] /\ <<>> \in Seq(Value)
        BY <2>d
      <4> QED BY <4>1, <4>2
    <3>5. latest' \in [PV -> Value \cup {NoValue}]
      BY <2>9, <2>d DEF Unsubscribe
    <3>3. connStatus' \in [PV -> Connection \cup {Unknown}]
      BY <2>9, <2>f DEF Unsubscribe
    <3>4. signals' \in [PV -> Signal \cup {NoSignal}]
      BY <2>9, <2>h DEF Unsubscribe
    <3> QED BY <2>9, <3>1, <3>2, <3>3, <3>4, <3>5 DEF Unsubscribe, TypeOK
  <2>10. ASSUME NEW s \in Signal, Destroy(s) PROVE TypeOK'
    BY <2>10 DEF Destroy, TypeOK
  <2>11. CASE Cleanup
    BY <2>11 DEF Cleanup, TypeOK
  <2>12. ASSUME NEW p \in PV, GetValueReads(p) PROVE TypeOK'
    BY <2>12 DEF GetValueReads, TypeOK
  <2>13. ASSUME NEW p \in PV, NEW v \in Value, IocPut(p, v) PROVE TypeOK'
    <3>1. valueQ[p] \o Burst(p, "value", v) \in Seq(Value)
      BY BurstFacts, <2>c, <2>e, <2>f DEF Connection
    <3> QED BY <2>13, <3>1 DEF IocPut, Emit, Burst, TypeOK
  <2>14. ASSUME NEW p \in PV, IocDown(p) PROVE TypeOK'
    <3>1. metaQ[p] \o Burst(p, "meta", "disconnected") \in Seq(Connection)
      BY BurstFacts, <2>c, <2>e, <2>f DEF Connection
    <3> QED BY <2>14, <3>1 DEF IocDown, Emit, Burst, Connection, TypeOK
  <2>15. ASSUME NEW p \in PV, NEW v \in Value, IocReturns(p, v) PROVE TypeOK'
    <3>1. /\ metaQ[p] \o Burst(p, "meta", "connected") \in Seq(Connection)
          /\ valueQ[p] \o Burst(p, "value", v) \in Seq(Value)
      BY BurstFacts, <2>c, <2>e, <2>f DEF Connection
    <3> QED BY <2>15, <3>1 DEF IocReturns, Emit, Burst, Connection, TypeOK
  <2>16. CASE UNCHANGED vars
    BY <2>16 DEF vars, TypeOK
  <2> QED
    BY <2>1, <2>2, <2>3, <2>4, <2>5, <2>6, <2>7, <2>8, <2>9, <2>10, <2>11, <2>12,
       <2>13, <2>14, <2>15, <2>16
    DEF Next, Subscribing, Dispatching, Releasing, Environment
<1> QED BY <1>1, <1>2, PTL DEF Spec

-----------------------------------------------------------------------------
(* Signals and subscribers                                                 *)

\* SubscribersHaveSignal made inductive: an unused signal object feeds nobody,
\* and the PV whose subscribe holds the lock has its signal already.
Ownership ==
    /\ SubscribersHaveSignal
    /\ \A s \in Signal : live[s] = NoPV => feeds[s] = {}
    /\ opening # NoPV => signals[opening] # NoSignal

ownershipVars == <<signals, live, feeds, callbacks, opening>>

LEMMA OwnershipStep == TypeOK /\ Ownership /\ [Next]_vars => Ownership'
<1> SUFFICES ASSUME TypeOK, Ownership, [Next]_vars PROVE Ownership'
  OBVIOUS
<1> USE NoneAssumption DEF Ownership, SubscribersHaveSignal
<1>a. /\ signals \in [PV -> Signal \cup {NoSignal}]
      /\ live \in [Signal -> PV \cup {NoPV}]
      /\ feeds \in [Signal -> SUBSET {"value", "meta"}]
      /\ callbacks \in [PV -> SUBSET Callback]
  BY DEF TypeOK
<1>1. ASSUME NEW p \in PV, NEW cb \in Callback \cup {NoCallback}, SubscribeOpen(p, cb)
      PROVE  Ownership'
  BY <1>1, <1>a DEF SubscribeOpen
<1>2. ASSUME NEW p \in PV, SubscribeFinish(p) PROVE Ownership'
  BY <1>2, <1>a DEF SubscribeFinish, Register
<1>3. ASSUME NEW p \in PV, SubscribeFail(p) PROVE Ownership'
  BY <1>3, <1>a DEF SubscribeFail, manager
<1>4. ASSUME NEW p \in PV, NEW cb \in Callback, SubscribeJoin(p, cb) PROVE Ownership'
  BY <1>4, <1>a DEF SubscribeJoin, Register, ophyd, lock
<1>5. ASSUME NEW p \in PV, NEW cb \in Callback \cup {NoCallback}, Unsubscribe(p, cb)
      PROVE  Ownership'
  BY <1>5, <1>a DEF Unsubscribe, ophyd, lock, Free
<1>6. ASSUME NEW s \in Signal, Destroy(s) PROVE Ownership'
  BY <1>6, <1>a DEF Destroy, manager, lock
<1>7. CASE Cleanup
  BY <1>7, <1>a DEF Cleanup, ophyd, lock, Free
<1>8. CASE UNCHANGED ownershipVars
  BY <1>8 DEF ownershipVars
<1>9. ASSUME Dispatching \/ (\E p \in PV : GetValueReads(p)) \/ Environment \/ UNCHANGED vars
      PROVE  UNCHANGED ownershipVars
  BY <1>9 DEF Dispatching, HandleValueUpdate, HandleMetaUpdate, CallWithValue,
       CallWithConnection, GetValueReads, Environment, IocPut, IocDown, IocReturns,
       vars, ioc, ophyd, lock, manager, calls, ownershipVars
<1> QED
  BY <1>1, <1>2, <1>3, <1>4, <1>5, <1>6, <1>7, <1>8, <1>9
  DEF Next, Subscribing, Releasing

\* No subscriber is ever left without a live signal of its own.
THEOREM SubscribersKeepSignal == Spec => []SubscribersHaveSignal
<1>1. Init => Ownership
  BY NoneAssumption DEF Init, Ownership, SubscribersHaveSignal
<1>2. Ownership => SubscribersHaveSignal
  BY DEF Ownership
<1> QED BY <1>1, <1>2, OwnershipStep, TypeCorrect, PTL DEF Spec

-----------------------------------------------------------------------------
(* The cache                                                               *)

LEMMA CacheStep == TypeOK /\ CacheCoherent /\ [Next]_vars => CacheCoherent'
<1> SUFFICES ASSUME TypeOK, CacheCoherent, [Next]_vars,
                    NEW q \in PV
             PROVE  /\ signals'[q] = NoSignal => latest'[q] = NoValue /\ buffers'[q] = <<>>
                    /\ Len(buffers'[q]) <= BufferSize
                    /\ buffers'[q] # <<>> => latest'[q] = buffers'[q][Len(buffers'[q])]
  BY DEF CacheCoherent
<1> DEFINE Good == /\ signals'[q] = NoSignal => latest'[q] = NoValue /\ buffers'[q] = <<>>
                   /\ Len(buffers'[q]) <= BufferSize
                   /\ buffers'[q] # <<>> => latest'[q] = buffers'[q][Len(buffers'[q])]
<1>a. /\ signals \in [PV -> Signal \cup {NoSignal}]
      /\ latest \in [PV -> Value \cup {NoValue}]
      /\ buffers \in [PV -> Seq(Value)]
      /\ iocValue \in [PV -> Value]
      /\ valueQ \in [PV -> Seq(Value)]
  BY DEF TypeOK
<1>b. /\ signals[q] = NoSignal => latest[q] = NoValue /\ buffers[q] = <<>>
      /\ Len(buffers[q]) <= BufferSize
      /\ buffers[q] # <<>> => latest[q] = buffers[q][Len(buffers[q])]
  BY DEF CacheCoherent
<1>1. ASSUME NEW p \in PV, NEW cb \in Callback \cup {NoCallback}, SubscribeOpen(p, cb)
      PROVE  Good
  <2>1. /\ Push(buffers[p], iocValue[p])[Len(Push(buffers[p], iocValue[p]))] = iocValue[p]
        /\ Len(buffers[p]) <= BufferSize => Len(Push(buffers[p], iocValue[p])) <= BufferSize
    BY <1>a, PushFacts
  <2>2. signals'[p] # NoSignal
    BY <1>1, <1>a, NoneAssumption DEF SubscribeOpen
  <2>3. CASE q = p /\ UNCHANGED <<latest, buffers>>
    BY <2>2, <2>3, <1>b
  <2>4. CASE q = p /\ ~UNCHANGED <<latest, buffers>>
    <3>1. /\ latest'[p] = iocValue[p]
          /\ buffers'[p] = Push(buffers[p], iocValue[p])
      BY <1>1, <1>a, <2>4 DEF SubscribeOpen
    <3> QED BY <2>1, <2>2, <2>4, <3>1, <1>b
  <2>5. CASE q # p
    <3>1. signals'[q] = signals[q] /\ latest'[q] = latest[q] /\ buffers'[q] = buffers[q]
      BY <1>1, <1>a, <2>5 DEF SubscribeOpen
    <3> QED BY <3>1, <1>b
  <2> QED BY <2>3, <2>4, <2>5
<1>2. ASSUME NEW p \in PV, HandleValueUpdate(p) PROVE Good
  <2> DEFINE v == Head(valueQ[p])
  <2>1. v \in Value
    BY <1>2, <1>a DEF HandleValueUpdate
  <2>2. /\ Push(buffers[p], v)[Len(Push(buffers[p], v))] = v
        /\ Len(buffers[p]) <= BufferSize => Len(Push(buffers[p], v)) <= BufferSize
    BY <1>a, <2>1, PushFacts
  <2>3. signals' = signals
    BY <1>2 DEF HandleValueUpdate
  <2>4. CASE q = p /\ signals[p] # NoSignal
    <3>1. latest'[p] = v /\ buffers'[p] = Push(buffers[p], v)
      BY <1>2, <1>a, <2>4 DEF HandleValueUpdate
    <3> QED BY <2>2, <2>3, <2>4, <3>1, <1>b
  <2>5. CASE q # p \/ signals[p] = NoSignal
    <3>1. latest'[q] = latest[q] /\ buffers'[q] = buffers[q]
      BY <1>2, <1>a, <2>5 DEF HandleValueUpdate
    <3> QED BY <2>3, <3>1, <1>b
  <2> QED BY <2>4, <2>5
<1>3. ASSUME NEW p \in PV, NEW cb \in Callback \cup {NoCallback}, Unsubscribe(p, cb)
      PROVE  Good
  <2>1. \/ /\ signals'[q] = signals[q]
           /\ latest'[q] = latest[q]
           /\ buffers'[q] = buffers[q]
        \/ latest'[q] = NoValue /\ buffers'[q] = <<>>
    BY <1>3, <1>a DEF Unsubscribe
  <2> QED BY <2>1, <1>b, BufferSizeAssumption
<1>4. ASSUME NEW p \in PV, GetValueReads(p) PROVE Good
  <2>1. buffers[p] # <<>> => latest[p] \in Value
    <3>1. buffers[p] # <<>> => buffers[p][Len(buffers[p])] \in Value
      BY <1>a
    <3> QED BY <3>1 DEF CacheCoherent
  <2>2. buffers[p] = <<>> /\ signals[p] # NoSignal
    BY <1>4, <2>1, NoneAssumption DEF GetValueReads
  <2> QED BY <1>4, <1>a, <1>b, <2>2 DEF GetValueReads
<1>5. CASE Cleanup
  BY <1>5, BufferSizeAssumption DEF Cleanup
<1>6. CASE UNCHANGED <<signals, latest, buffers>>
  BY <1>6, <1>b
<1>7. ASSUME \/ \E p \in PV : SubscribeFinish(p) \/ SubscribeFail(p)
             \/ \E p \in PV, cb \in Callback : SubscribeJoin(p, cb)
             \/ \E p \in PV : HandleMetaUpdate(p)
             \/ \E c \in Callback : CallWithValue(c) \/ CallWithConnection(c)
             \/ \E s \in Signal : Destroy(s)
             \/ Environment
             \/ UNCHANGED vars
      PROVE  UNCHANGED <<signals, latest, buffers>>
  BY <1>7 DEF SubscribeFinish, SubscribeFail, SubscribeJoin, HandleMetaUpdate,
       CallWithValue, CallWithConnection, Destroy, Environment, IocPut, IocDown,
       IocReturns, vars, manager
<1> QED
  BY <1>1, <1>2, <1>3, <1>4, <1>5, <1>6, <1>7
  DEF Next, Subscribing, Dispatching, Releasing

\* What get_value and get_buffer answer never outlives the signal it came from.
THEOREM CacheIsCoherent == Spec => []CacheCoherent
<1>1. Init => CacheCoherent
  BY BufferSizeAssumption DEF Init, CacheCoherent
<1> QED BY <1>1, CacheStep, TypeCorrect, PTL DEF Spec

-----------------------------------------------------------------------------
(* Convergence of the cache                                                *)

LEMMA LastFacts ==
    ASSUME NEW S, NEW q \in Seq(S), NEW v \in S
    PROVE  /\ Append(q, v) # <<>>
           /\ Append(q, v)[Len(Append(q, v))] = v
           /\ q # <<>> /\ Tail(q) = <<>> => q[Len(q)] = Head(q)
           /\ q # <<>> /\ Tail(q) # <<>> => Tail(q)[Len(Tail(q))] = q[Len(q)]
OBVIOUS

ConvergesAt(p) ==
    signals[p] # NoSignal /\ "value" \in feeds[signals[p]] /\ p \in online
    => NewestValue(p) = iocValue[p]

LEMMA ConvergenceStep ==
    TypeOK /\ Ownership /\ CacheConverges /\ [Next]_vars => CacheConverges'
<1> SUFFICES ASSUME TypeOK, Ownership, CacheConverges, [Next]_vars, NEW q \in PV
             PROVE  ConvergesAt(q)'
  BY DEF CacheConverges, ConvergesAt
<1>a. /\ signals \in [PV -> Signal \cup {NoSignal}]
      /\ live \in [Signal -> PV \cup {NoPV}]
      /\ feeds \in [Signal -> SUBSET {"value", "meta"}]
      /\ latest \in [PV -> Value \cup {NoValue}]
      /\ iocValue \in [PV -> Value]
      /\ valueQ \in [PV -> Seq(Value)]
  BY DEF TypeOK
<1>b. ConvergesAt(q)
  BY DEF CacheConverges, ConvergesAt
<1>c. \A p \in PV : signals[p] # NoSignal => signals[p] \in Signal /\ live[signals[p]] = p
  BY <1>a DEF Ownership, SubscribersHaveSignal
<1> DEFINE same == /\ signals'[q] = signals[q] /\ valueQ'[q] = valueQ[q]
                   /\ latest'[q] = latest[q] /\ iocValue'[q] = iocValue[q]
<1>1. ASSUME NEW p \in PV, NEW cb \in Callback \cup {NoCallback}, SubscribeOpen(p, cb)
      PROVE  ConvergesAt(q)'
  <2>1. CASE q = p
    <3>1. PICK s \in Signal : live[s] = NoPV /\ signals' = [signals EXCEPT ![p] = s]
      BY <1>1 DEF SubscribeOpen
    <3>2. feeds'[s] = {}
      BY <1>1, <3>1 DEF SubscribeOpen, Ownership
    <3> QED BY <2>1, <3>1, <3>2, <1>a DEF ConvergesAt
  <2>2. CASE q # p
    <3>1. same /\ feeds' = feeds /\ online' = online
      BY <1>1, <1>a, <2>2 DEF SubscribeOpen, ioc
    <3> QED BY <3>1, <1>b DEF ConvergesAt, NewestValue
  <2> QED BY <2>1, <2>2
<1>2. ASSUME NEW p \in PV, SubscribeFinish(p) \/ SubscribeFail(p)
      PROVE  ConvergesAt(q)'
  <2>1. /\ signals' = signals /\ latest' = latest
        /\ iocValue' = iocValue /\ online' = online
    BY <1>2 DEF SubscribeFinish, SubscribeFail, ioc, manager
  <2>2. CASE q = p
    <3>1. CASE valueQ' = [valueQ EXCEPT ![p] = Append(@, iocValue[p])]
      <4>1. valueQ'[p] = Append(valueQ[p], iocValue[p])
        BY <3>1, <1>a
      <4>2. valueQ'[p] # <<>> /\ valueQ'[p][Len(valueQ'[p])] = iocValue[p]
        BY <4>1, <1>a, LastFacts
      <4> QED BY <2>1, <2>2, <4>2 DEF ConvergesAt, NewestValue
    <3>2. CASE q \notin online
      BY <2>1, <3>2 DEF ConvergesAt
    <3>3. CASE feeds' = feeds /\ valueQ' = valueQ
      BY <2>1, <3>3, <1>b DEF ConvergesAt, NewestValue
    <3> QED BY <1>2, <2>2, <3>1, <3>2, <3>3 DEF SubscribeFinish, SubscribeFail
  <2>3. CASE q # p
    <3>1. signals[p] # NoSignal
      BY <1>2, NoneAssumption DEF SubscribeFinish, SubscribeFail, Ownership
    <3>2. valueQ'[q] = valueQ[q]
      BY <1>2, <2>3, <1>a DEF SubscribeFinish, SubscribeFail
    <3>3. signals[q] # NoSignal => feeds'[signals[q]] = feeds[signals[q]]
      <4>1. signals[q] # NoSignal => signals[q] # signals[p]
        BY <2>3, <3>1, <1>c
      <4> QED BY <1>2, <4>1, <1>a DEF SubscribeFinish, SubscribeFail
    <3> QED BY <2>1, <3>2, <3>3, <1>b DEF ConvergesAt, NewestValue
  <2> QED BY <2>2, <2>3
<1>3. ASSUME NEW p \in PV, HandleValueUpdate(p) PROVE ConvergesAt(q)'
  <2>1. signals' = signals /\ feeds' = feeds /\ online' = online /\ iocValue' = iocValue
    BY <1>3 DEF HandleValueUpdate, ioc
  <2>2. CASE q = p /\ signals[p] # NoSignal
    <3>1. /\ valueQ[p] # <<>> /\ valueQ[p] \in Seq(Value)
          /\ valueQ'[p] = Tail(valueQ[p])
          /\ latest'[p] = Head(valueQ[p])
      BY <1>3, <1>a, <2>2 DEF HandleValueUpdate
    <3>2. NewestValue(p)' = NewestValue(p)
      <4>1. Head(valueQ[p]) \in Value
        BY <3>1
      <4> QED BY <3>1, <4>1, LastFacts DEF NewestValue
    <3> QED BY <2>1, <2>2, <3>2, <1>b DEF ConvergesAt
  <2>3. CASE q # p \/ signals[p] = NoSignal
    <3>1. q # p => valueQ'[q] = valueQ[q] /\ latest'[q] = latest[q]
      BY <1>3, <1>a DEF HandleValueUpdate
    <3> QED BY <2>1, <2>3, <3>1, <1>b DEF ConvergesAt, NewestValue
  <2> QED BY <2>2, <2>3
<1>4. ASSUME NEW p \in PV, NEW cb \in Callback \cup {NoCallback}, Unsubscribe(p, cb)
      PROVE  ConvergesAt(q)'
  <2>1. /\ feeds' = feeds /\ online' = online /\ iocValue' = iocValue /\ valueQ' = valueQ
        /\ \/ signals'[q] = NoSignal
           \/ signals'[q] = signals[q] /\ latest'[q] = latest[q]
    BY <1>4, <1>a DEF Unsubscribe, ioc, ophyd
  <2> QED BY <2>1, <1>b DEF ConvergesAt, NewestValue
<1>5. ASSUME NEW s \in Signal, Destroy(s) PROVE ConvergesAt(q)'
  <2>1. signals[q] # NoSignal => signals[q] # s
    BY <1>5, <1>c DEF Destroy
  <2>2. /\ signals' = signals /\ latest' = latest /\ online' = online
        /\ iocValue' = iocValue /\ valueQ' = valueQ
        /\ signals[q] # NoSignal => feeds'[signals[q]] = feeds[signals[q]]
    BY <1>5, <2>1, <1>a DEF Destroy, ioc, manager
  <2> QED BY <2>2, <1>b DEF ConvergesAt, NewestValue
<1>6. CASE Cleanup
  BY <1>6 DEF Cleanup, ConvergesAt
<1>7. ASSUME NEW p \in PV, GetValueReads(p) PROVE ConvergesAt(q)'
  <2>1. /\ signals' = signals /\ feeds' = feeds /\ online' = online
        /\ iocValue' = iocValue /\ valueQ' = valueQ
        /\ latest'[q] = IF q = p THEN iocValue[p] ELSE latest[q]
    BY <1>7, <1>a DEF GetValueReads, ioc, ophyd
  <2> QED BY <2>1, <1>b DEF ConvergesAt, NewestValue
<1>8. ASSUME NEW p \in PV, NEW v \in Value, IocPut(p, v) \/ IocReturns(p, v)
      PROVE  ConvergesAt(q)'
  <2>1. /\ signals' = signals /\ feeds' = feeds /\ latest' = latest
        /\ valueQ' = Emit(valueQ, p, "value", v)
        /\ iocValue' = [iocValue EXCEPT ![p] = v]
        /\ q # p => (q \in online' <=> q \in online)
    BY <1>8 DEF IocPut, IocReturns, manager
  <2>2. CASE q = p
    <3>1. valueQ'[p] = valueQ[p] \o Burst(p, "value", v)
      BY <2>1, <1>a DEF Emit, Burst
    <3>2. ASSUME signals[p] # NoSignal, "value" \in feeds[signals[p]]
          PROVE  valueQ'[p] # <<>> /\ valueQ'[p][Len(valueQ'[p])] = v
      <4>1. signals[p] \in Feeding(p, "value")
        BY <3>2, <1>c DEF Feeding
      <4> QED BY <4>1, <3>1, <1>a, BurstFacts
    <3> QED BY <2>1, <2>2, <3>2, <1>a DEF ConvergesAt, NewestValue
  <2>3. CASE q # p
    <3>1. valueQ'[q] = valueQ[q] /\ iocValue'[q] = iocValue[q]
      BY <2>1, <2>3, <1>a DEF Emit
    <3> QED BY <2>1, <2>3, <3>1, <1>b DEF ConvergesAt, NewestValue
  <2> QED BY <2>2, <2>3
<1>9. ASSUME NEW p \in PV, IocDown(p) PROVE ConvergesAt(q)'
  <2>1. /\ signals' = signals /\ feeds' = feeds /\ latest' = latest
        /\ valueQ' = valueQ /\ iocValue' = iocValue /\ online' = online \ {p}
    BY <1>9 DEF IocDown, manager
  <2> QED BY <2>1, <1>b DEF ConvergesAt, NewestValue
<1>10. CASE UNCHANGED <<signals, feeds, latest, valueQ, iocValue, online>>
  BY <1>10, <1>b DEF ConvergesAt, NewestValue
<1>11. ASSUME \/ \E p \in PV, cb \in Callback : SubscribeJoin(p, cb)
              \/ \E p \in PV : HandleMetaUpdate(p)
              \/ \E c \in Callback : CallWithValue(c) \/ CallWithConnection(c)
              \/ UNCHANGED vars
       PROVE  UNCHANGED <<signals, feeds, latest, valueQ, iocValue, online>>
  BY <1>11 DEF SubscribeJoin, HandleMetaUpdate, CallWithValue, CallWithConnection,
       vars, ioc, ophyd, manager
<1> QED
  BY <1>1, <1>2, <1>3, <1>4, <1>5, <1>6, <1>7, <1>8, <1>9, <1>10, <1>11
  DEF Next, Subscribing, Dispatching, Releasing, Environment

\* Once the queued events of a monitored PV are handled, its cache holds the
\* value of its IOC, whatever interleaving of threads came before.
THEOREM CacheFollowsIoc == Spec => []CacheConverges
<1>1. Init => CacheConverges
  BY DEF Init, CacheConverges
<1>2. Init => Ownership
  BY NoneAssumption DEF Init, Ownership, SubscribersHaveSignal
<1> QED BY <1>1, <1>2, ConvergenceStep, OwnershipStep, TypeCorrect, PTL DEF Spec

-----------------------------------------------------------------------------
(* Convergence of the connection status                                    *)

StatusConvergesAt(p) ==
    signals[p] # NoSignal /\ "meta" \in feeds[signals[p]] => NewestStatus(p) = Link(p)

LEMMA StatusStep ==
    TypeOK /\ Ownership /\ StatusConverges /\ [Next]_vars => StatusConverges'
<1> SUFFICES ASSUME TypeOK, Ownership, StatusConverges, [Next]_vars, NEW q \in PV
             PROVE  StatusConvergesAt(q)'
  BY DEF StatusConverges, StatusConvergesAt
<1>a. /\ signals \in [PV -> Signal \cup {NoSignal}]
      /\ live \in [Signal -> PV \cup {NoPV}]
      /\ feeds \in [Signal -> SUBSET {"value", "meta"}]
      /\ connStatus \in [PV -> Connection \cup {Unknown}]
      /\ metaQ \in [PV -> Seq(Connection)]
      /\ \A p \in PV : Link(p) \in Connection
  BY DEF TypeOK, Link, Connection
<1>b. StatusConvergesAt(q)
  BY DEF StatusConverges, StatusConvergesAt
<1>c. \A p \in PV : signals[p] # NoSignal => signals[p] \in Signal /\ live[signals[p]] = p
  BY <1>a DEF Ownership, SubscribersHaveSignal
<1>1. ASSUME NEW p \in PV, NEW cb \in Callback \cup {NoCallback}, SubscribeOpen(p, cb)
      PROVE  StatusConvergesAt(q)'
  <2>1. CASE q = p
    <3>1. PICK s \in Signal : live[s] = NoPV /\ signals' = [signals EXCEPT ![p] = s]
      BY <1>1 DEF SubscribeOpen
    <3>2. feeds'[s] = {}
      BY <1>1, <3>1 DEF SubscribeOpen, Ownership
    <3> QED BY <2>1, <3>1, <3>2, <1>a DEF StatusConvergesAt
  <2>2. CASE q # p
    <3>1. /\ signals'[q] = signals[q] /\ metaQ'[q] = metaQ[q] /\ connStatus'[q] = connStatus[q]
          /\ feeds' = feeds /\ online' = online
      BY <1>1, <1>a, <2>2 DEF SubscribeOpen, ioc
    <3> QED BY <3>1, <1>b DEF StatusConvergesAt, NewestStatus, Link
  <2> QED BY <2>1, <2>2
<1>2. ASSUME NEW p \in PV, SubscribeFinish(p) \/ SubscribeFail(p)
      PROVE  StatusConvergesAt(q)'
  <2>1. signals' = signals /\ connStatus' = connStatus /\ online' = online
    BY <1>2 DEF SubscribeFinish, SubscribeFail, ioc, manager
  <2>2. signals[p] # NoSignal
    BY <1>2, NoneAssumption DEF SubscribeFinish, SubscribeFail, Ownership
  <2>3. CASE q = p /\ SubscribeFinish(p)
    <3>1. metaQ'[p] = Append(metaQ[p], Link(p))
      BY <2>3, <1>a DEF SubscribeFinish
    <3>2. metaQ'[p] # <<>> /\ metaQ'[p][Len(metaQ'[p])] = Link(p)
      BY <3>1, <1>a, LastFacts
    <3> QED BY <2>1, <2>3, <3>2 DEF StatusConvergesAt, NewestStatus, Link
  <2>4. CASE q = p /\ SubscribeFail(p)
    <3>1. metaQ' = metaQ
      BY <2>4 DEF SubscribeFail
    <3>2. "meta" \in feeds'[signals[p]] => feeds' = feeds
      BY <2>2, <2>4, <1>a, <1>c DEF SubscribeFail
    <3> QED BY <2>1, <2>4, <3>1, <3>2, <1>b DEF StatusConvergesAt, NewestStatus, Link
  <2>5. CASE q # p
    <3>1. metaQ'[q] = metaQ[q]
      BY <1>2, <2>5, <1>a DEF SubscribeFinish, SubscribeFail
    <3>2. signals[q] # NoSignal => feeds'[signals[q]] = feeds[signals[q]]
      <4>1. signals[q] # NoSignal => signals[q] # signals[p]
        BY <2>2, <2>5, <1>c
      <4> QED BY <1>2, <4>1, <1>a DEF SubscribeFinish, SubscribeFail
    <3> QED BY <2>1, <3>1, <3>2, <1>b DEF StatusConvergesAt, NewestStatus, Link
  <2> QED BY <1>2, <2>3, <2>4, <2>5
<1>3. ASSUME NEW p \in PV, HandleMetaUpdate(p) PROVE StatusConvergesAt(q)'
  <2>1. signals' = signals /\ feeds' = feeds /\ online' = online
    BY <1>3 DEF HandleMetaUpdate, ioc
  <2>2. CASE q = p
    <3>1. /\ metaQ[p] # <<>> /\ metaQ[p] \in Seq(Connection)
          /\ metaQ'[p] = Tail(metaQ[p])
          /\ connStatus'[p] = Head(metaQ[p])
      BY <1>3, <1>a, <2>2 DEF HandleMetaUpdate
    <3>2. NewestStatus(p)' = NewestStatus(p)
      <4>1. Head(metaQ[p]) \in Connection
        BY <3>1
      <4> QED BY <3>1, <4>1, LastFacts DEF NewestStatus
    <3> QED BY <2>1, <2>2, <3>2, <1>b DEF StatusConvergesAt, Link
  <2>3. CASE q # p
    <3>1. metaQ'[q] = metaQ[q] /\ connStatus'[q] = connStatus[q]
      BY <1>3, <1>a, <2>3 DEF HandleMetaUpdate
    <3> QED BY <2>1, <2>3, <3>1, <1>b DEF StatusConvergesAt, NewestStatus, Link
  <2> QED BY <2>2, <2>3
<1>4. ASSUME NEW p \in PV, NEW cb \in Callback \cup {NoCallback}, Unsubscribe(p, cb)
      PROVE  StatusConvergesAt(q)'
  <2>1. /\ feeds' = feeds /\ online' = online /\ metaQ' = metaQ
        /\ \/ signals'[q] = NoSignal
           \/ signals'[q] = signals[q] /\ connStatus'[q] = connStatus[q]
    BY <1>4, <1>a DEF Unsubscribe, ioc, ophyd
  <2> QED BY <2>1, <1>b DEF StatusConvergesAt, NewestStatus, Link
<1>5. ASSUME NEW s \in Signal, Destroy(s) PROVE StatusConvergesAt(q)'
  <2>1. signals[q] # NoSignal => signals[q] # s
    BY <1>5, <1>c DEF Destroy
  <2>2. /\ signals' = signals /\ connStatus' = connStatus /\ online' = online /\ metaQ' = metaQ
        /\ signals[q] # NoSignal => feeds'[signals[q]] = feeds[signals[q]]
    BY <1>5, <2>1, <1>a DEF Destroy, ioc, manager
  <2> QED BY <2>2, <1>b DEF StatusConvergesAt, NewestStatus, Link
<1>6. CASE Cleanup
  BY <1>6 DEF Cleanup, StatusConvergesAt
<1>7. ASSUME NEW p \in PV, NEW event \in Connection,
             metaQ' = Emit(metaQ, p, "meta", event), Link(p)' = event,
             q # p => Link(q)' = Link(q), UNCHANGED <<signals, feeds, connStatus>>
      PROVE  StatusConvergesAt(q)'
  <2>1. CASE q = p
    <3>1. metaQ'[p] = metaQ[p] \o Burst(p, "meta", event)
      BY <1>7, <1>a DEF Emit, Burst
    <3>2. ASSUME signals[p] # NoSignal, "meta" \in feeds[signals[p]]
          PROVE  metaQ'[p] # <<>> /\ metaQ'[p][Len(metaQ'[p])] = event
      <4>1. signals[p] \in Feeding(p, "meta")
        BY <3>2, <1>c DEF Feeding
      <4> QED BY <4>1, <3>1, <1>a, BurstFacts
    <3> QED BY <1>7, <2>1, <3>2 DEF StatusConvergesAt, NewestStatus
  <2>2. CASE q # p
    <3>1. metaQ'[q] = metaQ[q]
      BY <1>7, <2>2, <1>a DEF Emit
    <3> QED BY <1>7, <2>2, <3>1, <1>b DEF StatusConvergesAt, NewestStatus
  <2> QED BY <2>1, <2>2
<1>8. ASSUME NEW p \in PV, IocDown(p) PROVE StatusConvergesAt(q)'
  <2>1. /\ metaQ' = Emit(metaQ, p, "meta", "disconnected") /\ online' = online \ {p}
        /\ UNCHANGED <<signals, feeds, connStatus>>
    BY <1>8 DEF IocDown, manager
  <2>2. Link(p)' = "disconnected" /\ (q # p => Link(q)' = Link(q))
    BY <2>1 DEF Link
  <2> QED BY <1>7, <2>1, <2>2 DEF Connection
<1>9. ASSUME NEW p \in PV, NEW v \in Value, IocReturns(p, v) PROVE StatusConvergesAt(q)'
  <2>1. /\ metaQ' = Emit(metaQ, p, "meta", "connected") /\ online' = online \cup {p}
        /\ UNCHANGED <<signals, feeds, connStatus>>
    BY <1>9 DEF IocReturns, manager
  <2>2. Link(p)' = "connected" /\ (q # p => Link(q)' = Link(q))
    BY <2>1 DEF Link
  <2> QED BY <1>7, <2>1, <2>2 DEF Connection
<1>10. CASE UNCHANGED <<signals, feeds, connStatus, metaQ, online>>
  BY <1>10, <1>b DEF StatusConvergesAt, NewestStatus, Link
<1>11. ASSUME \/ \E p \in PV, cb \in Callback : SubscribeJoin(p, cb)
              \/ \E p \in PV : HandleValueUpdate(p) \/ GetValueReads(p)
              \/ \E p \in PV, v \in Value : IocPut(p, v)
              \/ \E c \in Callback : CallWithValue(c) \/ CallWithConnection(c)
              \/ UNCHANGED vars
       PROVE  UNCHANGED <<signals, feeds, connStatus, metaQ, online>>
  BY <1>11 DEF SubscribeJoin, HandleValueUpdate, GetValueReads, IocPut, CallWithValue,
       CallWithConnection, vars, ioc, ophyd, manager
<1> QED
  BY <1>1, <1>2, <1>3, <1>4, <1>5, <1>6, <1>8, <1>9, <1>10, <1>11
  DEF Next, Subscribing, Dispatching, Releasing, Environment

\* Once the queued events of a monitored PV are handled, the status recorded for
\* it is that of its IOC, though subscribe presets it to connected before it is
\* registered for the metadata and the IOC may go down in between.
THEOREM StatusFollowsIoc == Spec => []StatusConverges
<1>1. Init => StatusConverges
  BY DEF Init, StatusConverges
<1>2. Init => Ownership
  BY NoneAssumption DEF Init, Ownership, SubscribersHaveSignal
<1> QED BY <1>1, <1>2, StatusStep, OwnershipStep, TypeCorrect, PTL DEF Spec

-----------------------------------------------------------------------------
(* What subscribers have been told                                         *)

\* A callback is registered on one PV at most, so no update of another is made
\* with it; the one that a subscribe holding the lock is about to register is on
\* none and is being called by none; nothing is kept of a call once it is made.
Separate ==
    /\ \A p, q \in PV : \A c \in callbacks[p] : c \in callbacks[q] => p = q
    /\ Free => joining = NoCallback
    /\ joining # NoCallback => Fresh(joining)
    /\ \A c \in Callback : ~Telling(c) => metaCalls[c] = NoCall

\* The callback c of p is told, or is about to be told, what is cached, unless
\* it is overtaken; the value dispatcher is never behind, overtaken or not.
ValueTold(p, c) ==
    /\ valueCalls[c] \in {NoValue, latest[p]}
    /\ c \notin overtaken =>
         /\ metaCalls[c].value \in {NoValue, latest[p]}
         /\ seenValue[c] \in {NoValue, latest[p]} \/ valueCalls[c] # NoValue \/ Telling(c)

\* The connection state c was told last, or is about to be told by the metadata
\* dispatcher, is "disconnected" only while the PV counts as disconnected.
LastConnection(c) == IF Telling(c) THEN metaCalls[c].connected ELSE seenConn[c]
ConnectionTold(p, c) == LastConnection(c) = "disconnected" => connStatus[p] = "disconnected"

Told ==
    /\ Separate
    /\ \A p \in PV : \A c \in callbacks[p] : ValueTold(p, c) /\ ConnectionTold(p, c)

LEMMA ToldStep == TypeOK /\ Ownership /\ Told /\ [Next]_vars => Told'
<1> SUFFICES ASSUME TypeOK, Ownership, Told, [Next]_vars PROVE Told'
  OBVIOUS
<1> USE NoneAssumption
<1>a. /\ callbacks \in [PV -> SUBSET Callback]
      /\ joining \in Callback \cup {NoCallback}
      /\ valueCalls \in [Callback -> Value \cup {NoValue}]
      /\ seenValue \in [Callback -> Value \cup {NoValue}]
      /\ metaCalls \in [Callback -> [connected : Connection \cup {Unknown},
                                     value : Value \cup {NoValue}]]
      /\ seenConn \in [Callback -> Connection \cup {Unknown}]
      /\ latest \in [PV -> Value \cup {NoValue}]
      /\ connStatus \in [PV -> Connection \cup {Unknown}]
      /\ valueQ \in [PV -> Seq(Value)] /\ metaQ \in [PV -> Seq(Connection)]
      /\ overtaken \subseteq Callback
  BY DEF TypeOK
<1>b. /\ Unknown \notin Connection /\ Unknown # "disconnected" /\ Unknown # "connected"
      /\ NoCall.connected = Unknown /\ NoCall.value = NoValue
  BY DEF Connection, Unknown, NoCall
<1>c. \A p \in PV : \A c \in callbacks[p] :
         c \in Callback /\ ValueTold(p, c) /\ ConnectionTold(p, c)
  BY <1>a DEF Told
\* A callback is added that nobody has been calling.
<1>1. ASSUME NEW p \in PV, NEW cb \in Callback, Fresh(cb), Register(p, cb),
             UNCHANGED <<latest, connStatus, valueCalls, metaCalls>>,
             joining' = NoCallback
      PROVE  Told'
  <2>1. /\ callbacks' = [callbacks EXCEPT ![p] = @ \cup {cb}]
        /\ seenValue' = [seenValue EXCEPT ![cb] = NoValue]
        /\ seenConn' = [seenConn EXCEPT ![cb] = Unknown]
        /\ overtaken' = overtaken \ {cb}
    BY <1>1 DEF Register
  <2>2. ASSUME NEW q \in PV, NEW c \in callbacks'[q]
        PROVE  ValueTold(q, c)' /\ ConnectionTold(q, c)'
    <3>1. CASE c = cb
      <4>1. /\ valueCalls'[c] = NoValue /\ seenValue'[c] = NoValue /\ seenConn'[c] = Unknown
            /\ ~Telling(c) /\ ~Telling(c)' /\ metaCalls'[c] = metaCalls[c]
        BY <3>1, <2>1, <1>a, <1>1 DEF Fresh, Telling
      <4>2. metaCalls[c] = NoCall
        BY <3>1, <4>1 DEF Told, Separate
      <4> QED BY <4>1, <4>2, <1>1, <1>b DEF ValueTold, ConnectionTold, LastConnection
    <3>2. CASE c # cb
      <4>1. /\ c \in callbacks[q] /\ seenValue'[c] = seenValue[c] /\ seenConn'[c] = seenConn[c]
            /\ c \in overtaken' <=> c \in overtaken
        BY <3>2, <2>1, <1>a
      <4> QED BY <4>1, <1>1, <1>c DEF ValueTold, ConnectionTold, LastConnection, Telling
    <3> QED BY <3>1, <3>2
  <2>3. \A q, r \in PV : \A c \in callbacks'[q] : c \in callbacks'[r] => q = r
    BY <2>1, <1>a, <1>1 DEF Told, Separate, Fresh
  <2> QED BY <2>2, <2>3, <1>1 DEF Told, Separate, Telling
\* Callbacks go or stay, nobody is called, and what is recorded for a PV goes with
\* the last of them.
<1>2. ASSUME \A q \in PV : callbacks'[q] \subseteq callbacks[q],
             \A q \in PV : \/ callbacks'[q] = {}
                           \/ latest'[q] = latest[q] /\ connStatus'[q] = connStatus[q],
             UNCHANGED calls
      PROVE  \A q \in PV : \A c \in callbacks'[q] : ValueTold(q, c)' /\ ConnectionTold(q, c)'
  BY <1>2, <1>c DEF ValueTold, ConnectionTold, LastConnection, Telling, calls
<1>3. ASSUME NEW p \in PV, NEW cb \in Callback \cup {NoCallback}, SubscribeOpen(p, cb)
      PROVE  Told'
  <2>1. /\ callbacks[p] = {} /\ callbacks' = callbacks /\ UNCHANGED calls
        /\ opening' = p /\ joining' = cb /\ (cb # NoCallback => Fresh(cb))
        /\ \A q \in PV \ {p} : latest'[q] = latest[q] /\ connStatus'[q] = connStatus[q]
    BY <1>3, <1>a DEF SubscribeOpen, Ownership, SubscribersHaveSignal
  <2>2. Separate'
    BY <2>1 DEF Told, Separate, Free, Fresh, Telling, calls
  <2> QED BY <1>2, <2>1, <2>2 DEF Told
<1>4. ASSUME NEW p \in PV, SubscribeFinish(p) PROVE Told'
  <2>1. CASE joining = NoCallback
    <3>1. UNCHANGED <<callbacks, latest, connStatus, joining>> /\ UNCHANGED calls
      BY <1>4, <2>1 DEF SubscribeFinish, Register, calls
    <3>2. Separate'
      BY <2>1, <3>1 DEF Told, Separate, Telling, calls
    <3> QED BY <1>2, <3>1, <3>2 DEF Told
  <2>2. CASE joining # NoCallback
    BY <1>1, <1>4, <2>2, <1>a DEF SubscribeFinish, Told, Separate
  <2> QED BY <2>1, <2>2
<1>5. ASSUME NEW p \in PV, SubscribeFail(p) PROVE Told'
  <2>1. UNCHANGED <<callbacks, latest, connStatus>> /\ UNCHANGED calls /\ joining' = NoCallback
    BY <1>5 DEF SubscribeFail, manager
  <2>2. Separate'
    BY <2>1 DEF Told, Separate, Telling, calls
  <2> QED BY <1>2, <2>1, <2>2 DEF Told
<1>6. ASSUME NEW p \in PV, NEW cb \in Callback, SubscribeJoin(p, cb) PROVE Told'
  BY <1>1, <1>6 DEF SubscribeJoin, Told, Separate, lock
\* An update: nobody is being called, and all who are told of it are registered.
<1>7. ASSUME NEW p \in PV, HandleValueUpdate(p) PROVE Told'
  <2>1. /\ Free /\ joining = NoCallback /\ UNCHANGED <<joining, opening>>
        /\ \A c \in Callback : valueCalls[c] = NoValue
        /\ UNCHANGED <<callbacks, connStatus, metaCalls, seenValue, seenConn>>
    BY <1>7 DEF HandleValueUpdate, ValueThreadIdle, Told, Separate, lock
  <2>2. Separate'
    BY <2>1 DEF Told, Separate, Free, Telling
  <2>3. CASE signals[p] = NoSignal
    <3>1. UNCHANGED latest /\ UNCHANGED calls
      BY <1>7, <2>1, <2>3 DEF HandleValueUpdate, calls
    <3> QED BY <1>2, <2>1, <2>2, <3>1 DEF Told
  <2>4. CASE signals[p] # NoSignal
    <3>1. PICK v \in Value : v = Head(valueQ[p])
      BY <1>7, <1>a DEF HandleValueUpdate
    <3>2. /\ latest' = [latest EXCEPT ![p] = v]
          /\ valueCalls' = [c \in Callback |-> IF c \in callbacks[p] THEN v ELSE NoValue]
          /\ overtaken' = (overtaken \ callbacks[p])
                             \cup {c \in callbacks[p] : Telling(c) /\ metaCalls[c].value # v}
      BY <1>7, <2>4, <3>1, <1>a DEF HandleValueUpdate, PassOn
    <3>3. ASSUME NEW q \in PV, NEW c \in callbacks[q]
          PROVE  ValueTold(q, c)' /\ ConnectionTold(q, c)'
      <4>1. c \in Callback /\ (Telling(c)' <=> Telling(c)) /\ ConnectionTold(q, c)'
        BY <2>1, <1>c DEF ConnectionTold, LastConnection, Telling
      <4>2. CASE q = p
        <5>1. valueCalls'[c] = v /\ latest'[q] = v
          BY <3>2, <4>1, <4>2, <1>a
        <5>2. c \notin overtaken' => metaCalls'[c].value \in {NoValue, v}
          <6>1. ~Telling(c) => metaCalls[c].value = NoValue
            BY <4>1, <1>b DEF Told, Separate
          <6> QED BY <2>1, <3>2, <4>1, <4>2, <6>1
        <5> QED BY <4>1, <5>1, <5>2 DEF ValueTold
      <4>3. CASE q # p
        <5>1. c \notin callbacks[p]
          BY <4>3 DEF Told, Separate
        <5>2. /\ valueCalls'[c] = valueCalls[c] /\ latest'[q] = latest[q]
              /\ c \in overtaken' <=> c \in overtaken
          BY <2>1, <3>2, <4>1, <4>3, <5>1, <1>a
        <5> QED BY <2>1, <4>1, <5>2, <1>c DEF ValueTold
      <4> QED BY <4>2, <4>3
    <3> QED BY <2>1, <2>2, <3>3 DEF Told
  <2> QED BY <2>3, <2>4
<1>8. ASSUME NEW p \in PV, HandleMetaUpdate(p) PROVE Told'
  <2> DEFINE connected == Head(metaQ[p])
  <2>1. /\ Free /\ joining = NoCallback /\ UNCHANGED <<joining, opening>>
        /\ \A c \in Callback : ~Telling(c) /\ metaCalls[c] = NoCall
        /\ UNCHANGED <<callbacks, latest, valueCalls, seenValue, seenConn>>
        /\ metaQ[p] # <<>> /\ connStatus' = [connStatus EXCEPT ![p] = connected]
        /\ \/ /\ UNCHANGED <<metaCalls, overtaken>>
              /\ connStatus[p] = connected \/ connStatus[p] = Unknown
           \/ PassConnectionOn(p, connected)
    BY <1>8 DEF HandleMetaUpdate, MetaThreadIdle, Told, Separate, lock
  <2>2. connected \in Connection
    <3>1. metaQ[p] \in Seq(Connection) /\ metaQ[p] # <<>>
      BY <2>1, <1>a
    <3> QED BY <3>1, HeadTailProperties
  <2> HIDE DEF connected
  <2>3. CASE UNCHANGED <<metaCalls, overtaken>> /\ (connStatus[p] = connected \/ connStatus[p] = Unknown)
    <3>1. ASSUME NEW q \in PV, NEW c \in callbacks[q]
          PROVE  ValueTold(q, c)' /\ ConnectionTold(q, c)'
      <4>1. connStatus[q] = "disconnected" => connStatus'[q] = "disconnected"
        BY <2>1, <2>3, <1>a, <1>b
      <4> QED BY <2>1, <2>3, <4>1, <1>c DEF ValueTold, ConnectionTold, LastConnection, Telling
    <3>2. Separate'
      BY <2>1, <2>3 DEF Told, Separate, Free, Telling
    <3> QED BY <2>1, <3>1, <3>2 DEF Told
  <2>4. CASE PassConnectionOn(p, connected)
    <3>1. /\ metaCalls' = [c \in Callback |->
                              IF c \in callbacks[p]
                              THEN [connected |-> connected, value |-> latest[p]] ELSE NoCall]
          /\ overtaken' = overtaken \ callbacks[p]
      BY <2>4 DEF PassConnectionOn
    <3>2. ASSUME NEW q \in PV, NEW c \in callbacks[q]
          PROVE  ValueTold(q, c)' /\ ConnectionTold(q, c)'
      <4>1. c \in Callback
        BY <1>c
      <4>2. CASE q = p
        <5>1. /\ metaCalls'[c] = [connected |-> connected, value |-> latest[p]]
              /\ connStatus'[p] = connected
          BY <2>1, <3>1, <4>1, <4>2, <1>a
        <5>2. Telling(c)' /\ LastConnection(c)' = connected
          BY <2>2, <5>1, <1>b DEF Telling, LastConnection
        <5> QED BY <2>1, <4>2, <5>1, <5>2, <1>c DEF ValueTold, ConnectionTold
      <4>3. CASE q # p
        <5>1. c \notin callbacks[p]
          BY <4>3 DEF Told, Separate
        <5>2. /\ metaCalls'[c] = metaCalls[c] /\ connStatus'[q] = connStatus[q]
              /\ c \in overtaken' <=> c \in overtaken
          BY <2>1, <3>1, <4>1, <4>3, <5>1, <1>a
        <5> QED BY <2>1, <5>2, <1>c DEF ValueTold, ConnectionTold, LastConnection, Telling
      <4> QED BY <4>2, <4>3
    <3>3. \A c \in Callback : ~Telling(c)' => metaCalls'[c] = NoCall
      BY <2>2, <3>1, <1>b DEF Telling
    <3>4. Separate'
      BY <2>1, <3>3 DEF Told, Separate, Free
    <3> QED BY <2>1, <3>2, <3>4 DEF Told
  <2> QED BY <2>1, <2>3, <2>4
<1>9. ASSUME NEW d \in Callback, CallWithValue(d) PROVE Told'
  <2>1. /\ UNCHANGED <<callbacks, latest, connStatus, opening, joining, metaCalls>>
        /\ valueCalls[d] # NoValue
        /\ valueCalls' = [valueCalls EXCEPT ![d] = NoValue]
        /\ seenValue' = [seenValue EXCEPT ![d] = valueCalls[d]]
        /\ seenConn' = [seenConn EXCEPT ![d] = "connected"]
        /\ overtaken' = IF Telling(d) THEN overtaken ELSE overtaken \ {d}
    BY <1>9 DEF CallWithValue, manager, lock
  <2>2. ASSUME NEW q \in PV, NEW c \in callbacks[q]
        PROVE  ValueTold(q, c)' /\ ConnectionTold(q, c)'
    <3>1. c \in Callback /\ ValueTold(q, c) /\ ConnectionTold(q, c) /\ (Telling(c)' <=> Telling(c))
      BY <2>1, <1>c DEF Telling
    <3>2. CASE c = d
      <4>1. valueCalls'[c] = NoValue /\ seenValue'[c] = latest[q] /\ seenConn'[c] = "connected"
        BY <2>1, <3>1, <3>2, <1>a DEF ValueTold
      <4>2. c \notin overtaken' => metaCalls[c].value \in {NoValue, latest[q]}
        <5>1. ~Telling(c) => metaCalls[c].value = NoValue
          BY <3>1, <1>b DEF Told, Separate
        <5> QED BY <2>1, <3>1, <3>2, <5>1 DEF ValueTold
      <4> QED BY <2>1, <3>1, <4>1, <4>2 DEF ValueTold, ConnectionTold, LastConnection
    <3>3. CASE c # d
      <4>1. /\ valueCalls'[c] = valueCalls[c] /\ seenValue'[c] = seenValue[c]
            /\ seenConn'[c] = seenConn[c] /\ (c \in overtaken' <=> c \in overtaken)
        BY <2>1, <3>1, <3>3, <1>a
      <4> QED BY <2>1, <3>1, <4>1 DEF ValueTold, ConnectionTold, LastConnection
    <3> QED BY <3>2, <3>3
  <2>3. Separate'
    BY <2>1, <1>a DEF Told, Separate, Free, Fresh, Telling
  <2> QED BY <2>1, <2>2, <2>3 DEF Told
<1>10. ASSUME NEW d \in Callback, CallWithConnection(d) PROVE Told'
  <2>1. /\ UNCHANGED <<callbacks, latest, connStatus, opening, joining, valueCalls, overtaken>>
        /\ Telling(d)
        /\ metaCalls' = [metaCalls EXCEPT ![d] = NoCall]
        /\ seenValue' = [seenValue EXCEPT ![d] = metaCalls[d].value]
        /\ seenConn' = [seenConn EXCEPT ![d] = metaCalls[d].connected]
    BY <1>10 DEF CallWithConnection, manager, lock
  <2>2. ASSUME NEW q \in PV, NEW c \in callbacks[q]
        PROVE  ValueTold(q, c)' /\ ConnectionTold(q, c)'
    <3>1. c \in Callback /\ ValueTold(q, c) /\ ConnectionTold(q, c)
      BY <1>c
    <3>2. CASE c = d
      <4>1. /\ metaCalls'[c] = NoCall /\ ~Telling(c)' /\ seenValue'[c] = metaCalls[c].value
            /\ seenConn'[c] = metaCalls[c].connected
        BY <2>1, <3>1, <3>2, <1>a, <1>b DEF Telling
      <4> QED BY <2>1, <3>1, <3>2, <4>1, <1>b DEF ValueTold, ConnectionTold, LastConnection
    <3>3. CASE c # d
      <4>1. /\ metaCalls'[c] = metaCalls[c] /\ seenValue'[c] = seenValue[c]
            /\ seenConn'[c] = seenConn[c]
        BY <2>1, <3>1, <3>3, <1>a
      <4> QED BY <2>1, <3>1, <4>1 DEF ValueTold, ConnectionTold, LastConnection, Telling
    <3> QED BY <3>2, <3>3
  <2>3. \A c \in Callback : ~Telling(c) => ~Telling(c)' /\ metaCalls'[c] = metaCalls[c]
    BY <2>1, <1>a DEF Telling
  <2>4. \A c \in Callback : ~Telling(c)' => metaCalls'[c] = NoCall
    BY <2>1, <1>a DEF Told, Separate, Telling
  <2>5. Separate'
    BY <2>1, <2>3, <2>4, <1>a DEF Told, Separate, Free, Fresh
  <2> QED BY <2>1, <2>2, <2>5 DEF Told
<1>11. ASSUME \A q \in PV : callbacks'[q] \subseteq callbacks[q], Free,
              UNCHANGED <<opening, joining>>, UNCHANGED calls
       PROVE  Separate'
  BY <1>11 DEF Told, Separate, Free, Telling, calls
<1>12. ASSUME NEW p \in PV, NEW cb \in Callback \cup {NoCallback}, Unsubscribe(p, cb)
       PROVE  Told'
  <2>1. /\ Free /\ UNCHANGED <<opening, joining>> /\ UNCHANGED calls
        /\ \A q \in PV : callbacks'[q] \subseteq callbacks[q]
        /\ \A q \in PV : \/ callbacks'[q] = {}
                         \/ latest'[q] = latest[q] /\ connStatus'[q] = connStatus[q]
    BY <1>12, <1>a DEF Unsubscribe, lock
  <2> QED BY <1>2, <1>11, <2>1 DEF Told
<1>13. CASE Cleanup
  <2>1. /\ Free /\ UNCHANGED <<opening, joining>> /\ UNCHANGED calls
        /\ \A q \in PV : callbacks'[q] = {}
    BY <1>13 DEF Cleanup, lock
  <2> QED BY <1>2, <1>11, <2>1 DEF Told
<1>14. ASSUME NEW p \in PV, GetValueReads(p) PROVE Told'
  <2>1. /\ Free /\ latest[p] = NoValue /\ \A q \in PV \ {p} : latest'[q] = latest[q]
        /\ UNCHANGED <<callbacks, connStatus, opening, joining>> /\ UNCHANGED calls
    BY <1>14, <1>a DEF GetValueReads, lock
  <2>2. ASSUME NEW q \in PV, NEW c \in callbacks[q]
        PROVE  ValueTold(q, c)' /\ ConnectionTold(q, c)'
    BY <2>1, <1>c DEF ValueTold, ConnectionTold, LastConnection, Telling, calls
  <2> QED BY <1>11, <2>1, <2>2 DEF Told
<1>15. CASE UNCHANGED <<lock, callbacks, connStatus, latest, calls>>
  <2>1. Separate'
    BY <1>15 DEF Told, Separate, Free, Fresh, Telling, lock, calls
  <2> QED BY <1>2, <1>15, <2>1 DEF Told
<1>16. ASSUME (\E s \in Signal : Destroy(s)) \/ Environment \/ UNCHANGED vars
       PROVE  UNCHANGED <<lock, callbacks, connStatus, latest, calls>>
  BY <1>16 DEF Destroy, Environment, IocPut, IocDown, IocReturns, vars, manager
<1> QED
  BY <1>3, <1>4, <1>5, <1>6, <1>7, <1>8, <1>9, <1>10, <1>12, <1>13, <1>14, <1>15, <1>16
  DEF Next, Subscribing, Dispatching, Releasing

LEMMA ToldInitially == Init => Told /\ Ownership
BY NoneAssumption
DEF Init, Told, Separate, Free, Telling, NoCall, Unknown, Ownership, SubscribersHaveSignal

\* The value dispatcher never leaves a subscriber behind the cache, although it
\* calls outside the lock; whoever is behind was told by the metadata dispatcher
\* of a connection whose value _handle_value_update has since replaced.
THEOREM LeftBehindOnlyIfOvertaken == Spec => []BehindOnlyIfOvertaken
<1>1. Told => BehindOnlyIfOvertaken
  BY DEF Told, ValueTold, BehindOnlyIfOvertaken
<1> QED BY <1>1, ToldInitially, ToldStep, OwnershipStep, TypeCorrect, PTL DEF Spec

\* _handle_meta_update skips what it takes for a repetition, and value updates say
\* connected=True whatever the state is; yet no subscriber that was told of an
\* outage is left with it once the manager takes the PV for connected again.
THEOREM EveryReconnectionIsTold == Spec => []ReconnectionIsTold
<1>1. Told => ReconnectionIsTold
  BY DEF Told, ConnectionTold, LastConnection, ReconnectionIsTold
<1> QED BY <1>1, ToldInitially, ToldStep, OwnershipStep, TypeCorrect, PTL DEF Spec

-----------------------------------------------------------------------------
(* Refinement: the manager implements Monitor                              *)

Latest == [p \in PV |-> IF opening = p THEN NoValue ELSE latest[p]]
Owing(p) == Fed(p) /\ (valueQ[p] # <<>> \/ p \notin online)
Owed == {p \in Tracked : Owing(p)}

\* A PV that a step does not concern stays tracked or untracked, owed or not.
Apart(q) ==
    /\ signals'[q] = signals[q] /\ (opening' = q <=> opening = q)
    /\ latest'[q] = latest[q]
    /\ Fed(q)' <=> Fed(q)
    /\ valueQ'[q] = valueQ[q] /\ (q \in online' <=> q \in online)

LEMMA ApartFacts ==
    ASSUME NEW p, \A q \in PV \ {p} : Apart(q)
    PROVE  /\ \A q \in PV \ {p} : /\ q \in Tracked' <=> q \in Tracked
                                  /\ q \in Owed' <=> q \in Owed
                                  /\ Latest'[q] = Latest[q]
           /\ Tracked \subseteq PV /\ Tracked' \subseteq PV
           /\ Owed \subseteq PV /\ Owed' \subseteq PV
BY DEF Apart, Tracked, Owed, Owing, Latest

LEMMA PromiseStep ==
    ASSUME TypeOK, Ownership, CacheCoherent, [Next]_vars
    PROVE  [Promise!Next]_(Promise!mvars)
<1> USE NoneAssumption
<1>a. /\ signals \in [PV -> Signal \cup {NoSignal}]
      /\ live \in [Signal -> PV \cup {NoPV}]
      /\ feeds \in [Signal -> SUBSET {"value", "meta"}]
      /\ latest \in [PV -> Value \cup {NoValue}]
      /\ iocValue \in [PV -> Value]
      /\ valueQ \in [PV -> Seq(Value)]
      /\ callbacks \in [PV -> SUBSET Callback]
      /\ joining \in Callback \cup {NoCallback}
      /\ opening \in PV \cup {NoPV}
  BY DEF TypeOK
<1>b. \A p \in PV : signals[p] # NoSignal => signals[p] \in Signal /\ live[signals[p]] = p
  BY <1>a DEF Ownership, SubscribersHaveSignal
<1>c. ASSUME UNCHANGED <<Tracked, callbacks, Latest, Owed, valueCalls>>
      PROVE  UNCHANGED Promise!mvars
  BY <1>c DEF Promise!mvars, Latest, Owed, Owing
<1>d. ASSUME NEW p, \A q \in PV \ {p} : Apart(q),
             p \in PV => /\ p \in Tracked' <=> p \in Tracked
                         /\ p \in Owed' <=> p \in Owed
                         /\ Latest'[p] = Latest[p],
             UNCHANGED <<callbacks, valueCalls>>
      PROVE  UNCHANGED Promise!mvars
  <2>1. Tracked' = Tracked /\ Owed' = Owed
    BY <1>d, ApartFacts
  <2>2. Latest' = Latest
    BY <1>d, ApartFacts DEF Latest
  <2> QED BY <1>c, <1>d, <2>1, <2>2
<1>1. ASSUME NEW p \in PV, NEW cb \in Callback \cup {NoCallback}, SubscribeOpen(p, cb)
      PROVE  UNCHANGED Promise!mvars
  <2>1. PICK s \in Signal : /\ live[s] = NoPV
                            /\ signals' = [signals EXCEPT ![p] = s]
    BY <1>1 DEF SubscribeOpen
  <2>2. \A q \in PV \ {p} : Apart(q)
    BY <1>1, <2>1, <1>a DEF SubscribeOpen, Apart, Free, Fed, ioc
  <2>3. /\ opening = NoPV /\ opening' = p /\ signals[p] = NoSignal /\ latest[p] = NoValue
        /\ UNCHANGED <<callbacks, valueCalls>>
    BY <1>1 DEF SubscribeOpen, Free, CacheCoherent, calls
  <2>4. p \notin Tracked /\ p \notin Tracked'
    BY <2>3 DEF Tracked
  <2>5. Latest[p] = NoValue /\ Latest'[p] = NoValue
    BY <2>3 DEF Latest
  <2> QED BY <1>d, <2>2, <2>3, <2>4, <2>5 DEF Owed
<1>2. ASSUME NEW p \in PV, SubscribeFinish(p) PROVE Promise!Next
  <2>1. /\ opening = p /\ opening' = NoPV /\ signals' = signals /\ latest' = latest
        /\ online' = online /\ valueCalls' = valueCalls
        /\ signals[p] # NoSignal /\ signals[p] \in Signal
        /\ feeds' = [feeds EXCEPT ![signals[p]] = {"value", "meta"}]
        /\ valueQ' = [valueQ EXCEPT ![p] = IF p \in online THEN Append(@, iocValue[p]) ELSE @]
    BY <1>2, <1>a DEF SubscribeFinish, Ownership, ioc
  <2>2. ASSUME NEW q \in PV \ {p} PROVE Apart(q)
    <3>1. signals[q] # NoSignal => signals[q] \in Signal /\ signals[q] # signals[p]
      BY <2>1, <1>b
    <3> QED BY <2>1, <3>1, <1>a DEF Apart, Fed
  <2>3. p \notin Tracked /\ p \in Tracked'
    BY <2>1 DEF Tracked
  <2>4. p \in Owed'
    <3>1. Fed(p)'
      BY <2>1, <1>a DEF Fed
    <3>2. p \in online => valueQ'[p] # <<>>
      BY <2>1, <1>a, LastFacts
    <3> QED BY <2>1, <2>3, <3>1, <3>2 DEF Owed, Owing
  <2>5. Tracked' = Tracked \cup {p} /\ Owed' = Owed \cup {p}
    BY <2>2, <2>3, <2>4, ApartFacts
  <2>6. Latest' = [Latest EXCEPT ![p] = latest[p]]
    BY <2>1, <2>2, ApartFacts DEF Latest
  <2>7. callbacks' = [callbacks EXCEPT ![p] = @ \cup Promise!Given(joining)]
    BY <1>2, <1>a DEF SubscribeFinish, Register, Promise!Given
  <2>8. PICK cb \in Callback \cup {NoCallback}, v \in Value \cup {NoValue} :
          cb = joining /\ v = latest[p]
    BY <1>a
  <2>9. Promise!Track(p, cb, v)
    BY <2>1, <2>3, <2>5, <2>6, <2>7, <2>8 DEF Promise!Track, Promise!Given, Latest, Owed, Owing
  <2> QED BY <2>9 DEF Promise!Next
<1>3. ASSUME NEW p \in PV, SubscribeFail(p) PROVE Promise!Next
  <2>1. /\ opening = p /\ opening' = NoPV /\ signals' = signals /\ latest' = latest
        /\ online' = online /\ UNCHANGED <<callbacks, valueCalls>>
        /\ signals[p] # NoSignal /\ signals[p] \in Signal
        /\ \/ UNCHANGED <<feeds, valueQ>>
           \/ /\ feeds' = [feeds EXCEPT ![signals[p]] = {"value"}]
              /\ valueQ' = [valueQ EXCEPT ![p] = IF p \in online THEN Append(@, iocValue[p]) ELSE @]
    BY <1>3, <1>a DEF SubscribeFail, Ownership, ioc, manager, calls
  <2>2. ASSUME NEW q \in PV \ {p} PROVE Apart(q)
    <3>1. signals[q] # NoSignal => signals[q] \in Signal /\ signals[q] # signals[p]
      BY <2>1, <1>b
    <3> QED BY <2>1, <3>1, <1>a DEF Apart, Fed
  <2>3. p \notin Tracked /\ p \in Tracked'
    BY <2>1 DEF Tracked
  <2>4. Tracked' = Tracked \cup {p} /\ Owed' \in {Owed, Owed \cup {p}}
    <3>1. p \notin Owed
      BY <2>3 DEF Owed
    <3> QED BY <2>2, <2>3, <3>1, ApartFacts
  <2>5. Latest' = [Latest EXCEPT ![p] = latest[p]]
    BY <2>1, <2>2, ApartFacts DEF Latest
  <2>6. PICK v \in Value \cup {NoValue} : v = latest[p]
    BY <1>a
  <2>7. Promise!TrackAndRaise(p, v)
    BY <2>1, <2>3, <2>4, <2>5, <2>6 DEF Promise!TrackAndRaise, Latest, Owed, Owing
  <2> QED BY <2>7 DEF Promise!Next
<1>4. ASSUME NEW p \in PV, NEW cb \in Callback, SubscribeJoin(p, cb) PROVE Promise!Next
  <2>1. /\ opening = NoPV /\ signals[p] # NoSignal
        /\ callbacks' = [callbacks EXCEPT ![p] = @ \cup {cb}]
        /\ UNCHANGED <<opening, signals, latest, valueQ, online, feeds, valueCalls>>
    BY <1>4 DEF SubscribeJoin, Free, Register, ioc, ophyd, lock
  <2>2. p \in Tracked /\ UNCHANGED <<Tracked, Latest, Owed>>
    BY <2>1 DEF Tracked, Latest, Owed, Owing, Fed
  <2>3. Promise!Join(p, cb)
    BY <2>1, <2>2 DEF Promise!Join, Latest, Owed, Owing
  <2> QED BY <2>3 DEF Promise!Next
<1>5. ASSUME NEW p \in PV, HandleValueUpdate(p) PROVE [Promise!Next]_(Promise!mvars)
  <2>1. /\ opening = NoPV /\ valueQ[p] # <<>> /\ valueQ' = [valueQ EXCEPT ![p] = Tail(@)]
        /\ \A c \in Callback : valueCalls[c] = NoValue
        /\ UNCHANGED <<opening, signals, feeds, online, callbacks>>
    BY <1>5 DEF HandleValueUpdate, Free, ValueThreadIdle, ioc, lock
  <2>2. \A q \in PV \ {p} : Apart(q)
    BY <1>5, <2>1, <1>a DEF HandleValueUpdate, Apart, Fed
  <2>3. CASE signals[p] = NoSignal
    <3>1. UNCHANGED <<latest, valueCalls>>
      BY <1>5, <2>3 DEF HandleValueUpdate
    <3>2. p \notin Tracked /\ p \notin Tracked' /\ Latest'[p] = Latest[p]
      BY <2>1, <2>3, <3>1 DEF Tracked, Latest
    <3> QED BY <1>d, <2>1, <2>2, <3>1, <3>2 DEF Owed
  <2>4. CASE signals[p] # NoSignal
    <3>0. PICK v \in Value : v = Head(valueQ[p])
      BY <2>1, <1>a
    <3>1. /\ latest' = [latest EXCEPT ![p] = v]
          /\ valueCalls' = [c \in Callback |-> IF c \in callbacks[p] THEN v ELSE NoValue]
      BY <1>5, <2>1, <2>4, <3>0, <1>a DEF HandleValueUpdate, PassOn
    <3>2. Tracked' = Tracked /\ p \in Tracked
      BY <2>1, <2>4 DEF Tracked
    <3>3. Owed' \in {Owed, Owed \ {p}}
      <4>1. p \in Owed' => p \in Owed
        BY <2>1, <3>2 DEF Owed, Owing, Fed
      <4> QED BY <2>2, <4>1, ApartFacts
    <3>4. Latest' = [Latest EXCEPT ![p] = v]
      BY <2>1, <3>1, <1>a DEF Latest
    <3>5. Promise!Update(p, v)
      BY <2>1, <3>1, <3>2, <3>3, <3>4 DEF Promise!Update, Latest, Owed, Owing
    <3> QED BY <3>5 DEF Promise!Next
  <2> QED BY <2>3, <2>4
<1>6. ASSUME NEW c \in Callback, CallWithValue(c) PROVE Promise!Next
  <2>1. /\ valueCalls[c] # NoValue /\ valueCalls' = [valueCalls EXCEPT ![c] = NoValue]
        /\ UNCHANGED <<opening, signals, latest, valueQ, online, feeds, callbacks>>
    BY <1>6 DEF CallWithValue, ioc, ophyd, lock, manager
  <2>2. UNCHANGED <<Tracked, Latest, Owed>>
    BY <2>1 DEF Tracked, Latest, Owed, Owing, Fed
  <2>3. Promise!Call(c)
    BY <2>1, <2>2 DEF Promise!Call, Latest, Owed, Owing
  <2> QED BY <2>3 DEF Promise!Next
<1>7. ASSUME NEW p \in PV, NEW cb \in Callback \cup {NoCallback}, Unsubscribe(p, cb)
      PROVE  Promise!Next
  <2> DEFINE left == IF cb = NoCallback THEN {} ELSE callbacks[p] \ {cb}
  <2>1. /\ opening = NoPV /\ callbacks' = [callbacks EXCEPT ![p] = left]
        /\ UNCHANGED <<opening, feeds, valueQ, online, valueCalls>>
    BY <1>7 DEF Unsubscribe, Free, ioc, ophyd, lock, calls
  <2>2. p \in Tracked <=> signals[p] # NoSignal
    BY <2>1 DEF Tracked
  <2>3. CASE left = {} /\ signals[p] # NoSignal
    <3>1. /\ signals' = [signals EXCEPT ![p] = NoSignal]
          /\ latest' = [latest EXCEPT ![p] = NoValue]
      BY <1>7, <2>3 DEF Unsubscribe
    <3>2. \A q \in PV \ {p} : Apart(q)
      BY <2>1, <3>1, <1>a DEF Apart, Fed
    <3>3. p \notin Tracked'
      BY <3>1, <1>a DEF Tracked
    <3>4. p \notin Owed'
      BY <3>3 DEF Owed
    <3>5. Tracked' = Tracked \ {p} /\ Owed' = Owed \ {p}
      BY <3>2, <3>3, <3>4, ApartFacts
    <3>6. Latest' = [Latest EXCEPT ![p] = NoValue]
      BY <2>1, <3>1, <1>a DEF Latest
    <3>7. Promise!Release(p, cb)
      BY <2>1, <2>2, <2>3, <3>5, <3>6 DEF Promise!Release, Latest, Owed, Owing
    <3> QED BY <3>7 DEF Promise!Next
  <2>4. CASE ~(left = {} /\ signals[p] # NoSignal)
    <3>1. UNCHANGED <<signals, latest>>
      BY <1>7, <2>4 DEF Unsubscribe
    <3>2. UNCHANGED <<Tracked, Latest, Owed>>
      BY <2>1, <3>1 DEF Tracked, Latest, Owed, Owing, Fed
    <3>3. Promise!Release(p, cb)
      BY <2>1, <2>2, <2>4, <3>2 DEF Promise!Release, Latest, Owed, Owing
    <3> QED BY <3>3 DEF Promise!Next
  <2> QED BY <2>3, <2>4
<1>8. ASSUME NEW s \in Signal, Destroy(s) PROVE UNCHANGED Promise!mvars
  <2>1. /\ UNCHANGED <<opening, signals, latest, valueQ, online, callbacks, valueCalls>>
        /\ feeds' = [feeds EXCEPT ![s] = {}] /\ live[s] # NoPV /\ signals[live[s]] # s
    BY <1>8 DEF Destroy, ioc, lock, manager, calls
  <2>2. ASSUME NEW q \in PV PROVE Fed(q)' <=> Fed(q)
    <3>1. signals[q] # NoSignal => signals[q] # s
      BY <2>1, <1>b
    <3> QED BY <2>1, <3>1, <1>a DEF Fed
  <2>3. UNCHANGED <<Tracked, Latest>>
    BY <2>1 DEF Tracked, Latest
  <2>4. Owed' = Owed
    BY <2>1, <2>2, <2>3 DEF Owed, Owing, Tracked
  <2> QED BY <1>c, <2>1, <2>3, <2>4
<1>9. CASE Cleanup
  <2>1. /\ signals' = [p \in PV |-> NoSignal] /\ callbacks' = [p \in PV |-> {}]
        /\ latest' = [p \in PV |-> NoValue] /\ UNCHANGED <<opening, valueCalls>>
    BY <1>9 DEF Cleanup, lock, calls
  <2>2. Tracked' = {} /\ Owed' = {} /\ Latest' = [p \in PV |-> NoValue]
    BY <2>1 DEF Tracked, Owed, Latest
  <2>3. Promise!Clear
    BY <2>1, <2>2 DEF Promise!Clear, Latest, Owed, Owing
  <2> QED BY <2>3 DEF Promise!Next
<1>10. ASSUME NEW p \in PV, GetValueReads(p) PROVE Promise!Next
  <2>1. /\ opening = NoPV /\ latest[p] = NoValue /\ signals[p] # NoSignal
        /\ latest' = [latest EXCEPT ![p] = iocValue[p]]
        /\ UNCHANGED <<opening, signals, valueQ, online, feeds, callbacks, valueCalls>>
    BY <1>10 DEF GetValueReads, Free, ioc, ophyd, lock, calls
  <2>2. p \in Tracked /\ UNCHANGED <<Tracked, Owed>> /\ Latest[p] = NoValue
    BY <2>1 DEF Tracked, Owed, Owing, Fed, Latest
  <2>3. Latest' = [Latest EXCEPT ![p] = iocValue[p]]
    BY <2>1, <1>a DEF Latest
  <2>4. PICK v \in Value : v = iocValue[p]
    BY <1>a
  <2>5. Promise!ReadValue(p, v)
    BY <2>1, <2>2, <2>3, <2>4 DEF Promise!ReadValue, Latest, Owed, Owing
  <2> QED BY <2>5 DEF Promise!Next
\* The IOC: the tracked PV is owed an update, if it was not already.
<1>11. ASSUME NEW p \in PV, \A q \in PV \ {p} : Apart(q),
              p \in Owed' => p \in Tracked, p \in Owed => p \in Owed',
              UNCHANGED <<opening, signals, latest, callbacks, valueCalls>>
       PROVE  [Promise!Next]_(Promise!mvars)
  <2>1. UNCHANGED <<Tracked, Latest>>
    BY <1>11 DEF Tracked, Latest
  <2>2. CASE p \in Owed' /\ p \notin Owed
    <3>1. Owed' = Owed \cup {p} /\ p \in Tracked
      BY <1>11, <2>2, ApartFacts
    <3>2. Promise!Owe(p)
      BY <1>11, <2>1, <3>1 DEF Promise!Owe, Latest, Owed, Owing
    <3> QED BY <3>2 DEF Promise!Next
  <2>3. CASE p \in Owed' <=> p \in Owed
    <3>1. Owed' = Owed
      BY <1>11, <2>3, ApartFacts
    <3> QED BY <1>c, <1>11, <2>1, <3>1
  <2> QED BY <1>11, <2>2, <2>3
<1>12. ASSUME NEW p \in PV, NEW v \in Value, valueQ' = Emit(valueQ, p, "value", v)
       PROVE  /\ \A q \in PV \ {p} : valueQ'[q] = valueQ[q]
              /\ Fed(p) => valueQ'[p] # <<>>
  <2>1. valueQ'[p] = valueQ[p] \o Burst(p, "value", v)
    BY <1>12, <1>a DEF Emit, Burst
  <2>2. Fed(p) => signals[p] \in Feeding(p, "value")
    BY <1>b DEF Fed, Feeding
  <2>3. Fed(p) => valueQ'[p] # <<>>
    BY <2>1, <2>2, <1>a, BurstFacts
  <2> QED BY <2>3, <1>12, <1>a DEF Emit
<1>13. ASSUME NEW p \in PV, NEW v \in Value, IocPut(p, v) \/ IocReturns(p, v)
       PROVE  [Promise!Next]_(Promise!mvars)
  <2>1. /\ UNCHANGED <<opening, signals, latest, feeds, callbacks, valueCalls>>
        /\ valueQ' = Emit(valueQ, p, "value", v)
        /\ \A q \in PV \ {p} : q \in online' <=> q \in online
    BY <1>13 DEF IocPut, IocReturns, lock, manager, calls
  <2>2. \A q \in PV \ {p} : Apart(q)
    BY <1>12, <2>1 DEF Apart, Fed
  <2>3. (p \in Owed' => p \in Tracked) /\ (p \in Owed => p \in Owed')
    BY <1>12, <2>1 DEF Owed, Owing, Tracked, Fed
  <2> QED BY <1>11, <2>1, <2>2, <2>3
<1>14. ASSUME NEW p \in PV, IocDown(p) PROVE [Promise!Next]_(Promise!mvars)
  <2>1. /\ UNCHANGED <<opening, signals, latest, feeds, valueQ, callbacks, valueCalls>>
        /\ online' = online \ {p}
    BY <1>14 DEF IocDown, lock, manager, calls
  <2>2. \A q \in PV \ {p} : Apart(q)
    BY <2>1 DEF Apart, Fed
  <2>3. (p \in Owed' => p \in Tracked) /\ (p \in Owed => p \in Owed')
    BY <2>1 DEF Owed, Owing, Tracked, Fed
  <2> QED BY <1>11, <2>1, <2>2, <2>3
<1>15. ASSUME \/ \E p \in PV : HandleMetaUpdate(p)
              \/ \E c \in Callback : CallWithConnection(c)
              \/ UNCHANGED vars
       PROVE  UNCHANGED Promise!mvars
  <2>1. UNCHANGED <<opening, signals, latest, valueQ, online, feeds, callbacks, valueCalls>>
    BY <1>15 DEF HandleMetaUpdate, CallWithConnection, vars, ioc, ophyd, lock, manager, calls
  <2>2. UNCHANGED <<Tracked, Latest, Owed>>
    BY <2>1 DEF Tracked, Latest, Owed, Owing, Fed
  <2> QED BY <1>c, <2>1, <2>2
<1> QED
  BY <1>1, <1>2, <1>3, <1>4, <1>5, <1>6, <1>7, <1>8, <1>9, <1>10, <1>13, <1>14, <1>15
  DEF Next, Subscribing, Dispatching, Releasing, Environment

\* The manager keeps what it promises the WebSocket managers (Monitor): whatever
\* its threads, ophyd's and the IOC do, every call takes effect at one instant,
\* a callback gets every update from its registration on, and the PV of a
\* subscribe that opened a signal is owed an update until one comes.
THEOREM ImplementsPromise == Spec => KeepsPromise
<1>1. Init => Promise!Init
  BY NoneAssumption DEF Init, Promise!Init, Tracked
<1>2. Init => Ownership
  BY NoneAssumption DEF Init, Ownership, SubscribersHaveSignal
<1> QED BY <1>1, <1>2, PromiseStep, OwnershipStep, TypeCorrect, CacheIsCoherent, PTL
        DEF Spec, KeepsPromise, Promise!Spec

=============================================================================
