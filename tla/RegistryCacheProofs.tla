------------------------ MODULE RegistryCacheProofs ------------------------
(***************************************************************************)
(* How old an answer of RegistryClient can be, for any TTL and timeout,    *)
(* any number of names and of lookups that overlap.                        *)
(***************************************************************************)
EXTENDS RegistryCache, TLAPS

\* The registry had each answer on its way when it gave it, which is at most
\* HttpTimeout ago, and nothing is stamped with a time to come.
Evidence ==
    /\ \A n \in Name : had[n] <= now /\ lacked[n] <= now
    /\ \A n \in Name : LastSo(n, n \in registered) = now
    /\ \A n \in Name : cache[n] # NoEntry => cache[n].at <= now
    /\ \A l \in Lookup : pc[l] = "answered" =>
        /\ reply[l].at <= now
        /\ now <= reply[l].at + HttpTimeout
        /\ reply[l].status = "200" => had[name[l]] >= reply[l].at
        /\ reply[l].status = "404" => lacked[name[l]] >= reply[l].at

IInv == TypeOK /\ Evidence /\ EntryHadEvidence /\ AnswerAge

-----------------------------------------------------------------------------
(* Type correctness                                                        *)

\* The types hold, with ages that are numbers and entries stamped by the clock.
THEOREM TypeCorrect == Spec => []TypeOK
<1>1. Init => TypeOK
  BY TimesAssumption DEF Init, TypeOK, Never, Status, Verdict
<1>2. TypeOK /\ [Next]_vars => TypeOK'
  <2> SUFFICES ASSUME TypeOK, [Next]_vars PROVE TypeOK'
    OBVIOUS
  <2> USE DEF TypeOK, Status, Verdict
  <2>1. ASSUME NEW l \in Lookup, NEW n \in Name, Hit(l, n) PROVE TypeOK'
    <3>1. cache[n] \in [exists : BOOLEAN, at : Nat]
      BY <2>1 DEF Hit, Valid
    <3>2. now - LastSo(n, cache[n].exists) \in Int
      BY <3>1 DEF LastSo
    <3> QED
      BY <2>1, <3>2 DEF Hit, Say
  <2>2. ASSUME NEW l \in Lookup, NEW n \in Name, Ask(l, n) PROVE TypeOK'
    BY <2>2 DEF Ask
  <2>3. ASSUME NEW l \in Lookup, RegistryAnswers(l) PROVE TypeOK'
    BY <2>3 DEF RegistryAnswers
  <2>4. ASSUME NEW l \in Lookup, Receive(l) PROVE TypeOK'
    <3> DEFINE n == name[l]
               exists == reply[l].status = "200"
    <3>1. n \in Name /\ exists \in BOOLEAN
      OBVIOUS
    <3>2. [exists |-> exists, at |-> now] \in [exists : BOOLEAN, at : Nat]
      BY <3>1
    <3>3. now - LastSo(n, exists) \in Int
      <4> HIDE DEF exists
      <4> QED BY <3>1 DEF LastSo
    <3>4. \/ Raise(l, "refused") /\ UNCHANGED cache
          \/ /\ cache' = [cache EXCEPT ![n] = [exists |-> exists, at |-> now]]
             /\ Say(l, n, exists)
      BY <2>4 DEF Receive
    <3>5. verdict' \in [Lookup -> Verdict] /\ age' \in [Lookup -> Int]
      <4> HIDE DEF exists
      <4>1. CASE Raise(l, "refused")
        BY <4>1 DEF Raise
      <4>2. CASE Say(l, n, exists)
        <5>1. (IF exists THEN "exists" ELSE "absent") \in Verdict
          OBVIOUS
        <5> QED BY <4>2, <5>1, <3>3 DEF Say
      <4> QED BY <3>4, <4>1, <4>2
    <3>6. cache' \in [Name -> [exists : BOOLEAN, at : Nat] \cup {NoEntry}]
      <4> HIDE DEF exists
      <4> QED BY <3>1, <3>2, <3>4
    <3> QED
      BY <2>4, <3>5, <3>6 DEF Receive
  <2>5. ASSUME NEW l \in Lookup, Fail(l) PROVE TypeOK'
    BY <2>5 DEF Fail, Raise
  <2>6. ASSUME NEW n \in Name, Change(n) PROVE TypeOK'
    BY <2>6 DEF Change
  <2>7. CASE Tick
    BY <2>7 DEF Tick
  <2>8. CASE UNCHANGED vars
    BY <2>8 DEF vars
  <2> QED
    BY <2>1, <2>2, <2>3, <2>4, <2>5, <2>6, <2>7, <2>8 DEF Next
<1> QED
  BY <1>1, <1>2, PTL DEF Spec

-----------------------------------------------------------------------------
(* The age of answers                                                      *)

\* What is known of the past is only ever renewed, up to the present.
Renewed ==
    /\ \A n \in Name : had'[n] >= had[n] /\ lacked'[n] >= lacked[n]
    /\ \A n \in Name : had'[n] <= now' /\ lacked'[n] <= now'
    /\ \A n \in Name : LastSo(n, n \in registered)' = now'

\* It is renewed when a name is added or removed, and with every tick.
LEMMA HistoryFacts ==
    ASSUME TypeOK, Evidence, (\E n \in Name : Change(n)) \/ Tick
    PROVE  Renewed
<1> USE DEF TypeOK, Evidence, Renewed, LastSo
<1>1. ASSUME NEW n \in Name, Change(n) PROVE Renewed
  <2>1. CASE n \in registered
    BY <1>1, <2>1 DEF Change
  <2>2. CASE n \notin registered
    BY <1>1, <2>2 DEF Change
  <2> QED
    BY <2>1, <2>2
<1>2. CASE Tick
  BY <1>2 DEF Tick
<1> QED
  BY <1>1, <1>2

\* Neither a cached entry nor a verdict is ever older than the time allowed.
LEMMA EvidenceInitially == Init => Evidence /\ EntryHadEvidence /\ AnswerAge
  BY TimesAssumption DEF Init, Evidence, EntryHadEvidence, AnswerAge, Never, LastSo

\* A lookup says what it learned at most HttpTimeout ago.
LEMMA SayFacts ==
    ASSUME TypeOK, Evidence, EntryHadEvidence, AnswerAge,
           NEW l \in Lookup, NEW n \in Name, NEW exists \in BOOLEAN, Say(l, n, exists),
           now - LastSo(n, exists) <= TTL + HttpTimeout
    PROVE  \A k \in Lookup : age'[k] <= TTL + HttpTimeout
  BY DEF TypeOK, AnswerAge, Say

\* The evidence, and what follows from it, is kept by every step.
LEMMA EvidenceKept ==
    ASSUME TypeOK, TypeOK', Evidence, EntryHadEvidence, AnswerAge, [Next]_vars
    PROVE  Evidence' /\ EntryHadEvidence' /\ AnswerAge'
<1> USE TimesAssumption
<1>1. ASSUME NEW l \in Lookup, NEW n \in Name, Hit(l, n)
      PROVE  Evidence' /\ EntryHadEvidence' /\ AnswerAge'
  <2>1. cache[n] \in [exists : BOOLEAN, at : Nat] /\ now - cache[n].at <= TTL
    BY <1>1 DEF Hit, Valid, TypeOK
  <2>2. LastSo(n, cache[n].exists) >= cache[n].at - HttpTimeout
    BY <1>1 DEF Hit, Valid, EntryHadEvidence
  <2>3. LastSo(n, cache[n].exists) \in Int
    BY <2>1 DEF LastSo, TypeOK
  <2>4. now - LastSo(n, cache[n].exists) <= TTL + HttpTimeout
    BY <2>1, <2>2, <2>3 DEF TypeOK
  <2>5. AnswerAge'
    BY <1>1, <2>1, <2>4, SayFacts DEF Hit, AnswerAge
  <2>6. UNCHANGED <<now, registered, had, lacked, cache, pc, reply>>
    BY <1>1 DEF Hit
  <2>7. \A k \in Lookup : pc[k] = "answered" => name'[k] = name[k]
    BY <1>1 DEF Hit, TypeOK
  <2> QED
    BY <2>5, <2>6, <2>7 DEF Evidence, EntryHadEvidence, LastSo
<1>2. ASSUME NEW l \in Lookup, NEW n \in Name, Ask(l, n)
      PROVE  Evidence' /\ EntryHadEvidence' /\ AnswerAge'
  BY <1>2 DEF Ask, TypeOK, Evidence, EntryHadEvidence, AnswerAge, LastSo
<1>3. ASSUME NEW l \in Lookup, RegistryAnswers(l)
      PROVE  Evidence' /\ EntryHadEvidence' /\ AnswerAge'
  BY <1>3 DEF RegistryAnswers, TypeOK, Evidence, EntryHadEvidence, AnswerAge, LastSo, Status
<1>4. ASSUME NEW l \in Lookup, Receive(l)
      PROVE  Evidence' /\ EntryHadEvidence' /\ AnswerAge'
  <2> DEFINE n == name[l]
             exists == reply[l].status = "200"
  <2>1. /\ UNCHANGED <<now, registered, had, lacked, name, reply>>
        /\ pc[l] = "answered" /\ pc' = [pc EXCEPT ![l] = "idle"]
    BY <1>4 DEF Receive
  <2>2. CASE Raise(l, "refused") /\ UNCHANGED cache
    BY <2>1, <2>2 DEF Raise, TypeOK, Evidence, EntryHadEvidence, AnswerAge, LastSo
  <2>3. CASE /\ reply[l].status # "other"
             /\ cache' = [cache EXCEPT ![n] = [exists |-> exists, at |-> now]]
             /\ Say(l, n, exists)
    <3>1. n \in Name /\ exists \in BOOLEAN
      BY DEF TypeOK
    <3>2. now - HttpTimeout <= LastSo(n, exists) /\ LastSo(n, exists) \in Int
      BY <2>1, <2>3 DEF Evidence, LastSo, TypeOK, Status
    <3>3. AnswerAge'
      <4> HIDE DEF exists
      <4>1. now - LastSo(n, exists) <= TTL + HttpTimeout
        BY <3>2 DEF TypeOK
      <4> QED
        BY <2>3, <3>1, <4>1, SayFacts DEF AnswerAge
    <3>4. cache'[n] = [exists |-> exists, at |-> now] /\ \A m \in Name \ {n} : cache'[m] = cache[m]
      <4> HIDE DEF exists
      <4> QED BY <2>3, <3>1 DEF TypeOK
    <3>5. EntryHadEvidence'
      <4> SUFFICES ASSUME NEW m \in Name, cache'[m] # NoEntry
                   PROVE  (IF cache'[m].exists THEN had'[m] ELSE lacked'[m])
                             >= cache'[m].at - HttpTimeout
        BY DEF EntryHadEvidence, LastSo
      <4>1. CASE m = n
        <5> HIDE DEF exists
        <5> QED BY <2>1, <3>1, <3>2, <3>4, <4>1 DEF LastSo
      <4>2. CASE m # n
        BY <2>1, <3>4, <4>2 DEF EntryHadEvidence, LastSo
      <4> QED BY <4>1, <4>2
    <3>6. Evidence'
      BY <2>1, <3>4 DEF Evidence, TypeOK, LastSo
    <3> QED
      BY <3>3, <3>5, <3>6
  <2> QED
    BY <1>4, <2>2, <2>3 DEF Receive
<1>5. ASSUME NEW l \in Lookup, Fail(l)
      PROVE  Evidence' /\ EntryHadEvidence' /\ AnswerAge'
  BY <1>5 DEF Fail, Raise, TypeOK, Evidence, EntryHadEvidence, AnswerAge, LastSo
<1>6. ASSUME (\E n \in Name : Change(n)) \/ Tick
      PROVE  Evidence' /\ EntryHadEvidence' /\ AnswerAge'
  <2>1. Renewed
    BY <1>6, HistoryFacts
  <2>2. UNCHANGED <<cache, pc, name, reply, age>> /\ now' >= now
    BY <1>6 DEF Change, Tick, TypeOK
  <2>3. \A l \in Lookup : pc[l] = "answered" => now' <= reply[l].at + HttpTimeout
    BY <1>6 DEF Change, Tick, Evidence, TypeOK
  <2>4. AnswerAge'
    BY <2>2 DEF AnswerAge
  <2>5. EntryHadEvidence'
    <3> SUFFICES ASSUME NEW n \in Name, cache'[n] # NoEntry
                 PROVE  (IF cache'[n].exists THEN had'[n] ELSE lacked'[n])
                           >= cache'[n].at - HttpTimeout
      BY DEF EntryHadEvidence, LastSo
    <3>1. cache[n] \in [exists : BOOLEAN, at : Nat] /\ cache'[n] = cache[n]
      BY <2>2 DEF TypeOK
    <3>2. LastSo(n, cache[n].exists) >= cache[n].at - HttpTimeout
      BY <2>2, <3>1 DEF EntryHadEvidence
    <3>3. had'[n] >= had[n] /\ lacked'[n] >= lacked[n]
      BY <2>1 DEF Renewed
    <3>4. {had[n], lacked[n], had'[n], lacked'[n]} \subseteq Int
      BY DEF TypeOK
    <3> QED
      BY <3>1, <3>2, <3>3, <3>4 DEF LastSo
  <2>6. Evidence'
    BY <2>1, <2>2, <2>3 DEF Evidence, Renewed, TypeOK
  <2> QED
    BY <2>4, <2>5, <2>6
<1>7. CASE UNCHANGED vars
  BY <1>7 DEF vars, Evidence, EntryHadEvidence, AnswerAge, LastSo
<1> QED
  BY <1>1, <1>2, <1>3, <1>4, <1>5, <1>6, <1>7 DEF Next

\* The invariant of the cache, from which both bounds follow.
THEOREM Invariance == Spec => []IInv
<1>1. Init /\ TypeOK => IInv
  BY EvidenceInitially DEF IInv
<1>2. IInv /\ TypeOK' /\ [Next]_vars => IInv'
  BY EvidenceKept DEF IInv
<1> QED
  BY <1>1, <1>2, TypeCorrect, PTL DEF Spec

\* However many lookups overlap, an entry of the cache was true at most
\* HttpTimeout before the time it is stamped with.
THEOREM CacheFromEvidence == Spec => []EntryHadEvidence
<1>1. IInv => EntryHadEvidence
  BY DEF IInv
<1> QED
  BY <1>1, Invariance, PTL

\* No validation passes or fails a name on an answer that was last right more
\* than TTL + HttpTimeout ago.
THEOREM BoundedAge == Spec => []AnswerAge
<1>1. IInv => AnswerAge
  BY DEF IInv
<1> QED
  BY <1>1, Invariance, PTL

=============================================================================
