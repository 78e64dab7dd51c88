------------------------ MODULE DirectControlProofs ------------------------
(***************************************************************************)
(* Theorems about DirectControl: type correctness, that refusals never     *)
(* write, that success means written, that a session's puts keep their     *)
(* order, that a job of the pool has an owner, and that every put is       *)
(* covered by a permit (the abstract gate Coordination).                   *)
(*                                                                         *)
(* Those about puts are not inductive alone. The strengthening says where a*)
(* command can be when its put is out: the puts of a session are numbered  *)
(* at most as far as its answers, one further only while the current       *)
(* command is "sent" or "awaiting", and a command past the check has a     *)
(* permit.                                                                 *)
(***************************************************************************)
EXTENDS DirectControl, TLAPS

Running(s) == pc[s] \in {"connecting", "putting", "sent", "awaiting"}
Out(s) == pc[s] \in {"sent", "awaiting"}

\* A session with a command under way has a number left for it.
Numbered == \A s \in Session : pc[s] # "idle" => Len(log[s]) < MaxCommands[s]

\* Only a set gets past the check, and only with a permit for its name.
Covered ==
    \A s \in Session :
        /\ Running(s) => cmd[s].kind = "set"
        /\ Running(s) \/ (pc[s] = "replied" /\ verdict[s] = "available")
               => <<IdOf(s), cmd[s].name>> \in permitted

\* A put that went out belongs to an answered command or to the current one, and
\* the IOC completes only puts that went out.
PutsOut ==
    /\ \A i \in DOMAIN sent : \A s \in Session :
           sent[i].id[1] = s =>
               \/ sent[i].id[2] <= Len(log[s])
               \/ sent[i].id[2] = Len(log[s]) + 1 /\ Out(s)
    /\ \A s \in Session : pc[s] = "sent" => IdOf(s) \in SentIds
    /\ completed \subseteq SentIds

\* The strengthening, apart from the types.
Guarded ==
    Numbered /\ Covered /\ PutsOut
    /\ RefusedNeverWrites /\ DoneMeansWritten /\ SessionOrder

IInv == TypeOK /\ Guarded

-----------------------------------------------------------------------------

\* What a session's answer does to the program counters and to the log.
LEMMA AnswerFacts ==
    ASSUME TypeOK, Numbered, NEW s \in Session, NEW r \in Result,
           pc[s] # "idle", Answer(s, r)
    PROVE  /\ pc' \in [Session -> PC]
           /\ log' \in [Session -> Seq(Logged)]
           /\ \A t \in Session : Len(log'[t]) <= MaxCommands[t]
           /\ pc'[s] = "idle"
           /\ Len(log'[s]) = Len(log[s]) + 1
           /\ \A i \in 1 .. Len(log[s]) : log'[s][i] = log[s][i]
           /\ log'[s][Len(log[s]) + 1] = [cmd |-> cmd[s], result |-> r]
           /\ \A t \in Session \ {s} : log'[t] = log[t] /\ pc'[t] = pc[t]
  <1> DEFINE entry == [cmd |-> cmd[s], result |-> r]
  <1>1. /\ pc \in [Session -> PC] /\ cmd \in [Session -> Commands]
        /\ log \in [Session -> Seq(Logged)]
        /\ \A t \in Session : Len(log[t]) <= MaxCommands[t]
        /\ MaxCommands \in [Session -> Nat]
    BY BoundsAssumption DEF TypeOK
  <1>2. /\ pc' = [pc EXCEPT ![s] = "idle"]
        /\ log' = [log EXCEPT ![s] = Append(log[s], entry)]
    BY DEF Answer
  <1>3. entry \in Logged
    BY <1>1 DEF Logged
  <1>4. log[s] \in Seq(Logged)
    BY <1>1
  <1> HIDE DEF entry
  <1>5. /\ Append(log[s], entry) \in Seq(Logged)
        /\ Len(Append(log[s], entry)) = Len(log[s]) + 1
        /\ \A i \in 1 .. Len(log[s]) : Append(log[s], entry)[i] = log[s][i]
        /\ Append(log[s], entry)[Len(log[s]) + 1] = entry
    BY <1>3, <1>4
  <1>6. log'[s] = Append(log[s], entry) /\ \A t \in Session \ {s} : log'[t] = log[t]
    BY <1>1, <1>2
  <1>7. Len(log[s]) + 1 <= MaxCommands[s]
    BY <1>1, <1>4 DEF Numbered
  <1>8. log' \in [Session -> Seq(Logged)]
    BY <1>1, <1>2, <1>5
  <1>9. pc' \in [Session -> PC] /\ pc'[s] = "idle" /\ \A t \in Session \ {s} : pc'[t] = pc[t]
    BY <1>1, <1>2 DEF PC
  <1>10. \A t \in Session : Len(log'[t]) <= MaxCommands[t]
    <2> TAKE t \in Session
    <2>1. CASE t = s
      BY <2>1, <1>5, <1>6, <1>7
    <2>2. CASE t # s
      BY <2>2, <1>1, <1>6
    <2> QED BY <2>1, <2>2
  <1> QED BY <1>5, <1>6, <1>8, <1>9, <1>10 DEF entry


\* An answer preserves the strengthening, provided that a refusal or the answer
\* to anything but a set comes with no put out, and that success on a set comes
\* from a put that is out and, if the caller waits, completed.
LEMMA AnswerStep ==
    ASSUME IInv, NEW s \in Session, NEW r \in Result, pc[s] # "idle", Answer(s, r),
           UNCHANGED <<cmd, sent, completed>>, permitted \subseteq permitted',
           \A t \in Session \ {s} : verdict'[t] = verdict[t],
           r \in Refusal \/ cmd[s].kind # "set" => ~Out(s),
           cmd[s].kind = "set" /\ r = "done" =>
               /\ IdOf(s) \in SentIds
               /\ cmd[s].wait \/ cmd[s].complete => IdOf(s) \in completed
    PROVE  Guarded'
<1>1. /\ pc'[s] = "idle" /\ Len(log'[s]) = Len(log[s]) + 1
      /\ \A i \in 1 .. Len(log[s]) : log'[s][i] = log[s][i]
      /\ log'[s][Len(log[s]) + 1] = [cmd |-> cmd[s], result |-> r]
      /\ \A t \in Session \ {s} : log'[t] = log[t] /\ pc'[t] = pc[t]
      /\ log' \in [Session -> Seq(Logged)]
  BY AnswerFacts DEF IInv, Guarded
<1>2. /\ log \in [Session -> Seq(Logged)] /\ sent \in Seq(Put)
      /\ \A t \in Session : Len(log[t]) \in Nat
      /\ \A i \in DOMAIN sent : sent[i].id[2] \in Nat
  <2>1. \A id \in Id : id[2] \in Nat
    BY BoundsAssumption DEF Id
  <2>2. log \in [Session -> Seq(Logged)] /\ sent \in Seq(Put)
    BY DEF IInv, TypeOK
  <2>3. \A i \in DOMAIN sent : sent[i] \in Put
    BY <2>2
  <2>4. \A i \in DOMAIN sent : sent[i].id \in Id
    BY <2>3 DEF Put
  <2> QED BY <2>1, <2>2, <2>4
<1>3. SentIds' = SentIds
  BY DEF SentIds
<1>4. Numbered'
  BY <1>1 DEF Numbered, IInv, Guarded
<1>5. Covered'
  BY <1>1 DEF Covered, IInv, Guarded, Running, IdOf
<1>6. PutsOut'
  <2>1. ASSUME NEW i \in DOMAIN sent, NEW t \in Session, sent[i].id[1] = t
        PROVE  \/ sent[i].id[2] <= Len(log'[t])
               \/ sent[i].id[2] = Len(log'[t]) + 1 /\ Out(t)'
    <3>1. sent[i].id[2] <= Len(log[t]) \/ (sent[i].id[2] = Len(log[t]) + 1 /\ Out(t))
      BY <2>1 DEF PutsOut, IInv, Guarded
    <3>2. CASE t = s
      BY <3>1, <3>2, <1>1, <1>2
    <3>3. CASE t # s
      BY <3>1, <3>3, <1>1 DEF Out
    <3> QED BY <3>2, <3>3
  <2>2. ASSUME NEW t \in Session, pc'[t] = "sent" PROVE IdOf(t)' \in SentIds'
    <3>1. t # s
      BY <2>2, <1>1
    <3>2. pc[t] = "sent" /\ IdOf(t)' = IdOf(t)
      BY <3>1, <2>2, <1>1 DEF IdOf
    <3> QED BY <3>2, <1>3 DEF PutsOut, IInv, Guarded
  <2>3. completed' \subseteq SentIds'
    BY <1>3 DEF PutsOut, IInv, Guarded
  <2> QED BY <2>1, <2>2, <2>3 DEF PutsOut
<1>7. ~Out(s) => IdOf(s) \notin SentIds
  <2> SUFFICES ASSUME ~Out(s), NEW i \in DOMAIN sent, sent[i].id = IdOf(s) PROVE FALSE
    BY DEF SentIds
  <2>1. sent[i].id[1] = s /\ sent[i].id[2] = Len(log[s]) + 1
    BY DEF IdOf
  <2> QED BY <2>1, <1>2 DEF PutsOut, IInv, Guarded
<1>8. DOMAIN log[s] = 1 .. Len(log[s]) /\ DOMAIN log'[s] = 1 .. Len(log[s]) + 1
  BY <1>1, <1>2
<1>9. \A i \in DOMAIN log'[s] : i \in DOMAIN log[s] \/ i = Len(log[s]) + 1
  BY <1>2, <1>8
<1>10. RefusedNeverWrites'
  <2> SUFFICES ASSUME NEW t \in Session, NEW i \in (DOMAIN log[t])',
                      log'[t][i].result \in Refusal \/ log'[t][i].cmd.kind # "set"
               PROVE  <<t, i>> \notin SentIds
    BY <1>3 DEF RefusedNeverWrites
  <2>1. CASE t # s
    BY <2>1, <1>1 DEF RefusedNeverWrites, IInv, Guarded
  <2>2. CASE t = s /\ i \in DOMAIN log[s]
    BY <2>2, <1>1, <1>8 DEF RefusedNeverWrites, IInv, Guarded
  <2>3. CASE t = s /\ i = Len(log[s]) + 1
    BY <2>3, <1>1, <1>7 DEF IdOf
  <2> QED BY <2>1, <2>2, <2>3, <1>9
<1>11. DoneMeansWritten'
  <2> SUFFICES ASSUME NEW t \in Session, NEW i \in (DOMAIN log[t])',
                      log'[t][i].cmd.kind = "set", log'[t][i].result = "done"
               PROVE  /\ <<t, i>> \in SentIds
                      /\ log'[t][i].cmd.wait \/ log'[t][i].cmd.complete
                             => <<t, i>> \in completed
    BY <1>3 DEF DoneMeansWritten
  <2>1. CASE t # s
    BY <2>1, <1>1 DEF DoneMeansWritten, IInv, Guarded
  <2>2. CASE t = s /\ i \in DOMAIN log[s]
    BY <2>2, <1>1, <1>8 DEF DoneMeansWritten, IInv, Guarded
  <2>3. CASE t = s /\ i = Len(log[s]) + 1
    BY <2>3, <1>1 DEF IdOf, PutsOut, IInv, Guarded
  <2> QED BY <2>1, <2>2, <2>3, <1>9
<1>12. SessionOrder'
  BY DEF SessionOrder, IInv, Guarded
<1> QED BY <1>4, <1>5, <1>6, <1>10, <1>11, <1>12 DEF Guarded

\* A step that moves one session on, with no answer and no put, preserves it if
\* the session goes past the check only with a set that has a permit.
LEMMA MoveStep ==
    ASSUME IInv, NEW s \in Session, NEW place \in PC \ {"idle"},
           pc' = [pc EXCEPT ![s] = place], UNCHANGED <<log, sent>>,
           \A t \in Session \ {s} : cmd'[t] = cmd[t] /\ verdict'[t] = verdict[t],
           UNCHANGED completed, permitted \subseteq permitted',
           Len(log[s]) < MaxCommands[s],
           place # "sent", Out(s) => place = "awaiting",
           Running(s)' => cmd'[s].kind = "set",
           Running(s)' \/ (place = "replied" /\ verdict'[s] = "available")
               => <<IdOf(s), cmd'[s].name>> \in permitted'
    PROVE  Guarded'
<1>1. pc'[s] = place /\ \A t \in Session \ {s} : pc'[t] = pc[t]
  BY DEF IInv, TypeOK
<1>2. /\ \A t \in Session : IdOf(t)' = IdOf(t) /\ (Out(t) => Out(t)')
      /\ \A t \in Session : pc'[t] = "sent" => pc[t] = "sent"
  BY <1>1 DEF IdOf, Out
<1>3. SentIds' = SentIds
  BY DEF SentIds
<1>4. Numbered'
  BY <1>1 DEF Numbered, IInv, Guarded
<1>5. Covered'
  <2> SUFFICES ASSUME NEW t \in Session
               PROVE  /\ Running(t)' => cmd'[t].kind = "set"
                      /\ Running(t)' \/ (pc'[t] = "replied" /\ verdict'[t] = "available")
                             => <<IdOf(t), cmd'[t].name>> \in permitted'
    BY <1>2 DEF Covered
  <2>1. CASE t = s
    BY <2>1, <1>1
  <2>2. CASE t # s
    BY <2>2, <1>1 DEF Covered, Running, IInv, Guarded
  <2> QED BY <2>1, <2>2
<1>6. PutsOut'
  BY <1>2, <1>3 DEF PutsOut, IInv, Guarded
<1>7. RefusedNeverWrites' /\ SessionOrder'
  BY <1>3 DEF RefusedNeverWrites, SessionOrder, IInv, Guarded
<1>8. DoneMeansWritten'
  BY <1>3 DEF DoneMeansWritten, IInv, Guarded
<1> QED BY <1>4, <1>5, <1>6, <1>7, <1>8 DEF Guarded

\* A step of the pool, the IOC or a plan leaves all that the strengthening
\* speaks of, but for the puts completed, of which there may be more.
LEMMA QuietStep ==
    ASSUME IInv, UNCHANGED <<pc, cmd, verdict, log, sent, permitted>>,
           completed \subseteq completed', completed' \subseteq SentIds
    PROVE  Guarded'
<1>1. SentIds' = SentIds /\ \A t \in Session : IdOf(t)' = IdOf(t) /\ (Out(t)' <=> Out(t))
  BY DEF SentIds, IdOf, Out
<1>2. Numbered' /\ Covered' /\ PutsOut'
  BY <1>1 DEF Numbered, Covered, PutsOut, Running, IInv, Guarded
<1>3. RefusedNeverWrites' /\ DoneMeansWritten' /\ SessionOrder'
  BY <1>1 DEF RefusedNeverWrites, DoneMeansWritten, SessionOrder, IInv, Guarded
<1> QED BY <1>2, <1>3 DEF Guarded

LEMMA IdOfType ==
    ASSUME TypeOK, Numbered, NEW s \in Session, pc[s] # "idle"
    PROVE  IdOf(s) \in Id
<1>1. Len(log[s]) \in Nat /\ Len(log[s]) < MaxCommands[s] /\ MaxCommands[s] \in Nat
  BY BoundsAssumption DEF TypeOK, Numbered
<1>2. Len(log[s]) + 1 \in 1 .. MaxCommands[s]
  BY <1>1
<1>3. IdOf(s) \in {s} \X (1 .. MaxCommands[s])
  BY <1>2 DEF IdOf
<1> QED BY <1>3 DEF Id

LEMMA CommandFacts ==
    ASSUME NEW c \in Commands
    PROVE  /\ c.name \in Name
           /\ c.kind = "set" => c.name \in PV
           /\ c.kind # "set" => c.name \in Device
           /\ FirstStep(c) \in {"looking", "validating", "checking"}
           /\ PlaceholderResult(c) \in Result
<1>1. c \in Command
  BY CommandsAssumption
<1>2. c.name \in Name /\ (c.kind = "set" => c.name \in PV) /\ (c.kind # "set" => c.name \in Device)
  BY <1>1 DEF Command, Name
<1>3. FirstStep(c) \in {"looking", "validating", "checking"}
  BY DEF FirstStep
<1>4. PlaceholderResult(c) \in Result
  BY DEF PlaceholderResult, Result
<1> QED BY <1>2, <1>3, <1>4

\* The put that goes out is the next of its session.
LEMMA PutStep ==
    ASSUME IInv, NEW s \in Session, SendPut(s)
    PROVE  Guarded' /\ sent' \in Seq(Put)
<1>1. /\ pc[s] = "putting" /\ pc'[s] = "sent"
      /\ \A t \in Session \ {s} : pc'[t] = pc[t]
      /\ UNCHANGED <<cmd, verdict, log, completed, permitted>>
      /\ sent' = Append(sent, [id |-> IdOf(s), name |-> cmd[s].name])
      /\ sent \in Seq(Put) /\ cmd[s] \in Commands
  BY DEF SendPut, IInv, TypeOK
<1> DEFINE put == [id |-> IdOf(s), name |-> cmd[s].name]
<1>2. put \in Put
  BY <1>1, IdOfType, CommandFacts DEF IInv, Guarded, Put, Covered, Running
<1>3. put.id = IdOf(s) /\ put.id[1] = s /\ put.id[2] = Len(log[s]) + 1
  BY DEF IdOf
<1>4. sent' = Append(sent, put)
  BY <1>1
<1> HIDE DEF put
<1>5. /\ sent' \in Seq(Put)
      /\ DOMAIN sent' = DOMAIN sent \cup {Len(sent) + 1} /\ Len(sent) + 1 \notin DOMAIN sent
      /\ \A i \in DOMAIN sent : sent'[i] = sent[i] /\ i < Len(sent) + 1
      /\ sent'[Len(sent) + 1] = put
      /\ \A i \in DOMAIN sent : i \in Nat
      /\ Len(sent) \in Nat
  BY <1>1, <1>2, <1>4
<1>6. SentIds' = SentIds \cup {IdOf(s)}
  BY <1>5, <1>3 DEF SentIds
<1>7. /\ \A t \in Session : IdOf(t)' = IdOf(t)
      /\ \A t \in Session \ {s} : (Out(t)' <=> Out(t)) /\ (Running(t)' <=> Running(t))
      /\ ~Out(s) /\ Out(s)' /\ Running(s)
  BY <1>1 DEF IdOf, Out, Running
<1>8. \A t \in Session : Len(log[t]) \in Nat
  BY DEF IInv, TypeOK
<1>9. \A i \in DOMAIN sent : sent[i].id[1] = s => sent[i].id[2] <= Len(log[s])
  BY <1>7 DEF PutsOut, IInv, Guarded
<1>10. Numbered'
  BY <1>1 DEF Numbered, IInv, Guarded
<1>11. Covered'
  <2> SUFFICES ASSUME NEW t \in Session
               PROVE  /\ Running(t)' => cmd[t].kind = "set"
                      /\ Running(t)' \/ (pc'[t] = "replied" /\ verdict[t] = "available")
                             => <<IdOf(t), cmd[t].name>> \in permitted
    BY <1>1, <1>7 DEF Covered
  <2>1. CASE t = s
    BY <2>1, <1>1, <1>7 DEF Covered, IInv, Guarded
  <2>2. CASE t # s
    BY <2>2, <1>1, <1>7 DEF Covered, IInv, Guarded
  <2> QED BY <2>1, <2>2
<1>12. PutsOut'
  <2>1. ASSUME NEW i \in DOMAIN sent', NEW t \in Session, sent'[i].id[1] = t
        PROVE  \/ sent'[i].id[2] <= Len(log[t])
               \/ sent'[i].id[2] = Len(log[t]) + 1 /\ Out(t)'
    <3>1. CASE i \in DOMAIN sent
      BY <3>1, <2>1, <1>5, <1>7, <1>9 DEF PutsOut, IInv, Guarded
    <3>2. CASE i = Len(sent) + 1
      BY <3>2, <2>1, <1>3, <1>5, <1>7
    <3> QED BY <3>1, <3>2, <1>5
  <2>2. ASSUME NEW t \in Session, pc'[t] = "sent" PROVE IdOf(t)' \in SentIds'
    BY <2>2, <1>1, <1>6, <1>7 DEF PutsOut, IInv, Guarded
  <2>3. completed' \subseteq SentIds'
    BY <1>1, <1>6 DEF PutsOut, IInv, Guarded
  <2> QED BY <2>1, <2>2, <2>3, <1>1 DEF PutsOut
<1>13. ASSUME NEW t \in Session, NEW i \in DOMAIN log[t] PROVE <<t, i>> # IdOf(s)
  BY <1>13, <1>8 DEF IdOf, IInv, TypeOK
<1>14. RefusedNeverWrites'
  BY <1>1, <1>6, <1>13 DEF RefusedNeverWrites, IInv, Guarded
<1>15. DoneMeansWritten'
  BY <1>1, <1>6 DEF DoneMeansWritten, IInv, Guarded
<1>16. SessionOrder'
  <2> SUFFICES ASSUME NEW i \in DOMAIN sent', NEW j \in DOMAIN sent',
                      i < j, sent'[i].id[1] = sent'[j].id[1]
               PROVE  sent'[i].id[2] < sent'[j].id[2]
    BY DEF SessionOrder
  <2>1. i \in DOMAIN sent
    BY <1>5
  <2>2. CASE j \in DOMAIN sent
    BY <2>1, <2>2, <1>5 DEF SessionOrder, IInv, Guarded
  <2>3. CASE j = Len(sent) + 1
    <3>1. sent[i].id[2] <= Len(log[s])
      BY <2>1, <2>3, <1>3, <1>5, <1>9
    <3>2. sent[i].id[2] \in Nat
      <4>1. sent[i] \in Put
        BY <2>1, <1>1
      <4>2. \A id \in Id : id[2] \in Nat
        BY BoundsAssumption DEF Id
      <4> QED BY <4>1, <4>2 DEF Put
    <3> QED BY <3>1, <3>2, <2>1, <2>3, <1>3, <1>5, <1>8
  <2> QED BY <2>2, <2>3, <1>5
<1> QED BY <1>5, <1>10, <1>11, <1>12, <1>14, <1>15, <1>16 DEF Guarded

-----------------------------------------------------------------------------
(* Every step preserves the types and the strengthening.                   *)

\* Going on after the check, which needs a permit for a set.
LEMMA ProceedStep ==
    ASSUME IInv, NEW s \in Session, pc[s] \in {"checking", "replied"}, Proceed(s),
           UNCHANGED <<cmd, sent, completed>>, permitted \subseteq permitted',
           \A t \in Session \ {s} : verdict'[t] = verdict[t],
           cmd[s].kind = "set" => <<IdOf(s), cmd[s].name>> \in permitted'
    PROVE  /\ Guarded'
           /\ pc' \in [Session -> PC] /\ log' \in [Session -> Seq(Logged)]
           /\ \A t \in Session : Len(log'[t]) <= MaxCommands[t]
           /\ jobs' \in Seq(Session)
<1>1. /\ pc \in [Session -> PC] /\ log \in [Session -> Seq(Logged)] /\ jobs \in Seq(Session)
      /\ \A t \in Session : Len(log[t]) <= MaxCommands[t]
      /\ cmd[s] \in Commands /\ ~Out(s) /\ pc[s] # "idle" /\ Len(log[s]) < MaxCommands[s]
  BY DEF IInv, TypeOK, Guarded, Numbered, Out
<1>2. CASE cmd[s].kind = "set" /\ jobs' = Append(jobs, s) /\ log' = log
           /\ pc' = [pc EXCEPT ![s] = IF NeedsConnect(cmd[s]) THEN "connecting" ELSE "putting"]
  <2> DEFINE place == IF NeedsConnect(cmd[s]) THEN "connecting" ELSE "putting"
  <2>1. place \in PC \ {"idle"} /\ ~(place \in {"sent", "awaiting"}) /\ place # "replied"
    BY DEF PC
  <2>2. pc' = [pc EXCEPT ![s] = place]
    BY <1>2
  <2> HIDE DEF place
  <2>3. Guarded'
    BY <1>1, <1>2, <2>1, <2>2, MoveStep
  <2>4. pc' \in [Session -> PC]
    BY <1>1, <2>1, <2>2
  <2> QED BY <2>3, <2>4, <1>1, <1>2
<1>3. CASE cmd[s].kind # "set" /\ Answer(s, PlaceholderResult(cmd[s])) /\ jobs' = jobs
  <2>1. PlaceholderResult(cmd[s]) \in Result
    BY <1>1, CommandFacts
  <2>2. Guarded'
    BY <1>1, <1>3, <2>1, AnswerStep
  <2> QED BY <1>1, <1>3, <2>1, <2>2, AnswerFacts DEF IInv, Guarded
<1> QED BY <1>2, <1>3 DEF Proceed

LEMMA CoordinateStep ==
    ASSUME IInv, NEW s \in Session, Coordinate(s)
    PROVE  IInv'
<1>1. /\ enforced \in BOOLEAN /\ held \subseteq Device /\ pc \in [Session -> PC]
      /\ cmd \in [Session -> Commands]
      /\ verdict \in [Session -> {"none", "available", "locked"}]
      /\ log \in [Session -> Seq(Logged)]
      /\ \A t \in Session : Len(log[t]) <= MaxCommands[t]
      /\ jobs \in Seq(Session) /\ running \subseteq Session
      /\ sent \in Seq(Put) /\ completed \subseteq Id /\ permitted \subseteq Id \X Name
      /\ heldAll \in [Session -> BOOLEAN]
  BY DEF IInv, TypeOK
<1>2. /\ TypeOK /\ Numbered /\ (pc[s] # "idle" => Len(log[s]) < MaxCommands[s])
      /\ cmd[s] \in Commands
  BY <1>1 DEF IInv, Guarded, Numbered
<1>3. "not_subscribed" \in Result /\ "not_found" \in Result
      /\ "unavailable" \in Result /\ "locked" \in Result
      /\ "checking" \in PC \ {"idle"} /\ "replied" \in PC \ {"idle"}
  BY DEF Result, Refusal, PC
<1>4. CASE LookUp(s)
  <2>1. pc[s] = "looking" /\ ~Out(s) /\ pc[s] # "idle"
        /\ UNCHANGED <<enforced, held, cmd, verdict, jobs, running, sent, completed, permitted, heldAll>>
    BY <1>4 DEF LookUp, Out
  <2>2. CASE pc' = [pc EXCEPT ![s] = "checking"] /\ log' = log
    <3>1. Guarded'
      BY <1>1, <1>2, <1>3, <2>1, <2>2, MoveStep DEF Running
    <3>2. pc' \in [Session -> PC]
      BY <1>1, <1>3, <2>2
    <3> QED BY <1>1, <2>1, <2>2, <3>1, <3>2 DEF IInv, TypeOK
  <2>3. CASE Answer(s, "not_subscribed")
    <3>1. Guarded'
      BY <1>1, <1>2, <1>3, <2>1, <2>3, AnswerStep
    <3> QED BY <1>1, <1>2, <1>3, <2>1, <2>3, <3>1, AnswerFacts DEF IInv, TypeOK
  <2> QED BY <1>4, <2>2, <2>3 DEF LookUp
<1>5. CASE Validate(s)
  <2>1. pc[s] = "validating" /\ ~Out(s) /\ pc[s] # "idle"
        /\ UNCHANGED <<enforced, held, cmd, verdict, jobs, running, sent, completed, permitted, heldAll>>
    BY <1>5 DEF Validate, Out
  <2>2. CASE pc' = [pc EXCEPT ![s] = "checking"] /\ log' = log
    <3>1. Guarded'
      BY <1>1, <1>2, <1>3, <2>1, <2>2, MoveStep DEF Running
    <3>2. pc' \in [Session -> PC]
      BY <1>1, <1>3, <2>2
    <3> QED BY <1>1, <2>1, <2>2, <3>1, <3>2 DEF IInv, TypeOK
  <2>3. ASSUME NEW r \in {"not_found", "unavailable"}, Answer(s, r) PROVE IInv'
    <3>1. r \in Result /\ r # "done"
      BY <1>3
    <3>2. Guarded'
      BY <1>1, <1>2, <2>1, <2>3, <3>1, AnswerStep
    <3> QED BY <1>1, <1>2, <2>1, <2>3, <3>1, <3>2, AnswerFacts DEF IInv, TypeOK
  <2> QED BY <1>5, <2>2, <2>3 DEF Validate
<1>6. CASE SkipCheck(s)
  <2>1. /\ pc[s] = "checking" /\ Proceed(s) /\ (~enforced \/ ~NeedsCheck(cmd[s]))
        /\ permitted' = permitted \cup (IF enforced THEN {} ELSE {<<IdOf(s), cmd[s].name>>})
        /\ UNCHANGED <<enforced, held, cmd, verdict, running, sent, completed, heldAll>>
    BY <1>6 DEF SkipCheck
  <2>2. cmd[s].kind = "set" => <<IdOf(s), cmd[s].name>> \in permitted'
    BY <2>1 DEF NeedsCheck
  <2>3. IdOf(s) \in Id /\ cmd[s].name \in Name
    BY <1>2, <2>1, IdOfType, CommandFacts
  <2>4. permitted' \subseteq Id \X Name /\ permitted \subseteq permitted'
    BY <1>1, <2>1, <2>3
  <2> QED BY <1>1, <2>1, <2>2, <2>4, ProceedStep DEF IInv, TypeOK
<1>7. CASE StatusRead(s)
  <2>1. /\ pc[s] = "checking" /\ pc' = [pc EXCEPT ![s] = "replied"]
        /\ verdict' = [verdict EXCEPT ![s] = Status(cmd[s].name)]
        /\ permitted' = permitted \cup
               (IF Status(cmd[s].name) = "available" THEN {<<IdOf(s), cmd[s].name>>} ELSE {})
        /\ UNCHANGED <<enforced, held, cmd, log, jobs, running, sent, completed, heldAll>>
    BY <1>7 DEF StatusRead
  <2>2. verdict'[s] = Status(cmd[s].name) /\ \A t \in Session \ {s} : verdict'[t] = verdict[t]
    BY <1>1, <2>1
  <2>3. verdict'[s] = "available" => <<IdOf(s), cmd'[s].name>> \in permitted'
    BY <2>1, <2>2
  <2>4. IdOf(s) \in Id /\ cmd[s].name \in Name
    BY <1>2, <2>1, IdOfType, CommandFacts
  <2>5. permitted' \subseteq Id \X Name /\ permitted \subseteq permitted'
    BY <1>1, <2>1, <2>4
  <2>6. verdict' \in [Session -> {"none", "available", "locked"}] /\ pc' \in [Session -> PC]
    BY <1>1, <1>3, <2>1 DEF Status
  <2>7. ~Out(s) /\ ~Running(s)' /\ pc[s] # "idle"
    BY <1>1, <2>1 DEF Out, Running
  <2>8. Guarded'
    BY <1>2, <1>3, <2>1, <2>2, <2>3, <2>5, <2>7, MoveStep
  <2> QED BY <1>1, <2>1, <2>5, <2>6, <2>8 DEF IInv, TypeOK
<1>8. CASE StatusReturns(s)
  <2>1. /\ pc[s] = "replied" /\ ~Out(s) /\ pc[s] # "idle"
        /\ verdict' = [verdict EXCEPT ![s] = "none"]
        /\ UNCHANGED <<enforced, held, cmd, running, sent, completed, permitted, heldAll>>
    BY <1>8 DEF StatusReturns, Out
  <2>2. /\ \A t \in Session \ {s} : verdict'[t] = verdict[t]
        /\ verdict' \in [Session -> {"none", "available", "locked"}]
    BY <1>1, <2>1
  <2>3. CASE verdict[s] = "available" /\ Proceed(s)
    <3>1. <<IdOf(s), cmd[s].name>> \in permitted
      BY <2>1, <2>3 DEF IInv, Guarded, Covered
    <3> QED BY <1>1, <2>1, <2>2, <2>3, <3>1, ProceedStep DEF IInv, TypeOK
  <2>4. CASE Answer(s, "locked") /\ jobs' = jobs
    <3>1. Guarded'
      BY <1>2, <1>3, <2>1, <2>2, <2>4, AnswerStep
    <3> QED BY <1>1, <1>2, <1>3, <2>1, <2>2, <2>4, <3>1, AnswerFacts DEF IInv, TypeOK
  <2> QED BY <1>8, <2>3, <2>4 DEF StatusReturns
<1>9. CASE StatusFails(s)
  <2>1. /\ pc[s] # "idle" /\ ~Out(s) /\ Answer(s, "unavailable")
        /\ verdict' = [verdict EXCEPT ![s] = "none"]
        /\ UNCHANGED <<enforced, held, cmd, jobs, running, sent, completed, permitted, heldAll>>
    BY <1>9 DEF StatusFails, Out
  <2>2. /\ \A t \in Session \ {s} : verdict'[t] = verdict[t]
        /\ verdict' \in [Session -> {"none", "available", "locked"}]
    BY <1>1, <2>1
  <2>3. Guarded'
    BY <1>2, <1>3, <2>1, <2>2, AnswerStep
  <2> QED BY <1>1, <1>2, <1>3, <2>1, <2>2, <2>3, AnswerFacts DEF IInv, TypeOK
<1> QED BY <1>4, <1>5, <1>6, <1>7, <1>8, <1>9 DEF Coordinate

LEMMA ExecuteStep ==
    ASSUME IInv, NEW s \in Session, Execute(s)
    PROVE  IInv'
<1>1. /\ pc \in [Session -> PC] /\ jobs \in Seq(Session) /\ running \subseteq Session
      /\ log \in [Session -> Seq(Logged)]
      /\ \A t \in Session : Len(log[t]) <= MaxCommands[t]
  BY DEF IInv, TypeOK
<1>2. /\ TypeOK /\ Numbered /\ (pc[s] # "idle" => Len(log[s]) < MaxCommands[s])
      /\ (Running(s) => cmd[s].kind = "set" /\ <<IdOf(s), cmd[s].name>> \in permitted)
  BY DEF IInv, Guarded, Numbered, Covered
<1>3. "failed" \in Result \ Refusal /\ "done" \in Result \ Refusal /\ "failed" # "done"
      /\ "putting" \in PC \ {"idle"} /\ "awaiting" \in PC \ {"idle"} /\ "sent" \in PC
  BY DEF Result, Refusal, PC
\* An answer that leaves the rest alone, but for a worker.
<1>4. ASSUME NEW r \in {"failed", "done"}, Running(s), Answer(s, r),
             r = "done" => /\ IdOf(s) \in SentIds
                           /\ cmd[s].wait \/ cmd[s].complete => IdOf(s) \in completed,
             running' \subseteq running, jobs' = jobs,
             UNCHANGED <<enforced, held, cmd, verdict, sent, completed, permitted, heldAll>>
      PROVE  IInv'
  <2>1. r \in Result /\ r \notin Refusal /\ pc[s] # "idle" /\ cmd[s].kind = "set"
    BY <1>2, <1>3, <1>4 DEF Running
  <2>2. Guarded'
    BY <1>4, <2>1, AnswerStep
  <2> QED BY <1>1, <1>2, <1>4, <2>1, <2>2, AnswerFacts DEF IInv, TypeOK
\* A move within the put.
<1>5. ASSUME NEW place \in {"putting", "awaiting"}, Running(s), Out(s) => place = "awaiting",
             pc' = [pc EXCEPT ![s] = place], running' \subseteq running, jobs' \in Seq(Session),
             UNCHANGED <<enforced, held, cmd, verdict, log, sent, completed, permitted, heldAll>>
      PROVE  IInv'
  <2>1. place \in PC \ {"idle"} /\ pc[s] # "idle" /\ place # "replied" /\ place # "sent"
    BY <1>3, <1>5 DEF Running
  <2>2. Guarded'
    BY <1>2, <1>5, <2>1, MoveStep
  <2>3. pc' \in [Session -> PC]
    BY <1>1, <1>5, <2>1
  <2> QED BY <1>1, <1>5, <2>2, <2>3 DEF IInv, TypeOK
<1>6. CASE ConnectReturns(s)
  <2>1. Running(s) /\ ~Out(s) /\ running' \subseteq running
        /\ UNCHANGED <<enforced, held, cmd, verdict, sent, completed, permitted, heldAll>>
    BY <1>6 DEF ConnectReturns, Running, Out
  <2>2. CASE jobs' = Append(jobs, s) /\ log' = log /\ pc' = [pc EXCEPT ![s] = "putting"]
    <3>1. jobs' \in Seq(Session)
      BY <1>1, <2>2
    <3> QED BY <1>5, <2>1, <2>2, <3>1
  <2>3. CASE Answer(s, "failed") /\ jobs' = jobs
    BY <1>4, <1>3, <2>1, <2>3
  <2> QED BY <1>6, <2>2, <2>3 DEF ConnectReturns
<1>7. CASE SendPut(s)
  <2>1. Guarded' /\ sent' \in Seq(Put)
    BY <1>7, PutStep
  <2>2. pc' \in [Session -> PC]
    BY <1>1, <1>3, <1>7 DEF SendPut
  <2> QED BY <1>7, <2>1, <2>2 DEF SendPut, IInv, TypeOK
<1>8. CASE PutFails(s)
  <2>1. Running(s)
    BY <1>8 DEF PutFails, Running
  <2> QED BY <1>4, <1>3, <1>8, <2>1 DEF PutFails
<1>9. CASE PutReturns(s)
  <2>1. Running(s) /\ IdOf(s) \in SentIds /\ running' \subseteq running
        /\ UNCHANGED <<enforced, held, cmd, verdict, jobs, sent, completed, permitted, heldAll>>
    BY <1>9 DEF PutReturns, Running, PutsOut, IInv, Guarded
  <2>2. CASE pc' = [pc EXCEPT ![s] = "awaiting"] /\ log' = log
    BY <1>1, <1>5, <2>1, <2>2
  <2>3. CASE Answer(s, "done") /\ (cmd[s].wait \/ cmd[s].complete => IdOf(s) \in completed)
    BY <1>4, <2>1, <2>3
  <2> QED BY <1>9, <2>2, <2>3 DEF PutReturns, Blocks
<1>10. CASE PutTimesOut(s)
  <2>1. Running(s)
    BY <1>10 DEF PutTimesOut, Running
  <2> QED BY <1>4, <1>3, <1>10, <2>1 DEF PutTimesOut
<1>11. CASE CallbackReturns(s)
  <2>1. Running(s) /\ completed \subseteq SentIds /\ running' \subseteq running
        /\ UNCHANGED <<enforced, held, cmd, verdict, jobs, sent, completed, permitted, heldAll>>
    BY <1>11 DEF CallbackReturns, Running, PutsOut, IInv, Guarded
  <2>2. CASE Completed(s) /\ Answer(s, "done")
    BY <1>4, <2>1, <2>2 DEF Completed
  <2>3. CASE Answer(s, "failed")
    BY <1>4, <1>3, <2>1, <2>3
  <2> QED BY <1>11, <2>2, <2>3 DEF CallbackReturns
<1>12. CASE PutSkipped(s)
  <2>1. Running(s) /\ ~Out(s) /\ running' \subseteq running
    BY <1>12 DEF PutSkipped, Running, Out
  <2> QED BY <1>1, <1>5, <1>12, <2>1 DEF PutSkipped
<1> QED BY <1>6, <1>7, <1>8, <1>9, <1>10, <1>11, <1>12 DEF Execute

LEMMA InitHolds == Init => IInv
<1> SUFFICES ASSUME Init PROVE IInv
  OBVIOUS
<1>1. TypeOK
  <2>1. (CHOOSE c \in Commands : TRUE) \in Commands
    BY CommandsAssumption
  <2>2. cmd \in [Session -> Commands]
    BY <2>1 DEF Init
  <2>3. \A t \in Session : Len(log[t]) = 0 /\ MaxCommands[t] \in Nat
    BY BoundsAssumption DEF Init
  <2> QED BY <2>2, <2>3 DEF Init, TypeOK, PC
<1>2. \A s \in Session : pc[s] = "idle" /\ log[s] = <<>> /\ DOMAIN log[s] = {}
  BY DEF Init
<1>3. SentIds = {} /\ DOMAIN sent = {}
  BY DEF Init, SentIds
<1>4. Numbered /\ Covered /\ PutsOut
  BY <1>2, <1>3 DEF Init, Numbered, Covered, PutsOut, Running, Out
<1>5. RefusedNeverWrites /\ DoneMeansWritten /\ SessionOrder
  BY <1>2, <1>3 DEF RefusedNeverWrites, DoneMeansWritten, SessionOrder
<1> QED BY <1>1, <1>4, <1>5 DEF IInv, Guarded

LEMMA Inductive == IInv /\ [Next]_vars => IInv'
<1> SUFFICES ASSUME IInv, [Next]_vars PROVE IInv'
  OBVIOUS
<1>0. completed \subseteq SentIds
  BY DEF IInv, Guarded, PutsOut
<1>1. ASSUME NEW s \in Session, NEW c \in Commands, Submit(s, c) PROVE IInv'
  <2>1. /\ pc[s] = "idle" /\ Len(log[s]) < MaxCommands[s] /\ ~Out(s)
        /\ cmd' = [cmd EXCEPT ![s] = c] /\ pc' = [pc EXCEPT ![s] = FirstStep(c)]
        /\ heldAll' = [heldAll EXCEPT ![s] = TargetDevice(c) \in held]
        /\ UNCHANGED <<enforced, held, verdict, log, jobs, running, sent, completed, permitted>>
    BY <1>1 DEF Submit, Out
  <2>2. /\ pc \in [Session -> PC] /\ cmd \in [Session -> Commands]
        /\ heldAll \in [Session -> BOOLEAN]
    BY DEF IInv, TypeOK
  <2>3. FirstStep(c) \in PC \ {"idle"} /\ FirstStep(c) \in {"looking", "validating", "checking"}
    BY CommandFacts DEF PC
  <2>4. ~Running(s)' /\ \A t \in Session \ {s} : cmd'[t] = cmd[t]
    BY <2>1, <2>2, <2>3 DEF Running
  <2>5. Guarded'
    BY <2>1, <2>3, <2>4, MoveStep
  <2>6. pc' \in [Session -> PC] /\ cmd' \in [Session -> Commands] /\ heldAll' \in [Session -> BOOLEAN]
    BY <2>1, <2>2, <2>3
  <2> QED BY <2>1, <2>5, <2>6 DEF IInv, TypeOK
<1>2. CASE StartJob
  <2>1. UNCHANGED <<enforced, held, pc, cmd, verdict, log, sent, completed, permitted, heldAll>>
        /\ jobs # <<>> /\ running' = running \cup {Head(jobs)} /\ jobs' = Tail(jobs)
        /\ jobs \in Seq(Session) /\ running \subseteq Session
    BY <1>2 DEF StartJob, IInv, TypeOK
  <2>2. Guarded'
    BY <1>0, <2>1, QuietStep
  <2>3. running' \subseteq Session /\ jobs' \in Seq(Session)
    BY <2>1
  <2> QED BY <2>1, <2>2, <2>3 DEF IInv, TypeOK
<1>3. ASSUME NEW d \in Device, PlanTakes(d) \/ PlanReleases(d) PROVE IInv'
  <2>1. UNCHANGED <<enforced, svars, sent, completed, permitted>> /\ held' \subseteq Device
        /\ heldAll' \in [Session -> BOOLEAN]
    BY <1>3 DEF PlanTakes, PlanReleases, IInv, TypeOK
  <2>2. Guarded'
    BY <1>0, <2>1, QuietStep DEF svars
  <2> QED BY <2>1, <2>2 DEF IInv, TypeOK, svars
<1>4. ASSUME NEW id \in Id, IocCompletes(id) PROVE IInv'
  <2>1. UNCHANGED <<enforced, held, svars, sent, permitted, heldAll>>
        /\ completed' = completed \cup {id} /\ id \in SentIds
    BY <1>4 DEF IocCompletes
  <2>2. Guarded'
    BY <1>0, <2>1, QuietStep DEF svars
  <2> QED BY <2>1, <2>2 DEF IInv, TypeOK, svars
<1>5. CASE UNCHANGED vars
  <2>1. Guarded'
    BY <1>0, <1>5, QuietStep DEF vars, svars
  <2> QED BY <1>5, <2>1 DEF IInv, TypeOK, vars, svars
<1> QED BY <1>1, <1>2, <1>3, <1>4, <1>5, CoordinateStep, ExecuteStep DEF Next, Environment

-----------------------------------------------------------------------------
(* Theorems                                                                *)

LEMMA Invariance == Spec => []IInv
<1> QED BY InitHolds, Inductive, PTL DEF Spec

\* Every variable keeps its shape, for any sessions, devices and commands.
THEOREM TypeCorrect == Spec => []TypeOK
<1>1. IInv => TypeOK
  BY DEF IInv
<1> QED BY <1>1, Invariance, PTL

\* A command that was refused, and anything that is not a set, never has a put
\* out: neither then nor later.
THEOREM FailsClosed == Spec => []RefusedNeverWrites
<1>1. IInv => RefusedNeverWrites
  BY DEF IInv, Guarded
<1> QED BY <1>1, Invariance, PTL

\* A set answered with success was sent, and was completed if the caller waits.
THEOREM SuccessIsTrue == Spec => []DoneMeansWritten
<1>1. IInv => DoneMeansWritten
  BY DEF IInv, Guarded
<1> QED BY <1>1, Invariance, PTL

\* A session's puts go out in the order of its commands, each once.
THEOREM PutsInOrder == Spec => []SessionOrder
<1>1. IInv => SessionOrder
  BY DEF IInv, Guarded
<1> QED BY <1>1, Invariance, PTL

-----------------------------------------------------------------------------
(* The jobs of the thread pool                                             *)

\* A job is of one session: whatever others do, it stays where it is.  A session
\* that has none may get one, and the one that runs may be let go of.
LEMMA JobsStep ==
    ASSUME TypeOK, JobsHaveOwners, NEW s \in Session,
           \A t \in Session \ {s} : pc'[t] = pc[t],
           pc[s] \notin {"connecting", "putting"} \/ s \in running,
           \/ /\ UNCHANGED jobs
              /\ running' \subseteq running
              /\ s \in running' => pc'[s] \in {"connecting", "putting", "sent"}
           \/ /\ jobs' = Append(jobs, s)
              /\ running' = running \ {s}
              /\ pc'[s] \in {"connecting", "putting"}
    PROVE  JobsHaveOwners'
<1>1. jobs \in Seq(Session) /\ \A i \in DOMAIN jobs : jobs[i] \in Session
  BY DEF TypeOK
<1>2. \A i \in DOMAIN jobs : jobs[i] # s
  BY DEF JobsHaveOwners
<1>3. \A t \in running : t \in Session
  BY DEF TypeOK
<1>4. CASE UNCHANGED jobs /\ running' \subseteq running
           /\ (s \in running' => pc'[s] \in {"connecting", "putting", "sent"})
  BY <1>1, <1>2, <1>3, <1>4 DEF JobsHaveOwners
<1>5. CASE jobs' = Append(jobs, s) /\ running' = running \ {s}
           /\ pc'[s] \in {"connecting", "putting"}
  <2>1. /\ DOMAIN jobs' = DOMAIN jobs \cup {Len(jobs) + 1}
        /\ \A i \in DOMAIN jobs : jobs'[i] = jobs[i]
        /\ jobs'[Len(jobs) + 1] = s
    BY <1>1, <1>5
  <2>2. \A i \in DOMAIN jobs' :
            pc'[jobs'[i]] \in {"connecting", "putting"} /\ jobs'[i] \notin running'
    BY <1>1, <1>2, <1>5, <2>1 DEF JobsHaveOwners
  <2>3. \A i, j \in DOMAIN jobs' : jobs'[i] = jobs'[j] => i = j
    BY <1>2, <2>1 DEF JobsHaveOwners
  <2>4. \A t \in running' : pc'[t] \in {"connecting", "putting", "sent"}
    BY <1>3, <1>5 DEF JobsHaveOwners
  <2> QED BY <2>2, <2>3, <2>4 DEF JobsHaveOwners
<1> QED BY <1>4, <1>5

\* The command of one session: a job is handed to the pool by a coroutine that
\* has none there, and taken back by the one that is answered.
LEMMA CommandJobs ==
    ASSUME TypeOK, JobsHaveOwners, NEW s \in Session,
           (\E c \in Commands : Submit(s, c)) \/ Coordinate(s) \/ Execute(s)
    PROVE  JobsHaveOwners'
<1>1. pc \in [Session -> PC] /\ running \subseteq Session
  BY DEF TypeOK
<1>2. \A t \in running : pc[t] \in {"connecting", "putting", "sent"}
  BY DEF JobsHaveOwners
\* Sessions whose command is not with the pool.
<1>3. ASSUME pc[s] \notin {"connecting", "putting", "sent"}, NEW place,
             pc' = [pc EXCEPT ![s] = place], UNCHANGED <<jobs, running>>
      PROVE  JobsHaveOwners'
  BY <1>1, <1>2, <1>3, JobsStep
<1>4. ASSUME pc[s] \notin {"connecting", "putting", "sent"}, Proceed(s), UNCHANGED running
      PROVE  JobsHaveOwners'
  <2>1. CASE UNCHANGED jobs /\ pc' = [pc EXCEPT ![s] = "idle"]
    BY <1>3, <1>4, <2>1
  <2>2. CASE /\ jobs' = Append(jobs, s)
             /\ \/ pc' = [pc EXCEPT ![s] = "connecting"]
                \/ pc' = [pc EXCEPT ![s] = "putting"]
    <3>1. running' = running \ {s}
      BY <1>2, <1>4
    <3> QED BY <1>1, <1>4, <2>2, <3>1, JobsStep
  <2> QED BY <1>4, <2>1, <2>2 DEF Proceed, Answer
<1>5. CASE \E c \in Commands : Submit(s, c)
  BY <1>3, <1>5 DEF Submit
<1>6. CASE Coordinate(s)
  <2>1. CASE LookUp(s) \/ Validate(s) \/ StatusRead(s) \/ StatusFails(s)
    BY <1>3, <2>1 DEF LookUp, Validate, StatusRead, StatusFails, Answer
  <2>2. CASE SkipCheck(s)
    BY <1>4, <2>2 DEF SkipCheck
  <2>3. CASE StatusReturns(s)
    BY <1>3, <1>4, <2>3 DEF StatusReturns, Answer
  <2> QED BY <1>6, <2>1, <2>2, <2>3 DEF Coordinate
<1>7. CASE Execute(s)
  <2>1. CASE ConnectReturns(s)
    <3>1. /\ pc[s] = "connecting" /\ s \in running /\ running' = running \ {s}
          /\ \/ jobs' = Append(jobs, s) /\ pc' = [pc EXCEPT ![s] = "putting"]
             \/ UNCHANGED jobs /\ pc' = [pc EXCEPT ![s] = "idle"]
      BY <2>1 DEF ConnectReturns, Answer
    <3> QED BY <1>1, <3>1, JobsStep
  <2>2. CASE SendPut(s)
    BY <1>1, <2>2, JobsStep DEF SendPut
  <2>3. CASE PutFails(s) \/ PutSkipped(s)
    <3>1. /\ s \in running /\ running' = running \ {s} /\ UNCHANGED jobs
          /\ \A t \in Session \ {s} : pc'[t] = pc[t]
      BY <1>1, <2>3 DEF PutFails, PutSkipped, Answer
    <3> QED BY <3>1, JobsStep
  <2>4. CASE PutReturns(s) \/ PutTimesOut(s)
    <3>1. /\ pc[s] = "sent" /\ running' = running \ {s} /\ UNCHANGED jobs
          /\ \A t \in Session \ {s} : pc'[t] = pc[t]
      BY <1>1, <2>4 DEF PutReturns, PutTimesOut, Answer
    <3> QED BY <3>1, JobsStep
  <2>5. CASE CallbackReturns(s)
    BY <1>3, <2>5 DEF CallbackReturns, Answer
  <2> QED BY <1>7, <2>1, <2>2, <2>3, <2>4, <2>5 DEF Execute
<1> QED BY <1>5, <1>6, <1>7

\* A worker takes the oldest job, which no other has taken.
LEMMA StartJobStep ==
    ASSUME TypeOK, JobsHaveOwners, StartJob
    PROVE  JobsHaveOwners'
<1>1. /\ jobs \in Seq(Session) /\ jobs # <<>>
      /\ jobs' = Tail(jobs) /\ running' = running \cup {Head(jobs)} /\ UNCHANGED pc
  BY DEF TypeOK, StartJob
<1>2. /\ DOMAIN jobs = 1 .. Len(jobs) /\ Len(jobs) \in Nat \ {0} /\ Head(jobs) = jobs[1]
      /\ DOMAIN jobs' = 1 .. Len(jobs) - 1
      /\ \A i \in 1 .. Len(jobs) - 1 : jobs'[i] = jobs[i + 1]
  BY <1>1
<1>3. \A i \in DOMAIN jobs' : i + 1 \in DOMAIN jobs /\ i + 1 # 1 /\ 1 \in DOMAIN jobs
  BY <1>2
<1>4. \A i \in DOMAIN jobs' :
          pc[jobs'[i]] \in {"connecting", "putting"} /\ jobs'[i] \notin running'
  BY <1>1, <1>2, <1>3 DEF JobsHaveOwners
<1>5. ASSUME NEW i \in DOMAIN jobs', NEW j \in DOMAIN jobs', jobs'[i] = jobs'[j] PROVE i = j
  <2>1. i + 1 = j + 1
    BY <1>2, <1>3, <1>5 DEF JobsHaveOwners
  <2> QED BY <1>2, <2>1
<1>6. \A s \in running' : pc[s] \in {"connecting", "putting", "sent"}
  BY <1>1, <1>2 DEF JobsHaveOwners
<1> QED BY <1>1, <1>4, <1>5, <1>6 DEF JobsHaveOwners

\* A thread of the default executor runs for the put that its coroutine awaits
\* and for nothing else (device_controller.py): an answered command leaves no
\* job behind, waiting or running, and no command has two.
THEOREM NoJobOrphaned == Spec => []JobsHaveOwners
<1>1. Init => JobsHaveOwners
  BY DEF Init, JobsHaveOwners
<1>2. TypeOK /\ JobsHaveOwners /\ [Next]_vars => JobsHaveOwners'
  <2> SUFFICES ASSUME TypeOK, JobsHaveOwners, [Next]_vars PROVE JobsHaveOwners'
    OBVIOUS
  <2>1. ASSUME NEW s \in Session,
               (\E c \in Commands : Submit(s, c)) \/ Coordinate(s) \/ Execute(s)
        PROVE  JobsHaveOwners'
    BY <2>1, CommandJobs
  <2>2. CASE StartJob
    BY <2>2, StartJobStep
  <2>3. CASE Environment \/ UNCHANGED vars
    <3>1. UNCHANGED <<pc, jobs, running>>
      BY <2>3 DEF Environment, PlanTakes, PlanReleases, IocCompletes, vars, svars
    <3> QED BY <3>1 DEF JobsHaveOwners
  <2> QED BY <2>1, <2>2, <2>3 DEF Next
<1> QED BY <1>1, <1>2, TypeCorrect, PTL DEF Spec

-----------------------------------------------------------------------------
(* Refinement: the command path implements the gate.                       *)

Written == {<<sent[i].id, sent[i].name>> : i \in DOMAIN sent}

\* Every step of the service is a permit, a write, a plan's step or no step.
LEMMA GateStep ==
    ASSUME IInv, [Next]_vars
    PROVE  [Gate!Next]_(Gate!vars)
<1>0. (sent' = sent) => (Written' = Written)
  BY DEF Written
<1>1. ASSUME UNCHANGED <<enforced, held, permitted, sent>> PROVE UNCHANGED Gate!vars
  BY <1>1 DEF Gate!vars
<1>2. ASSUME NEW s \in Session, Coordinate(s) PROVE [Gate!Next]_(Gate!vars)
  <2>1. TypeOK /\ Numbered /\ cmd[s] \in Commands
    BY DEF IInv, Guarded, TypeOK
  <2>2. ASSUME pc[s] # "idle", enforced => cmd[s].name \notin held,
               permitted' = permitted \cup {<<IdOf(s), cmd[s].name>>},
               UNCHANGED <<enforced, held, sent>>
        PROVE  Gate!Next
    <3>1. IdOf(s) \in Id /\ cmd[s].name \in Name
      BY <2>1, <2>2, IdOfType, CommandFacts
    <3>2. Gate!Permit(IdOf(s), cmd[s].name)
      BY <2>2 DEF Gate!Permit
    <3> QED BY <3>1, <3>2 DEF Gate!Next
  <2>3. CASE LookUp(s) \/ Validate(s) \/ StatusReturns(s) \/ StatusFails(s)
    BY <2>3, <1>1 DEF LookUp, Validate, StatusReturns, StatusFails
  <2>4. CASE SkipCheck(s)
    <3>1. CASE enforced
      BY <3>1, <2>4, <1>1 DEF SkipCheck
    <3>2. CASE ~enforced
      BY <3>2, <2>4, <2>2 DEF SkipCheck
    <3> QED BY <3>1, <3>2
  <2>5. CASE StatusRead(s)
    <3>1. CASE Status(cmd[s].name) = "available"
      <4>1. cmd[s].name \notin held
        BY <3>1 DEF Status, IInv, TypeOK
      <4> QED BY <3>1, <4>1, <2>5, <2>2 DEF StatusRead
    <3>2. CASE Status(cmd[s].name) # "available"
      BY <3>2, <2>5, <1>1 DEF StatusRead
    <3> QED BY <3>1, <3>2
  <2> QED BY <1>2, <2>3, <2>4, <2>5 DEF Coordinate
<1>3. ASSUME NEW s \in Session, SendPut(s) PROVE Gate!Next
  <2> DEFINE put == [id |-> IdOf(s), name |-> cmd[s].name]
  <2>1. /\ pc[s] = "putting" /\ sent' = Append(sent, put)
        /\ UNCHANGED <<enforced, held, permitted>>
        /\ TypeOK /\ Numbered /\ sent \in Seq(Put) /\ cmd[s] \in Commands
        /\ <<IdOf(s), cmd[s].name>> \in permitted
    BY <1>3 DEF SendPut, IInv, Guarded, TypeOK, Covered, Running
  <2>2. IdOf(s) \in Id /\ cmd[s].name \in Name
    BY <2>1, IdOfType, CommandFacts
  <2>3. put \in Put /\ put.id = IdOf(s) /\ put.name = cmd[s].name
    BY <2>1, <2>2, CommandFacts DEF Put, IInv, Guarded, Covered, Running
  <2> HIDE DEF put
  <2>4. /\ DOMAIN sent' = DOMAIN sent \cup {Len(sent) + 1}
        /\ \A i \in DOMAIN sent : sent'[i] = sent[i]
        /\ sent'[Len(sent) + 1] = put
    BY <2>1, <2>3
  <2>5. Written' = Written \cup {<<IdOf(s), cmd[s].name>>}
    BY <2>3, <2>4 DEF Written
  <2>6. <<IdOf(s), cmd[s].name>> \notin Written
    <3> SUFFICES ASSUME NEW i \in DOMAIN sent, sent[i].id = IdOf(s) PROVE FALSE
      BY DEF Written
    <3>1. sent[i].id[1] = s /\ sent[i].id[2] = Len(log[s]) + 1 /\ Len(log[s]) \in Nat
      BY <2>1 DEF IdOf, TypeOK
    <3> QED BY <3>1, <2>1 DEF PutsOut, Out, IInv, Guarded
  <2>7. Gate!Write(IdOf(s), cmd[s].name)
    BY <2>1, <2>5, <2>6 DEF Gate!Write, Written
  <2>8. \E id \in Id, n \in Name : Gate!Write(id, n)
    <3>1. PICK id \in Id, n \in Name : id = IdOf(s) /\ n = cmd[s].name
      BY <2>2
    <3>2. Gate!Write(id, n)
      BY <2>7, <3>1 DEF Gate!Write
    <3> QED BY <3>2
  <2> QED BY <2>8 DEF Gate!Next
<1>4. ASSUME NEW s \in Session, Execute(s) PROVE [Gate!Next]_(Gate!vars)
  BY <1>4, <1>1, <1>3 DEF Execute, ConnectReturns, PutFails, PutSkipped, PutReturns, PutTimesOut, CallbackReturns
<1>5. ASSUME NEW d \in Device, PlanTakes(d) PROVE Gate!Next
  <2>1. Gate!Hold(d) /\ d \in Name
    BY <1>5, <1>0 DEF PlanTakes, Gate!Hold, Name, Written
  <2> QED BY <2>1 DEF Gate!Next
<1>6. ASSUME NEW d \in Device, PlanReleases(d) PROVE Gate!Next
  <2>1. Gate!Release(d) /\ d \in Name
    BY <1>6, <1>0 DEF PlanReleases, Gate!Release, Name, Written
  <2> QED BY <2>1 DEF Gate!Next
<1>7. ASSUME NEW s \in Session, NEW c \in Commands, Submit(s, c) PROVE UNCHANGED Gate!vars
  BY <1>7, <1>1 DEF Submit
<1>8. CASE StartJob
  BY <1>8, <1>1 DEF StartJob
<1>9. ASSUME NEW id \in Id, IocCompletes(id) PROVE UNCHANGED Gate!vars
  BY <1>9, <1>1 DEF IocCompletes
<1>10. CASE UNCHANGED vars
  BY <1>10, <1>1 DEF vars
<1> QED BY <1>2, <1>4, <1>5, <1>6, <1>7, <1>8, <1>9, <1>10 DEF Next, Environment

\* Whatever the sessions, the pool and the plans do, the command path behaves as
\* the gate of A4: no put without a permit for its command and its name.
THEOREM ImplementsGate == Spec => AsksFirst
<1>1. Init => Gate!Init
  BY DEF Init, Gate!Init
<1> QED BY <1>1, Invariance, GateStep, PTL DEF Spec, AsksFirst, Gate!Spec

=============================================================================
