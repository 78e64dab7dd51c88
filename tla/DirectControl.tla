--------------------------- MODULE DirectControl ---------------------------
(***************************************************************************)
(* The command path: an HTTP request or a WebSocket message becomes a      *)
(* registry validation, a coordination check with Experiment Execution,    *)
(* and a Channel Access put run by the event loop's thread pool.           *)
(*                                                                         *)
(* A session is one HTTP caller or one WebSocket connection: it sends its  *)
(* next command after the answer to the last (handle_client awaits every   *)
(* handler).  Sessions run concurrently; plans take and release devices at *)
(* any step; the IOC completes a put at any time or never.                 *)
(***************************************************************************)
EXTENDS Naturals, FiniteSets, Sequences

CONSTANTS
    Session,
    PV,
    Device,
    DeviceOf,      \* the device each PV belongs to, as Experiment Execution sees it
    Registered,    \* the names Configuration Service knows
    Commands,      \* the commands sessions may send
    MaxCommands,   \* bound: the commands each session sends
    Workers        \* threads of the loop's default executor

Name == PV \cup Device

\* How a command enters (entry), what it asks (kind) and, for a set, the flags
\* of PVSetRequest: wait, use_complete, and whether ftype is given.
Command ==
    [entry : {"http"}, kind : {"set"}, name : PV,
     wait : BOOLEAN, complete : BOOLEAN, forced : BOOLEAN]
    \cup [entry : {"pv_socket"}, kind : {"set"}, name : PV,
          wait : BOOLEAN, complete : {FALSE}, forced : {FALSE}]
    \cup [entry : {"http"}, kind : {"method", "nested", "read"}, name : Device,
          wait : {FALSE}, complete : {FALSE}, forced : {FALSE}]
    \cup [entry : {"pv_socket"}, kind : {"method"}, name : Device,
          wait : {FALSE}, complete : {FALSE}, forced : {FALSE}]
    \cup [entry : {"device_socket"}, kind : {"method", "nested"}, name : Device,
          wait : {FALSE}, complete : {FALSE}, forced : {FALSE}]

ASSUME DevicesAssumption == DeviceOf \in [PV -> Device]
ASSUME CommandsAssumption == Commands \subseteq Command /\ Commands # {}
ASSUME BoundsAssumption == MaxCommands \in [Session -> Nat] /\ Workers \in Nat \ {0}

Refusal == {"not_found", "not_subscribed", "locked", "unavailable"}
Result == Refusal \cup {"failed", "done"}

VARIABLES
    enforced,    \* settings.coordination_check_enabled
    held,        \* devices held by plans
    pc,          \* where each session's command is
    cmd,         \* the command each session runs, or ran last
    verdict,     \* the status Experiment Execution answered, on its way back
    log,         \* answered commands of each session, with their results
    jobs,        \* sessions whose thread job waits for a worker, in order
    running,     \* sessions whose job a worker runs
    sent,        \* puts in the order they went out on Channel Access
    completed,   \* puts whose processing the IOC has finished
    permitted,   \* history: <<id, name>> Experiment Execution has let through
    heldAll      \* history: the device was held ever since the command was sent

svars == <<pc, cmd, verdict, log, jobs, running>>
vars == <<enforced, held, svars, sent, completed, permitted, heldAll>>

PC == {"idle", "looking", "validating", "checking", "replied",
       "connecting", "putting", "sent", "awaiting"}

\* A command is identified by its session and its number in it.
IdOf(s) == <<s, Len(log[s]) + 1>>
Id == UNION {{s} \X (1 .. MaxCommands[s]) : s \in Session}

\* The puts that have gone out, as identified commands and the names they write.
Put == [id : Id, name : PV]
SentIds == {sent[i].id : i \in DOMAIN sent}

Init ==
    /\ enforced \in BOOLEAN
    /\ held = {}
    /\ pc = [s \in Session |-> "idle"]
    /\ cmd \in [Session -> {CHOOSE c \in Commands : TRUE}]
    /\ verdict = [s \in Session |-> "none"]
    /\ log = [s \in Session |-> <<>>]
    /\ jobs = <<>>
    /\ running = {}
    /\ sent = <<>>
    /\ completed = {}
    /\ permitted = {}
    /\ heldAll = [s \in Session |-> FALSE]

-----------------------------------------------------------------------------
(* Answers: the handler returns, and the session is free to send again.    *)

Answer(s, result) ==
    /\ pc' = [pc EXCEPT ![s] = "idle"]
    /\ log' = [log EXCEPT ![s] = Append(@, [cmd |-> cmd[s], result |-> result])]

\* Mistake: the handler has nothing to answer.
PlaceholderNone(c) == "none"

\* A device method is a placeholder that reports failure; a nested access is
\* one that reports success.  Neither writes anything.
PlaceholderResult(c) == IF c.kind = "method" THEN "failed" ELSE "done"

\* The coroutine goes on without a pause after the check: it hands the first
\* job of a put to the thread pool, or answers a placeholder.
NeedsConnect(c) == c.complete \/ c.forced
Proceed(s) ==
    \/ /\ cmd[s].kind = "set"
       /\ jobs' = Append(jobs, s)
       /\ pc' = [pc EXCEPT ![s] = IF NeedsConnect(cmd[s]) THEN "connecting" ELSE "putting"]
       /\ UNCHANGED log
    \/ /\ cmd[s].kind # "set"
       /\ Answer(s, PlaceholderResult(cmd[s]))
       /\ UNCHANGED jobs

-----------------------------------------------------------------------------
(* Before the put: validation and the coordination check.                  *)

\* The HTTP handlers and the PV socket's set validate the name first; the
\* device socket looks for a subscription; the PV socket's stop does neither.
HttpValidates(c) == c.entry = "http"
PvSocketValidates(c) == c.entry = "pv_socket" /\ c.kind = "set"
DeviceSocketLooksUp(c) == c.entry = "device_socket"

FirstStep(c) ==
    CASE DeviceSocketLooksUp(c) -> "looking"
      [] HttpValidates(c) \/ PvSocketValidates(c) -> "validating"
      [] OTHER -> "checking"

TargetDevice(c) == IF c.kind = "set" THEN DeviceOf[c.name] ELSE c.name

Submit(s, c) ==
    /\ pc[s] = "idle"
    /\ Len(log[s]) < MaxCommands[s]
    /\ cmd' = [cmd EXCEPT ![s] = c]
    /\ pc' = [pc EXCEPT ![s] = FirstStep(c)]
    /\ heldAll' = [heldAll EXCEPT ![s] = TargetDevice(c) \in held]
    /\ UNCHANGED <<enforced, held, verdict, log, jobs, running, sent, completed, permitted>>

LookUp(s) ==
    /\ pc[s] = "looking"
    /\ \/ /\ pc' = [pc EXCEPT ![s] = "checking"]
          /\ UNCHANGED log
       \/ Answer(s, "not_subscribed")
    /\ UNCHANGED <<enforced, held, cmd, verdict, jobs, running, sent, completed, permitted, heldAll>>

\* The Configuration Service confirms only what it knows; a 404, any status
\* that is not expected and a cached 404 count as not found.
Validate(s) ==
    /\ pc[s] = "validating"
    /\ \/ /\ cmd[s].name \in Registered
          /\ pc' = [pc EXCEPT ![s] = "checking"]
          /\ UNCHANGED log
       \/ Answer(s, "not_found")
       \/ Answer(s, "unavailable")
    /\ UNCHANGED <<enforced, held, cmd, verdict, jobs, running, sent, completed, permitted, heldAll>>

\* access_nested_device asks for set, put, write, trigger and stop only.
NeedsCheck(c) == c.kind # "read"

\* No question is asked for a read, nor for anything when the check is disabled.
SkipCheck(s) ==
    /\ pc[s] = "checking"
    /\ ~enforced \/ ~NeedsCheck(cmd[s])
    /\ Proceed(s)
    /\ permitted' = permitted \cup (IF enforced THEN {} ELSE {<<IdOf(s), cmd[s].name>>})
    /\ UNCHANGED <<enforced, held, cmd, verdict, running, sent, completed, heldAll>>

\* Experiment Execution looks the name up.  It knows devices: any other name is
\* a 404, which the client takes for an available device.
Status(n) == IF n \in Device /\ n \in held THEN "locked" ELSE "available"

StatusRead(s) ==
    /\ pc[s] = "checking"
    /\ enforced /\ NeedsCheck(cmd[s])
    /\ verdict' = [verdict EXCEPT ![s] = Status(cmd[s].name)]
    /\ permitted' = permitted \cup
           (IF Status(cmd[s].name) = "available" THEN {<<IdOf(s), cmd[s].name>>} ELSE {})
    /\ pc' = [pc EXCEPT ![s] = "replied"]
    /\ UNCHANGED <<enforced, held, cmd, log, jobs, running, sent, completed, heldAll>>

StatusReturns(s) ==
    /\ pc[s] = "replied"
    /\ \/ /\ verdict[s] = "available"
          /\ Proceed(s)
       \/ /\ verdict[s] = "locked"
          /\ Answer(s, "locked")
          /\ UNCHANGED jobs
    /\ verdict' = [verdict EXCEPT ![s] = "none"]
    /\ UNCHANGED <<enforced, held, cmd, running, sent, completed, permitted, heldAll>>

\* Mistake: the check fails open.
StatusFailsOpen(s) ==
    /\ pc[s] \in {"checking", "replied"}
    /\ enforced /\ NeedsCheck(cmd[s])
    /\ Proceed(s)
    /\ verdict' = [verdict EXCEPT ![s] = "none"]
    /\ UNCHANGED <<enforced, held, cmd, running, sent, completed, permitted, heldAll>>

\* Connection refused, coordination_timeout, an HTTP error or a body that does
\* not parse: the check raises CoordinationCheckError, before or after the
\* status was read.
StatusFails(s) ==
    /\ pc[s] \in {"checking", "replied"}
    /\ enforced /\ NeedsCheck(cmd[s])
    /\ Answer(s, "unavailable")
    /\ verdict' = [verdict EXCEPT ![s] = "none"]
    /\ UNCHANGED <<enforced, held, cmd, jobs, running, sent, completed, permitted, heldAll>>

-----------------------------------------------------------------------------
(* The put: jobs of the thread pool, and the wait for completion.          *)

StartJob ==
    /\ jobs # <<>>
    /\ Cardinality(running) < Workers
    /\ running' = running \cup {Head(jobs)}
    /\ jobs' = Tail(jobs)
    /\ UNCHANGED <<enforced, held, pc, cmd, verdict, log, sent, completed, permitted, heldAll>>

\* Mistake: a connect that takes too long is answered and its thread left running.
ConnectAbandoned(s) ==
    /\ pc[s] = "connecting" /\ s \in running
    /\ \/ /\ running' = running \ {s}
          /\ jobs' = Append(jobs, s)
          /\ pc' = [pc EXCEPT ![s] = "putting"]
          /\ UNCHANGED log
       \/ /\ Answer(s, "failed")
          /\ UNCHANGED <<jobs, running>>
    /\ UNCHANGED <<enforced, held, cmd, verdict, sent, completed, permitted, heldAll>>

\* get_pv(connect=True) returns, connected or not after connection_timeout.
ConnectReturns(s) ==
    /\ pc[s] = "connecting" /\ s \in running
    /\ running' = running \ {s}
    /\ \/ /\ jobs' = Append(jobs, s)
          /\ pc' = [pc EXCEPT ![s] = "putting"]
          /\ UNCHANGED log
       \/ /\ Answer(s, "failed")
          /\ UNCHANGED jobs
    /\ UNCHANGED <<enforced, held, cmd, verdict, sent, completed, permitted, heldAll>>

SendPut(s) ==
    /\ pc[s] = "putting" /\ s \in running
    /\ sent' = Append(sent, [id |-> IdOf(s), name |-> cmd[s].name])
    /\ pc' = [pc EXCEPT ![s] = "sent"]
    /\ UNCHANGED <<enforced, held, cmd, verdict, log, jobs, running, completed, permitted, heldAll>>

\* caput finds no connection, or ca.put raises.
PutFails(s) ==
    /\ pc[s] = "putting" /\ s \in running
    /\ running' = running \ {s}
    /\ Answer(s, "failed")
    /\ UNCHANGED <<enforced, held, cmd, verdict, jobs, sent, completed, permitted, heldAll>>

\* pv.put finds the connection gone: it sends nothing and returns None, which
\* the code does not look at, so the wait for the callback begins all the same.
PutSkipped(s) ==
    /\ pc[s] = "putting" /\ s \in running
    /\ cmd[s].complete /\ ~cmd[s].forced
    /\ running' = running \ {s}
    /\ pc' = [pc EXCEPT ![s] = "awaiting"]
    /\ UNCHANGED <<enforced, held, cmd, verdict, log, jobs, sent, completed, permitted, heldAll>>

\* The thread of a put that waits keeps its worker until the IOC is done or the
\* timeout is over (status -1); any other put returns at once.
Blocks(c) == c.wait /\ ~c.complete

PutReturns(s) ==
    /\ pc[s] = "sent"
    /\ running' = running \ {s}
    /\ \/ /\ Blocks(cmd[s])
          /\ IdOf(s) \in completed
          /\ Answer(s, "done")
       \/ /\ cmd[s].complete
          /\ pc' = [pc EXCEPT ![s] = "awaiting"]
          /\ UNCHANGED log
       \/ /\ ~cmd[s].wait /\ ~cmd[s].complete
          /\ Answer(s, "done")
    /\ UNCHANGED <<enforced, held, cmd, verdict, jobs, sent, completed, permitted, heldAll>>

\* Mistake: a put that times out is sent once more.
PutRetried(s) ==
    /\ pc[s] = "sent"
    /\ Blocks(cmd[s])
    /\ pc' = [pc EXCEPT ![s] = "putting"]
    /\ Len(sent) <= Cardinality(Id)
    /\ UNCHANGED <<enforced, held, cmd, verdict, log, jobs, running, sent, completed,
                   permitted, heldAll>>

\* Mistake: a put that times out is answered 503, as if it had been refused.
PutTimeoutAsRefusal(s) ==
    /\ pc[s] = "sent"
    /\ Blocks(cmd[s])
    /\ running' = running \ {s}
    /\ Answer(s, "unavailable")
    /\ UNCHANGED <<enforced, held, cmd, verdict, jobs, sent, completed, permitted, heldAll>>

PutTimesOut(s) ==
    /\ pc[s] = "sent"
    /\ Blocks(cmd[s])
    /\ running' = running \ {s}
    /\ Answer(s, "failed")
    /\ UNCHANGED <<enforced, held, cmd, verdict, jobs, sent, completed, permitted, heldAll>>

\* Mistake: the Event is shared by all the puts of a session.
CompletedAny(s) == \E id \in completed : id[1] = s

\* The Event of this call is set by the callback of this put alone.
Completed(s) == IdOf(s) \in completed

\* Mistake: the wait for the callback has no timeout.
CallbackReturnsOnly(s) ==
    /\ pc[s] = "awaiting"
    /\ Completed(s)
    /\ Answer(s, "done")
    /\ UNCHANGED <<enforced, held, cmd, verdict, jobs, running, sent, completed, permitted, heldAll>>

CallbackReturns(s) ==
    /\ pc[s] = "awaiting"
    /\ \/ Completed(s) /\ Answer(s, "done")
       \/ Answer(s, "failed")
    /\ UNCHANGED <<enforced, held, cmd, verdict, jobs, running, sent, completed, permitted, heldAll>>

-----------------------------------------------------------------------------
(* The rest of the laboratory.                                             *)

IocCompletes(id) ==
    /\ id \in SentIds \ completed
    /\ completed' = completed \cup {id}
    /\ UNCHANGED <<enforced, held, svars, sent, permitted, heldAll>>

PlanTakes(d) ==
    /\ d \notin held
    /\ held' = held \cup {d}
    /\ UNCHANGED <<enforced, svars, sent, completed, permitted, heldAll>>

PlanReleases(d) ==
    /\ d \in held
    /\ held' = held \ {d}
    /\ heldAll' = [s \in Session |-> heldAll[s] /\ TargetDevice(cmd[s]) # d]
    /\ UNCHANGED <<enforced, svars, sent, completed, permitted>>

-----------------------------------------------------------------------------
Coordinate(s) ==
    LookUp(s) \/ Validate(s) \/ SkipCheck(s)
    \/ StatusRead(s) \/ StatusReturns(s) \/ StatusFails(s)

Execute(s) ==
    ConnectReturns(s) \/ SendPut(s) \/ PutFails(s) \/ PutSkipped(s)
    \/ PutReturns(s) \/ PutTimesOut(s) \/ CallbackReturns(s)

Environment ==
    \/ \E d \in Device : PlanTakes(d) \/ PlanReleases(d)
    \/ \E id \in Id : IocCompletes(id)

Next ==
    \/ \E s \in Session : (\E c \in Commands : Submit(s, c)) \/ Coordinate(s) \/ Execute(s)
    \/ StartJob
    \/ Environment

\* The loop and the pool always get to run, and every wait of a command has a
\* timeout.  Nothing is asked of the plans, of the IOC or of the callers.
Fairness ==
    /\ \A s \in Session : WF_vars(Coordinate(s) \/ Execute(s))
    /\ WF_vars(StartJob)

Spec == Init /\ [][Next]_vars /\ Fairness

-----------------------------------------------------------------------------
(* Properties                                                              *)

Logged == [cmd : Commands, result : Result]

\* Every variable keeps its shape.
TypeOK ==
    /\ enforced \in BOOLEAN
    /\ held \subseteq Device
    /\ pc \in [Session -> PC]
    /\ cmd \in [Session -> Commands]
    /\ verdict \in [Session -> {"none", "available", "locked"}]
    /\ log \in [Session -> Seq(Logged)]
    /\ \A s \in Session : Len(log[s]) <= MaxCommands[s]
    /\ jobs \in Seq(Session)
    /\ running \subseteq Session
    /\ sent \in Seq(Put)
    /\ completed \subseteq Id
    /\ permitted \subseteq Id \X Name
    /\ heldAll \in [Session -> BOOLEAN]

\* A command that was refused (404, 423, 503, not subscribed) has put nothing on
\* the wire, and neither has a read or a placeholder: the check fails closed.
RefusedNeverWrites ==
    \A s \in Session : \A i \in DOMAIN log[s] :
        log[s][i].result \in Refusal \/ log[s][i].cmd.kind # "set" => <<s, i>> \notin SentIds

\* "Put confirmed" is true: a set that is answered with success was sent, and the
\* IOC has finished processing it if the caller asked to wait (wait or
\* use_complete), a late completion of an earlier put never counting for it.
DoneMeansWritten ==
    \A s \in Session : \A i \in DOMAIN log[s] :
        LET c == log[s][i].cmd IN
        c.kind = "set" /\ log[s][i].result = "done" =>
            /\ <<s, i>> \in SentIds
            /\ c.wait \/ c.complete => <<s, i>> \in completed

\* Every job the thread pool holds is the one its session is waiting for, and no
\* session has two: nothing is left running for a command already answered.
JobsHaveOwners ==
    /\ \A i \in DOMAIN jobs : pc[jobs[i]] \in {"connecting", "putting"} /\ jobs[i] \notin running
    /\ \A i, j \in DOMAIN jobs : jobs[i] = jobs[j] => i = j
    /\ \A s \in running : pc[s] \in {"connecting", "putting", "sent"}

\* The puts of one session go out in the order it sent the commands, each once,
\* whatever the thread pool does.
SessionOrder ==
    \A i, j \in DOMAIN sent :
        i < j /\ sent[i].id[1] = sent[j].id[1] => sent[i].id[2] < sent[j].id[2]

\* Every command is answered, though the IOC may never complete a put and
\* Experiment Execution may be silent: a waiting put cannot hold the pool for good.
EveryCommandAnswered == \A s \in Session : pc[s] # "idle" ~> pc[s] = "idle"

\* The gate of A4: every put is covered by a permit for the same command and the
\* same name, given while no plan held that name.
Gate == INSTANCE Coordination WITH
            written <- {<<sent[i].id, sent[i].name>> : i \in DOMAIN sent}
AsksFirst == Gate!Spec

\* README.md:8 "Checks with experiment_execution before any write; returns `423
\* Locked` if a plan holds the device": a set whose device has been held by a
\* plan since before the request is not put on the wire.
HeldDeviceNotWritten ==
    enforced =>
        \A s \in Session :
            pc[s] \in {"sent", "awaiting"} => ~heldAll[s]

=============================================================================
