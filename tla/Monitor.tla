------------------------------ MODULE Monitor ------------------------------
(***************************************************************************)
(* What PVMonitorManager promises its callers (protocols.py, PVMonitor):   *)
(* the abstract specification that PVMonitor implements and that PvSocket  *)
(* is built on.  Locks, signals, dispatcher queues and the IOC are gone;   *)
(* each call takes effect at one instant.  What is left of the IOC is the  *)
(* set of PVs that are owed an update: one is queued, or will be when the  *)
(* IOC is back.                                                            *)
(***************************************************************************)
CONSTANTS PV, Callback, Value, NoCallback, NoValue

VARIABLES
    tracked,      \* PVs with a signal
    callbacks,    \* registered on each PV
    latest,       \* what get_value answers
    owed,         \* PVs whose newest value is still to be delivered
    valueCalls    \* callbacks the dispatcher is calling, with the value

mvars == <<tracked, callbacks, latest, owed, valueCalls>>

TypeInvariant ==
    /\ tracked \subseteq PV
    /\ callbacks \in [PV -> SUBSET Callback]
    /\ latest \in [PV -> Value \cup {NoValue}]
    /\ owed \subseteq tracked
    /\ valueCalls \in [Callback -> Value \cup {NoValue}]

Init ==
    /\ tracked = {}
    /\ callbacks = [p \in PV |-> {}]
    /\ latest = [p \in PV |-> NoValue]
    /\ owed = {}
    /\ valueCalls = [c \in Callback |-> NoValue]

Given(cb) == IF cb = NoCallback THEN {} ELSE {cb}

\* subscribe on a new PV: afterwards the PV is tracked, its first value may be
\* cached already, and an update is owed to whoever registers from now on.
Track(p, cb, v) ==
    /\ p \notin tracked
    /\ tracked' = tracked \cup {p}
    /\ latest' = [latest EXCEPT ![p] = v]
    /\ owed' = owed \cup {p}
    /\ callbacks' = [callbacks EXCEPT ![p] = @ \cup Given(cb)]
    /\ UNCHANGED valueCalls

\* subscribe raises after the signal was recorded: the PV stays tracked.
TrackAndRaise(p, v) ==
    /\ p \notin tracked
    /\ tracked' = tracked \cup {p}
    /\ latest' = [latest EXCEPT ![p] = v]
    /\ owed' \in {owed, owed \cup {p}}
    /\ UNCHANGED <<callbacks, valueCalls>>

\* subscribe on a tracked PV
Join(p, cb) ==
    /\ p \in tracked
    /\ callbacks' = [callbacks EXCEPT ![p] = @ \cup {cb}]
    /\ UNCHANGED <<tracked, latest, owed, valueCalls>>

\* unsubscribe: the last callback takes the PV with it.
Release(p, cb) ==
    LET left == IF cb = NoCallback THEN {} ELSE callbacks[p] \ {cb}
    IN  /\ callbacks' = [callbacks EXCEPT ![p] = left]
        /\ IF left = {} /\ p \in tracked
           THEN /\ tracked' = tracked \ {p}
                /\ latest' = [latest EXCEPT ![p] = NoValue]
                /\ owed' = owed \ {p}
           ELSE UNCHANGED <<tracked, latest, owed>>
        /\ UNCHANGED valueCalls

\* get_value on a tracked PV without a value
ReadValue(p, v) ==
    /\ p \in tracked
    /\ latest[p] = NoValue
    /\ latest' = [latest EXCEPT ![p] = v]
    /\ UNCHANGED <<tracked, callbacks, owed, valueCalls>>

\* A new value at the IOC, or the loss of the IOC: an update is owed.
Owe(p) ==
    /\ p \in tracked
    /\ owed' = owed \cup {p}
    /\ UNCHANGED <<tracked, callbacks, latest, valueCalls>>

\* An update: cache it and take the callbacks to call.
Update(p, v) ==
    /\ p \in tracked
    /\ \A c \in Callback : valueCalls[c] = NoValue
    /\ latest' = [latest EXCEPT ![p] = v]
    /\ owed' \in {owed, owed \ {p}}
    /\ valueCalls' = [c \in Callback |-> IF c \in callbacks[p] THEN v ELSE NoValue]
    /\ UNCHANGED <<tracked, callbacks>>

Call(c) ==
    /\ valueCalls[c] # NoValue
    /\ valueCalls' = [valueCalls EXCEPT ![c] = NoValue]
    /\ UNCHANGED <<tracked, callbacks, latest, owed>>

\* cleanup
Clear ==
    /\ tracked' = {}
    /\ callbacks' = [p \in PV |-> {}]
    /\ latest' = [p \in PV |-> NoValue]
    /\ owed' = {}
    /\ UNCHANGED valueCalls

Next ==
    \/ \E p \in PV :
        \/ \E cb \in Callback \cup {NoCallback} :
            \/ Release(p, cb)
            \/ \E v \in Value \cup {NoValue} : Track(p, cb, v)
        \/ \E v \in Value \cup {NoValue} : TrackAndRaise(p, v)
        \/ \E cb \in Callback : Join(p, cb)
        \/ Owe(p)
        \/ \E v \in Value : ReadValue(p, v) \/ Update(p, v)
    \/ \E c \in Callback : Call(c)
    \/ Clear

Spec == Init /\ [][Next]_mvars

=============================================================================
