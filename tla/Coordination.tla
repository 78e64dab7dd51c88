---------------------------- MODULE Coordination ----------------------------
(***************************************************************************)
(* What A4 coordination promises: a command writes only under a permit,    *)
(* and a permit for a name is given only while no plan holds that name.    *)
(* The permit is not revoked when a plan takes the device later: the check *)
(* and the write are two steps, and only the first is guarded.             *)
(*                                                                         *)
(* This is the contract of CoordinationClient.check_device_available and   *)
(* of every DeviceController method that calls it.                         *)
(***************************************************************************)
CONSTANTS Id, Name

VARIABLES
    enforced,    \* settings.coordination_check_enabled
    held,        \* names that plans hold
    permitted,   \* <<id, name>>: command id may write name
    written      \* <<id, name>>: command id has written name

vars == <<enforced, held, permitted, written>>

TypeInvariant ==
    /\ enforced \in BOOLEAN
    /\ held \subseteq Name
    /\ permitted \subseteq Id \X Name
    /\ written \subseteq permitted

Init ==
    /\ enforced \in BOOLEAN
    /\ held = {}
    /\ permitted = {}
    /\ written = {}

Hold(n) ==
    /\ held' = held \cup {n}
    /\ UNCHANGED <<enforced, permitted, written>>

Release(n) ==
    /\ held' = held \ {n}
    /\ UNCHANGED <<enforced, permitted, written>>

\* With the check disabled every command is permitted.
Permit(id, n) ==
    /\ enforced => n \notin held
    /\ permitted' = permitted \cup {<<id, n>>}
    /\ UNCHANGED <<enforced, held, written>>

Write(id, n) ==
    /\ <<id, n>> \in permitted \ written
    /\ written' = written \cup {<<id, n>>}
    /\ UNCHANGED <<enforced, held, permitted>>

Next ==
    \/ \E n \in Name : Hold(n) \/ Release(n)
    \/ \E id \in Id, n \in Name : Permit(id, n) \/ Write(id, n)

Spec == Init /\ [][Next]_vars

=============================================================================
