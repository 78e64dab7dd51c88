--------------------------- MODULE MCDeviceSocket ---------------------------
(***************************************************************************)
(* DeviceSocket for TLC: a device with one PV and one with two, or two     *)
(* that share their PV.                                                    *)
(***************************************************************************)
EXTENDS DeviceSocket, TLC

CONSTANTS one, two, p1, p2, p3

MCPvs == (one :> {p1}) @@ (two :> {p2, p3})

MCSharedPvs == (one :> {p1}) @@ (two :> {p1})

MCSymmetry == Permutations(Client) \cup Permutations(Copy) \cup Permutations({p2, p3})

Untouched(d) ==
    /\ \A p \in Pvs[d] : p \notin tracked /\ current[p] = 1
    /\ \A c \in Client : \A r \in opening[c] : r[1] # d
    /\ deviceClients[d] = {}
    /\ \A c \in Client, s \in Signal : s[1] = d => seen[c][s] = NoValue
    /\ \A x \in broadcasts : x[1][1] # d
    /\ \A x \in outbox : x[2][1] # d
    /\ \A cb \in Callback : DeviceOf(cb) = d =>
        /\ valueCalls[cb] = NoValue
        /\ \A c \in Client : cb \notin toUnsubscribe[c]

Steady == \A p \in PV : current[p] = 1

Alone == Cardinality({c \in Client : phase[c] # "new"}) <= 1

\* Two clients share the device, and neither fails or leaves.
Joining ==
    /\ lost = {}
    /\ \A c \in Client : phase[c] # "left" /\ toUnsubscribe[c] = {}
    /\ \A c \in Client : asking[c] \cup opening[c] \subseteq {<<one, FALSE>>}
    /\ connections = {c \in Client : phase[c] = "open"}

\* Bound: all the clients are at the device with one PV, and join or leave it
\* while others subscribe, its value changing under one client or under clients
\* that join; or one client is at the device with two PVs, of which one may fail.
MCBound ==
    \/ Untouched(two) /\ (Steady \/ Alone \/ Joining)
    \/ Untouched(one) /\ Steady /\ Alone

=============================================================================
