----------------------------- MODULE MCPvSocket -----------------------------
(***************************************************************************)
(* PvSocket for TLC: two clients, so that one joins, leaves or fails while *)
(* the other subscribes; two closures per PV, so that a new first client   *)
(* overlaps the teardown for the last one.  For the cap, one client        *)
(* subscribes to batches of two PVs as well.                               *)
(***************************************************************************)
EXTENDS PvSocket, TLC

MCSymmetry == Permutations(Client) \cup Permutations(Copy)

First == CHOOSE p \in PV : TRUE

Untouched(p) ==
    /\ p \notin tracked
    /\ current[p] = 1
    /\ \A c \in Client :
        /\ p \notin subscriptions[c] \cup probing[c]
        /\ seen[c][p] = NoValue
        /\ \A cb \in toUnsubscribe[c] : PvOf(cb) # p
    /\ \A x \in broadcasts : x[1] # p
    /\ \A x \in outbox : x[2] # p

\* One client, and nothing for the dispatcher to call.
Batches ==
    /\ Cardinality({c \in Client : phase[c] # "new"}) <= 1
    /\ \A p \in PV : current[p] = 1
    /\ broadcasts = {} /\ outbox = {}
    /\ \A cb \in Callback : valueCalls[cb] = NoValue

\* Bound: two clients at one PV, or one client at any of them.  No step of a
\* handler is refused by it, so the fairness of Spec is kept.
MCBound == Batches \/ \A p \in PV \ {First} : Untouched(p)

MCSpec == Init /\ [][Next /\ MCBound']_vars /\ Fairness

=============================================================================
