-------------------------- MODULE MCDirectControl --------------------------
(***************************************************************************)
(* DirectControl for TLC.  PV p1 belongs to device d1; PV d1 is a device   *)
(* name too, so that both answers to a set's coordination check occur.     *)
(***************************************************************************)
EXTENDS DirectControl, TLC

CONSTANTS s1, s2, p1, p2, d1

MCSession == {s1, s2}
MCPV == {p1, p2, d1}
MCDevice == {d1}
MCDeviceOf == [p \in MCPV |-> d1]
MCRegistered == {p1, d1}
MCMaxCommands == s1 :> 2 @@ s2 :> 1

Set(n, w, c, f) ==
    [entry |-> "http", kind |-> "set", name |-> n, wait |-> w, complete |-> c, forced |-> f]
Other(e, k) ==
    [entry |-> e, kind |-> k, name |-> d1, wait |-> FALSE, complete |-> FALSE, forced |-> FALSE]
MCCommands ==
    {Set(p1, FALSE, FALSE, FALSE), Set(d1, TRUE, FALSE, FALSE), Set(d1, FALSE, TRUE, FALSE),
     Set(p2, FALSE, FALSE, FALSE), Other("http", "read"), Other("device_socket", "nested")}

=============================================================================
