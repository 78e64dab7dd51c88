-------------------------- MODULE MCLockedSocket ---------------------------
(***************************************************************************)
(* LockedSocket for TLC: two clients and two updates, so that broadcasts   *)
(* overtake each other if they can while a client comes, goes or vanishes. *)
(***************************************************************************)
EXTENDS LockedSocket

=============================================================================
