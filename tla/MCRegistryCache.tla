-------------------------- MODULE MCRegistryCache --------------------------
(***************************************************************************)
(* RegistryCache for TLC: two lookups that overlap on one name, and the    *)
(* time for an entry to be cached late, to expire and to be cached again.  *)
(***************************************************************************)
EXTENDS RegistryCache, TLC

MCSymmetry == Permutations(Lookup) \cup Permutations(Name)

=============================================================================
