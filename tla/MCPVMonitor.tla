---------------------------- MODULE MCPVMonitor ----------------------------
(***************************************************************************)
(* PVMonitor for TLC.  One PV with two subscribers and two signal objects, *)
(* enough for a subscribe that overlaps the destroy of the signal before   *)
(* it; PVs share only the lock, which one PV already contends for.         *)
(***************************************************************************)
EXTENDS PVMonitor, TLC

\* Callbacks, signals and values are only compared with one another.
MCSymmetry == Permutations(Callback) \cup Permutations(Signal) \cup Permutations(Value)

=============================================================================
