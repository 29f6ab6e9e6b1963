---------------------------- MODULE MCSimulator -----------------------------
(***************************************************************************)
(* An instance of the simulator: the way in takes up to a step, and is     *)
(* lossy; the gateway and the engine's own hop are fast.                   *)
(***************************************************************************)
EXTENDS Simulator

Lossy == [least |-> 0, draws |-> {0, 1}, drops |-> TRUE]

Fast == [least |-> 0, draws |-> {0}, drops |-> FALSE]

=============================================================================
