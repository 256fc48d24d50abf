---------------------------- MODULE MCSimulation ----------------------------
(* Simulation on small instances: the simulations and fetches are numbers,   *)
(* bounded by MaxSims.                                                       *)
EXTENDS Simulation
=============================================================================
