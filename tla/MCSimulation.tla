---------------------------- MODULE MCSimulation ----------------------------
(***************************************************************************)
(* Simulation for TLC.                                                     *)
(***************************************************************************)
EXTENDS Simulation, TLC

CONSTANTS u1, s1

SameOwner == [s \in Sessions |-> u1]
Interchangeable == Permutations(Slots)
=============================================================================
