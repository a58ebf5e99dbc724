----------------------------- MODULE MCRecorder -----------------------------
(***************************************************************************)
(* Recorder for TLC: who owns which session, and the symmetries that the   *)
(* safety runs use.  Requests of one user are interchangeable.             *)
(***************************************************************************)
EXTENDS Promises, TLC

CONSTANTS u1, u2, s1

OwnEach == [s \in Sessions |-> IF s = s1 THEN u1 ELSE u2]
SameOwner == [s \in Sessions |-> u1]
Interchangeable == Permutations(Slots)
=============================================================================
