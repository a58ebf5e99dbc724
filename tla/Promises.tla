------------------------------ MODULE Promises ------------------------------
(***************************************************************************)
(* The abstract specifications that Recorder implements, with the          *)
(* refinement mappings.                                                    *)
(***************************************************************************)
EXTENDS Recorder

(* Where the bot of a session is, by the state of its worker process. *)
Whereabouts ==
  [none |-> "away", joining |-> "coming", ready |-> "in", stopping |-> "in",
   leaving |-> "in", exited |-> "gone"]

Bots == [s \in Sessions |-> Whereabouts[worker[s]]]

Visit == INSTANCE Recording WITH bot <- Bots
Life == INSTANCE SessionLifecycle

(* One visit per session, one capture of it, one transcript from it: whatever
   overlaps, is late or dies (worker_manager.py, runner.py of the worker and
   of the transcriber). *)
OneVisit == Visit!Spec

(* A status only ever moves along the table of session_fsm.py, although it is
   computed from a row that may have been read long before. *)
FollowsTable == Life!Spec

(* As long as nothing crashes, no session is left in a status that only the
   machine can take it out of (the fairness SessionLifecycle asks for). *)
MovesOn == [](faults = 0) => Life!Progress
=============================================================================
