--------------------------- MODULE MeetingWorker ---------------------------
(***************************************************************************)
(* services/meeting_worker/runner.py: one process per session, with the    *)
(* provider behind its contract (shared/contracts/meeting.py).             *)
(*                                                                         *)
(* All workers read session.commands in one consumer group: a command is   *)
(* delivered to one of them, whoever that is.                              *)
(***************************************************************************)
EXTENDS GatewayJobs

Become(s, w) == worker' = [worker EXCEPT ![s] = w]

(* provider.join succeeded, or raised. *)
Join(s) ==
  /\ worker[s] = "joining"
  /\ Become(s, "ready")
  /\ Emit("recording", s)
  /\ UNCHANGED <<rowVars, fileVars, gatewayVars, commands, jobs, watch,
                 transcriber, offered, faults>>

JoinFail(s) ==
  /\ worker[s] = "joining"
  /\ Become(s, "exited")
  /\ watch' = [watch EXCEPT ![s] = {}]
  /\ Emit("failed", s)
  /\ UNCHANGED <<rowVars, fileVars, gatewayVars, commands, jobs,
                 transcriber, offered, faults>>

(* What a provider that has reported ev may still report: each thing once,
   nothing after the end of the meeting or an error. *)
Unreported(left, ev) == IF ev \in {"meeting_ended", "failed"} THEN {} ELSE left \ {ev}

(* _watch_events. *)
Watch(s, ev) ==
  /\ ev \in watch[s]
  /\ watch' = [watch EXCEPT ![s] = Unreported(@, ev)]
  /\ Emit(ev, s)
  /\ UNCHANGED <<rowVars, fileVars, gatewayVars, commands, jobs, worker,
                 transcriber, offered, faults>>

(* The worker of session s is delivered the next command.  A command for
   another session is acknowledged and dropped. *)
TakeCommand(s) ==
  /\ worker[s] = "ready" /\ commands # <<>>
  /\ commands' = Tail(commands)
  /\ worker' = [worker EXCEPT ![s] = CASE Head(commands).sid # s -> "ready"
                                       [] Head(commands) = [sid |-> s, act |-> "stop_recording"] -> "stopping"
                                       [] Head(commands) = [sid |-> s, act |-> "leave"] -> "leaving"]
  /\ UNCHANGED <<rowVars, fileVars, gatewayVars, events, jobs, watch,
                 transcriber, offered, faults>>

(* Mutant: the sink is not finalised. *)
FinalizeNothing(s) == UNCHANGED audio

(* stop_capture of the provider: the frames become the wav file, also if the
   file has been there before. *)
Finalize(s) == audio' = [audio EXCEPT ![s] = "present"]

(* _handle_command, STOP_CAPTURE: the sink is finalised into the wav file. *)
StopCapture(s) ==
  /\ worker[s] = "stopping"
  /\ Finalize(s)
  /\ Become(s, "ready")
  /\ Emit("capture_stopped", s)
  /\ UNCHANGED <<rowVars, transcript, gatewayVars, commands, jobs, watch,
                 transcriber, offered, faults>>

(* _handle_command, LEAVE: the answer is published, then the process ends. *)
Leave(s) ==
  /\ worker[s] = "leaving"
  /\ Become(s, "exited")
  /\ watch' = [watch EXCEPT ![s] = {}]
  /\ Emit("left", s)
  /\ UNCHANGED <<rowVars, fileVars, gatewayVars, commands, jobs,
                 transcriber, offered, faults>>

(* The process dies, or an exception of the provider ends it. *)
WorkerCrash(s) ==
  /\ worker[s] \in Alive
  /\ faults < MaxFaults
  /\ faults' = faults + 1
  /\ Become(s, "exited")
  /\ watch' = [watch EXCEPT ![s] = {}]
  /\ \E w \in Written({s}) :
       audio' = [t \in Sessions |-> IF t \in w THEN "present" ELSE audio[t]]
  /\ UNCHANGED <<rowVars, transcript, gatewayVars, streamVars, transcriber, offered>>
=============================================================================
