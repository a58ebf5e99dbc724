--------------------------- MODULE SessionService ---------------------------
(***************************************************************************)
(* services/gateway/services/session_service.py and worker_manager.py: the *)
(* requests the HTTP router of the gateway serves, each in a coroutine     *)
(* p \in Slots, with SIMULATE_MEETING and SIMULATE_TRANSCRIPTION off.      *)
(*                                                                         *)
(* A request the code refuses without changing anything (403, 404, 409 and *)
(* the 400 of cancel) is a stuttering step and has no disjunct here.  Two  *)
(* requests change something before they are refused: delete_recording     *)
(* unlinks the file, and retain_audio stores audio_expires_at, before the  *)
(* status is looked at.                                                    *)
(***************************************************************************)
EXTENDS RecorderState

Active(s) == status[s] \notin Terminal \cup {"absent"}

(* create_session up to the INSERT: the user may have no active session.
   The rows it looks at are read before the new one is committed. *)
CreateCheck(p, s, mode) ==
  /\ At(p, "idle")
  /\ status[s] = "absent" /\ ~InFlight(s)     \* s is the fresh uuid
  /\ \A t \in Sessions : Owner[t] = Owner[s] => ~Active(t)
  /\ Goto(p, Frame("insert", mode, s))
  /\ UNCHANGED <<rowVars, fileVars, overdue, armed, signal, streamVars, workerVars,
                 transcriber, offered, faults>>

CreateInsert(p) ==
  LET s == frame[p].sid
      mode == frame[p].act
  IN /\ At(p, "insert")
     /\ IF mode = "now"
          THEN /\ status' = [status EXCEPT ![s] = "queued"]
               /\ Goto(p, Frame("commit", "start_join", s))
          ELSE /\ status' = [status EXCEPT ![s] = "scheduled"]
               /\ Goto(p, Frame("arm", mode, s))
     /\ UNCHANGED <<deletedAt, expires, fileVars, overdue, armed, signal, streamVars,
                    workerVars, transcriber, offered, faults>>

(* The date is checked when the row is already committed: a date in the past
   is answered with 400 and leaves the row as it is. *)
CreateArm(p) ==
  LET s == frame[p].sid
  IN /\ At(p, "arm")
     /\ armed' = IF frame[p].act = "future" THEN armed \cup {s} ELSE armed
     /\ Finish(p)
     /\ UNCHANGED <<rowVars, fileVars, overdue, signal, streamVars, workerVars,
                    transcriber, offered, faults>>

-----------------------------------------------------------------------------
(* decline_leave, transcribe and decline_transcribe: read the row, let
   apply_transition judge what was read, go on to the commit. *)
RequestTransition(p, s, act) ==
  /\ At(p, "idle") /\ Quiet
  /\ act \in {"decline_leave", "confirm_transcribe", "decline_transcribe"}
  /\ Applies(status[s], act)
  /\ Goto(p, Frame("commit", act, s))
  /\ UNCHANGED <<rowVars, fileVars, overdue, armed, signal, streamVars, workerVars,
                 transcriber, offered, faults>>

(* cancel_scheduled removes the join job before it commits. *)
RequestCancel(p, s) ==
  /\ At(p, "idle")
  /\ Applies(status[s], "cancel")
  /\ armed' = armed \ {s}
  /\ Goto(p, Frame("commit", "cancel", s))
  /\ UNCHANGED <<rowVars, fileVars, overdue, signal, streamVars, workerVars,
                 transcriber, offered, faults>>

(* Mutant: the Events are not kept per session. *)
WaitingAnywhere(q, act, s) == At(q, "await") /\ frame[q].act = act

(* Coroutine q waits for the current Event of act and session s. *)
Waiting(q, act, s) == frame[q] = Frame("await", act, s)

(* stop_recording and leave reach the worker when the row read allows them.
   send_stop_capture / send_leave install a fresh Event: whoever still waits
   for the one it replaces can only time out. *)
RequestSend(p, s, act) ==
  /\ At(p, "idle") /\ Quiet
  /\ act \in Handshake
  /\ Applies(status[s], act)
  /\ signal' = [signal EXCEPT ![s] = @ \ {act}]
  /\ frame' = [q \in Procs |->
                 IF q = p THEN Frame("publish", act, s)
                 ELSE IF Waiting(q, act, s) THEN Frame("orphan", act, s)
                 ELSE frame[q]]
  /\ UNCHANGED <<rowVars, fileVars, overdue, armed, streamVars, workerVars,
                 transcriber, offered, faults>>

Publish(p) ==
  LET s == frame[p].sid
      act == frame[p].act
  IN /\ At(p, "publish")
     /\ commands' = Append(commands, [sid |-> s, act |-> act])
     /\ Goto(p, Frame("lookup", act, s))
     /\ UNCHANGED <<rowVars, fileVars, overdue, armed, signal, events, jobs, workerVars,
                    transcriber, offered, faults>>

(* Mutant: every request stops the process. *)
WokenReaps(act, s) == Frame("reap", act, s)

(* What a coroutine does when the Event it waits for is set: leave stops the
   process first. *)
Woken(act, s) == Frame(IF act = "leave" THEN "reap" ELSE "commit", act, s)

(* The Event to wait for is looked up after the XADD has been awaited: it is
   the current one, and may be set already. *)
Lookup(p) ==
  LET s == frame[p].sid
      act == frame[p].act
  IN /\ At(p, "lookup")
     /\ Goto(p, IF act \in signal[s] THEN Woken(act, s) ELSE Frame("await", act, s))
     /\ UNCHANGED <<rowVars, fileVars, overdue, armed, signal, streamVars, workerVars,
                    transcriber, offered, faults>>

(* Mutants: a timeout counts as the answer; only replaced Events time out. *)
TimeoutAnswers(p) ==
  /\ frame[p].pc \in {"await", "orphan"}
  /\ Goto(p, Frame("commit", frame[p].act, frame[p].sid))
  /\ UNCHANGED <<rowVars, fileVars, overdue, armed, signal, streamVars, workerVars,
                 transcriber, offered, faults>>
TimeoutOfReplaced(p) ==
  /\ At(p, "orphan")
  /\ Finish(p)
  /\ UNCHANGED <<rowVars, fileVars, overdue, armed, signal, streamVars, workerVars,
                 transcriber, offered, faults>>

(* wait_for gives up: an error 500, and nothing is committed. *)
Timeout(p) ==
  /\ frame[p].pc \in {"await", "orphan"}
  /\ Finish(p)
  /\ UNCHANGED <<rowVars, fileVars, overdue, armed, signal, streamVars, workerVars,
                 transcriber, offered, faults>>

(* stop_process, then the transition. *)
Reap(p) ==
  LET s == frame[p].sid
  IN /\ At(p, "reap")
     /\ worker' = [worker EXCEPT ![s] = IF @ \in Alive THEN "exited" ELSE @]
     /\ watch' = [watch EXCEPT ![s] = {}]
     /\ Goto(p, Frame("commit", "leave", s))
     /\ UNCHANGED <<rowVars, fileVars, overdue, armed, signal, streamVars,
                    transcriber, offered, faults>>

-----------------------------------------------------------------------------
(* The keyboard with "delete" and "keep" is sent after decline_transcribe, by
   the listener with the transcript, and by the bot when its polling for the
   transcript ends. *)
Deletable == offered \cup {s \in Sessions : transcript[s]}

RequestDelete(p, s) ==
  /\ At(p, "idle")
  /\ s \in Deletable
  /\ Unlink(s)
  /\ frame' = [frame EXCEPT ![p] = IF Applies(status[s], "delete_audio")
                                     THEN Frame("commit", "delete_audio", s) ELSE @]
  /\ UNCHANGED <<rowVars, transcript, overdue, armed, signal, streamVars, workerVars,
                 transcriber, offered, faults>>

(* The record retain_audio has read decides whether the transition will be
   refused; the expiry is committed either way. *)
RequestRetain(p, s) ==
  /\ At(p, "idle")
  /\ s \in Deletable
  /\ Goto(p, Frame("expire", IF Applies(status[s], "retain_audio")
                               THEN "retain_audio" ELSE "none", s))
  /\ UNCHANGED <<rowVars, fileVars, overdue, armed, signal, streamVars, workerVars,
                 transcriber, offered, faults>>

(* Commit of audio_expires_at.  The followup job refreshes its record after
   it, the request does not. *)
ExpireCommit(p) ==
  LET s == frame[p].sid
      act == frame[p].act
  IN /\ At(p, "expire")
     /\ expires' = [expires EXCEPT ![s] = TRUE]
     /\ Goto(p, CASE p = Followup -> Frame("reload", "retain_audio", s)
                  [] p # Followup /\ act = "none" -> IdleFrame
                  [] p # Followup /\ act # "none" -> Frame("commit", act, s))
     /\ UNCHANGED <<status, deletedAt, fileVars, overdue, armed, signal, streamVars,
                    workerVars, transcriber, offered, faults>>

-----------------------------------------------------------------------------
Rest(p) == IF p = Followup /\ overdue # {} THEN LoopFrame
                                           ELSE IdleFrame

(* Mutant: the listener leaves a session at transcript_ready. *)
ContinueShort(p, act, s) ==
  CASE act = "start_join" -> Frame("spawn", act, s)
    [] act = "confirm_transcribe" -> Frame("publish_job", act, s)
    [] act \notin {"start_join", "confirm_transcribe"} -> Rest(p)

(* What a coroutine still has to do when its transition is committed. *)
Continue(p, act, s) ==
  CASE act = "start_join" -> Frame("spawn", act, s)
    [] act = "confirm_transcribe" -> Frame("publish_job", act, s)
    [] act = "transcript_ready" -> Frame("reload", "await_audio_disposal", s)
    [] act \notin {"start_join", "confirm_transcribe", "transcript_ready"} -> Rest(p)

(* _transition: the UPDATE carries no condition on the status it replaces. *)
CommitTransition(p) ==
  LET s == frame[p].sid
      act == frame[p].act
  IN /\ At(p, "commit")
     /\ status' = [status EXCEPT ![s] = To(act)]
     /\ deletedAt' = [deletedAt EXCEPT ![s] = @ \/ act = "delete_audio"]
     /\ offered' = IF act \in {"decline_transcribe", "await_audio_disposal"}
                     THEN offered \cup {s} ELSE offered
     /\ Goto(p, Continue(p, act, s))
     /\ UNCHANGED <<expires, fileVars, overdue, armed, signal, streamVars, workerVars,
                    transcriber, faults>>

(* transcribe, after its commits: the job is published if the audio exists;
   otherwise the answer is 400 and the row stays transcription_queued. *)
PublishJob(p) ==
  LET s == frame[p].sid
  IN /\ At(p, "publish_job")
     /\ jobs' = IF audio[s] = "present" THEN Append(jobs, s) ELSE jobs
     /\ Finish(p)
     /\ UNCHANGED <<rowVars, fileVars, overdue, armed, signal, commands, events,
                    workerVars, transcriber, offered, faults>>

(* WorkerManager.spawn: nothing when the process is still running, otherwise a
   process and two fresh Events. *)
Spawn(p) ==
  LET s == frame[p].sid
      Renewed(q) == /\ worker[s] \notin Alive
                    /\ At(q, "await") /\ frame[q].sid = s
  IN /\ At(p, "spawn")
     /\ IF worker[s] \in Alive
          THEN UNCHANGED <<worker, watch, signal>>
          ELSE /\ worker' = [worker EXCEPT ![s] = "joining"]
               /\ watch' = [watch EXCEPT ![s] = ProviderEvents]
               /\ signal' = [signal EXCEPT ![s] = {}]
     /\ frame' = [q \in Procs |->
                    IF q = p THEN IdleFrame
                    ELSE IF Renewed(q) THEN [frame[q] EXCEPT !.pc = "orphan"]
                    ELSE frame[q]]
     /\ UNCHANGED <<rowVars, fileVars, overdue, armed, streamVars,
                    transcriber, offered, faults>>
=============================================================================
