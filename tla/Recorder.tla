------------------------------ MODULE Recorder ------------------------------
(***************************************************************************)
(* The whole recorder: the gateway's requests, listener and jobs, the      *)
(* meeting workers, the transcriber, the crashes of each, and the          *)
(* properties they are to have together.                                   *)
(***************************************************************************)
EXTENDS Transcriber

(* A user clicks; nothing makes the click happen. *)
Request(p, s) ==
  \/ \E mode \in CreateModes : CreateCheck(p, s, mode)
  \/ \E act \in Action : RequestTransition(p, s, act) \/ RequestSend(p, s, act)
  \/ RequestCancel(p, s)
  \/ RequestDelete(p, s)
  \/ RequestRetain(p, s)

(* The event loop resumes the suspended coroutine p. *)
Resume(p) ==
  \/ CreateInsert(p) \/ CreateArm(p)
  \/ Publish(p) \/ Lookup(p) \/ Timeout(p) \/ Reap(p)
  \/ ExpireCommit(p) \/ Reload(p) \/ CommitTransition(p)
  \/ PublishJob(p) \/ Spawn(p)

ListenerStep == ListenerReact \/ ListenerSignal \/ ListenerIgnore

FollowupStep == FollowupSelect \/ \E s \in Sessions : FollowupResolve(s)

WorkerStep(s) ==
  \/ Join(s) \/ JoinFail(s)
  \/ TakeCommand(s) \/ StopCapture(s) \/ Leave(s)

TranscriberStep == TakeJob \/ StartJob \/ LoadAudio \/ WriteTranscript \/ TranscriptionFail

Fault == \/ GatewayRestart
         \/ ListenerFail
         \/ \E s \in Sessions : WorkerCrash(s)
         \/ TranscriberCrash

Next ==
  \/ \E p \in Slots, s \in Sessions : Request(p, s)
  \/ \E p \in Procs : Resume(p)
  \/ ListenerStep
  \/ \E s \in Sessions : FireJoin(s)
  \/ FollowupStep
  \/ Sweep
  \/ \E s \in Sessions : WorkerStep(s)
  \/ \E s \in Sessions, ev \in ProviderEvents : Watch(s, ev)
  \/ TranscriberStep
  \/ Fault

Spec == Init /\ [][Next]_vars

(* The loop runs every coroutine that can go on, wait_for times out, the
   listener and the two other kinds of process keep reading their streams, and
   the clock reaches every date the scheduler waits for.  Neither the user nor
   a fault is obliged to do anything. *)
Fairness ==
  /\ \A p \in Procs : WF_vars(Resume(p))
  /\ WF_vars(ListenerStep)
  /\ \A s \in Sessions : WF_vars(FireJoin(s)) /\ WF_vars(WorkerStep(s))
  /\ WF_vars(FollowupStep)
  /\ WF_vars(Sweep)
  /\ WF_vars(TranscriberStep)

FairSpec == Spec /\ Fairness

-----------------------------------------------------------------------------
(* From the end of the capture to the decision about the audio. *)
PostCapture == {"capture_stopped", "in_call", "recorded", "transcription_queued",
                "transcribing", "transcript_ready", "pending_audio_disposal"}

(* A session is only ever past its capture if its worker has written the wav
   file: the status is moved by a request that was woken by an answer relayed
   through a stream and an Event, and by requests that hold stale rows. *)
AudioBacked ==
  \A s \in Sessions : status[s] \in PostCapture => audio[s] # "none"

(* Why AudioBacked holds: whoever is going to move a session past its capture
   is working on a session that is past it already, or has been woken by the
   answer of a worker that wrote the file before it answered. *)
Late == {"decline_leave", "leave", "confirm_transcribe", "decline_transcribe",
         "transcribing", "transcript_ready", "await_audio_disposal"}
Backed(f) ==
  f.act \in Late \/ (f.act = "stop_recording" /\ f.pc = "commit") => audio[f.sid] # "none"

FramesBacked == \A p \in Procs : Backed(frame[p])
SignalsBacked == \A s \in Sessions : "stop_recording" \in signal[s] => audio[s] # "none"
AnswersBacked ==
  \A i \in DOMAIN events : events[i].ev = "capture_stopped" => audio[events[i].sid] # "none"

(* The inductive form of AudioBacked: rows, coroutines, Events and stream
   entries agree about which captures have been written. *)
AudioInv == AudioBacked /\ FramesBacked /\ SignalsBacked /\ AnswersBacked

(* No session is announced as transcribed, nor a transcript_ready event in the
   stream, before transcript.txt exists, whatever crashed in between. *)
TranscriptBacked ==
  /\ \A s \in Sessions : status[s] = "transcript_ready" => transcript[s]
  /\ \A i \in DOMAIN events : events[i].ev = "transcript_ready" => transcript[events[i].sid]

(* A session shown as recorded, or anywhere from there to the decision about the
   audio, has no bot left in the call.  (One that is completed or failed may: a
   cancel that overlaps a join commits `completed` beside a living worker.) *)
LeftMeansGone ==
  \A s \in Sessions :
    status[s] \in {"recorded", "transcription_queued", "transcribing",
                   "transcript_ready", "pending_audio_disposal"}
      => worker[s] \notin Alive

(* audio_deleted_at is never a lie: no later or duplicated capture brings the
   file of such a session back. *)
DeletedMeansGone ==
  \A s \in Sessions : deletedAt[s] => audio[s] # "present"

(* A scheduled session is never forgotten: it has a join job, or the coroutine
   that will arm, fire or cancel it is under way, across every restart. *)
ScheduledIsArmed ==
  \A s \in Sessions : status[s] = "scheduled" => s \in armed \/ InFlight(s)

(* A finished session that no coroutine is working on is finished for good: no
   late event, forgotten job or request takes it up for a transition that
   leads anywhere else. *)
SettledIsFinal ==
  [][\A s \in Sessions, p \in Procs :
       status[s] \in Terminal /\ ~InFlight(s) /\ frame'[p].sid = s
         => frame'[p].act \notin Action \/ To(frame'[p].act) \in Terminal]_vars

-----------------------------------------------------------------------------
(* Nothing recovers a worker that was not spawned before a restart, or the job
   with which a transcriber died. *)
Undisturbed == faults = 0

(* Every joining session gets an answer from its worker, or a crash comes in
   between. *)
JoinResolves ==
  \A s \in Sessions : status[s] = "joining" /\ Undisturbed
    ~> status[s] # "joining" \/ ~Undisturbed

(* A transcription the user asked for ends with the question what to do with
   the audio, or with an error, or a crash comes in between. *)
TranscriptionResolves ==
  \A s \in Sessions : status[s] = "transcription_queued" /\ Undisturbed
    ~> status[s] \in {"pending_audio_disposal", "completed", "failed"} \/ ~Undisturbed

(* A user who never answers is answered for. *)
DisposalResolves ==
  \A s \in Sessions : status[s] = "pending_audio_disposal" ~> status[s] = "completed"

(* No request hangs: a lost answer of the worker ends in a timeout. *)
RequestsAnswered == \A p \in Slots : frame[p].pc # "idle" ~> frame[p].pc = "idle"

-----------------------------------------------------------------------------
(* What the repository says of itself, as it would have to hold here.  The
   program does not keep any of these: the runs that check them show how. *)

(* "You already have an active session": a user has one at most
   (create_session). *)
OneActivePerUser ==
  \A s, t \in Sessions : Active(s) /\ Active(t) /\ Owner[s] = Owner[t] => s = t

(* No action applies to a finished session: COMPLETED, and FAILED, are never
   left (tests/test_session_fsm.py, _TRANSITIONS), so that a session that
   /cancel has completed is not joined any more. *)
TerminalIsFinal ==
  [][\A s \in Sessions : status[s] \in Terminal => status'[s] = status[s]]_vars
=============================================================================
