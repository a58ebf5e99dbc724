---------------------------- MODULE Transcriber ----------------------------
(***************************************************************************)
(* services/transcriber/runner.py and engine.py: one process, one job at a *)
(* time.  A job of the stream transcription.jobs is delivered once; if the *)
(* process dies it is not delivered again.                                 *)
(***************************************************************************)
EXTENDS MeetingWorker

TakeJob ==
  /\ transcriber = NoJob /\ jobs # <<>>
  /\ transcriber' = Job("taken", Head(jobs))
  /\ jobs' = Tail(jobs)
  /\ UNCHANGED <<rowVars, fileVars, gatewayVars, commands, events, workerVars,
                 offered, faults>>

(* Mutant: the audio is taken for the transcript. *)
DoneIfRecorded(s) == audio[s] # "none"

Done(s) == transcript[s]

(* _process_job: a transcript that exists is announced as it is. *)
StartJob ==
  LET s == transcriber.sid
  IN /\ transcriber.pc = "taken"
     /\ IF Done(s)
          THEN Emit("transcript_ready", s) /\ transcriber' = NoJob
          ELSE Emit("transcribing", s) /\ transcriber' = Job("loading", s)
     /\ UNCHANGED <<rowVars, fileVars, gatewayVars, commands, jobs, workerVars,
                    offered, faults>>

(* _transcribe_sync starts only if the audio file is there. *)
LoadAudio ==
  /\ transcriber.pc = "loading"
  /\ audio[transcriber.sid] = "present"
  /\ transcriber' = Job("writing", transcriber.sid)
  /\ UNCHANGED <<rowVars, fileVars, gatewayVars, streamVars, workerVars, offered, faults>>

WriteTranscript ==
  LET s == transcriber.sid
  IN /\ transcriber.pc = "writing"
     /\ transcript' = [transcript EXCEPT ![s] = TRUE]
     /\ Emit("transcript_ready", s)
     /\ transcriber' = NoJob
     /\ UNCHANGED <<rowVars, audio, gatewayVars, commands, jobs, workerVars,
                    offered, faults>>

(* No audio file, or whisper raises. *)
TranscriptionFail ==
  /\ transcriber.pc \in {"loading", "writing"}
  /\ Emit("transcription_failed", transcriber.sid)
  /\ transcriber' = NoJob
  /\ UNCHANGED <<rowVars, fileVars, gatewayVars, commands, jobs, workerVars,
                 offered, faults>>

(* The process dies with its job, before or after writing the file. *)
TranscriberCrash ==
  LET s == transcriber.sid
  IN /\ transcriber.pc # "idle"
     /\ faults < MaxFaults
     /\ faults' = faults + 1
     /\ transcriber' = NoJob
     /\ \/ UNCHANGED transcript
        \/ /\ transcriber.pc = "writing"
           /\ transcript' = [transcript EXCEPT ![s] = TRUE]
     /\ UNCHANGED <<rowVars, audio, gatewayVars, streamVars, workerVars, offered>>
=============================================================================
