----------------------------- MODULE Simulation -----------------------------
(***************************************************************************)
(* The gateway with SIMULATE_MEETING on: no meeting_worker, but tasks of   *)
(* session_service.py that sleep and then write what the worker would have *)
(* reported.  With SIMULATE_TRANSCRIPTION on too, the same stands for the  *)
(* transcriber; without it the real transcriber is sent the four bytes     *)
(* that stand for a wav file, which it cannot read.                        *)
(*                                                                         *)
(* Bound: a slot asks for a transcription only when the stub started by    *)
(* its last request has ended; the stub is named by the slot.              *)
(***************************************************************************)
EXTENDS Recorder

VARIABLES
  simulateTranscription,   \* SIMULATE_TRANSCRIPTION, as read at the start
  visitor,     \* the task of _schedule_simulate_join, per session
  stub,        \* the task of _schedule_simulate_transcribe, per request
  unwritten    \* stop requests, with their session, that have still to write the file

simVars == <<visitor, stub, unwritten>>
allVars == <<vars, simVars>>

SimInit ==
  /\ Init
  /\ simulateTranscription \in BOOLEAN
  /\ visitor = [s \in Sessions |-> "none"]
  /\ stub = [p \in Slots |-> NoJob]
  /\ unwritten = {}

Goes(s, v) == visitor' = [visitor EXCEPT ![s] = v]
Turns(p, j) == stub' = [stub EXCEPT ![p] = j]

-----------------------------------------------------------------------------
(* stop_recording and leave ask nobody: they read the row and go on to the
   commit. *)
SimHandshake(p, s) ==
  /\ At(p, "idle")
  /\ \E act \in Handshake : Applies(status[s], act) /\ Goto(p, Frame("commit", act, s))
  /\ UNCHANGED <<rowVars, fileVars, overdue, armed, signal, streamVars, workerVars,
                 transcriber, offered, faults, simVars>>

SimRequest(p, s) ==
  /\ \A t \in Sessions : <<p, t>> \notin unwritten
  /\ \/ SimHandshake(p, s)
     \/ /\ UNCHANGED simVars
        /\ \/ \E mode \in CreateModes : CreateCheck(p, s, mode)
           \/ \E act \in Action : (act = "confirm_transcribe" => stub[p] = NoJob)
                                    /\ RequestTransition(p, s, act)
           \/ RequestCancel(p, s) \/ RequestDelete(p, s) \/ RequestRetain(p, s)

(* stop_recording has its file to write when the new status is committed. *)
SimCommit(p) ==
  /\ CommitTransition(p)
  /\ unwritten' = IF frame[p].act = "stop_recording"
                    THEN unwritten \cup {<<p, frame[p].sid>>} ELSE unwritten
  /\ UNCHANGED <<visitor, stub>>

Riff(s) == audio' = [audio EXCEPT ![s] = "present"]

WriteRiff(p, s) ==
  /\ <<p, s>> \in unwritten /\ unwritten' = unwritten \ {<<p, s>>}
  /\ Riff(s)
  /\ UNCHANGED <<rowVars, transcript, gatewayVars, streamVars, workerVars,
                 transcriber, offered, faults, visitor, stub>>

(* Mutant: the task is not started. *)
VisitNobody(s) == UNCHANGED visitor

(* _schedule_simulate_join, in place of WorkerManager.spawn. *)
StartVisit(s) == Goes(s, "asleep")

SimSpawn(p) ==
  /\ At(p, "spawn")
  /\ StartVisit(frame[p].sid)
  /\ Finish(p)
  /\ UNCHANGED <<rowVars, fileVars, overdue, armed, signal, streamVars, workerVars,
                 transcriber, offered, faults, stub, unwritten>>

(* transcribe, with the stub: there is no look at the audio file. *)
SimTranscribe(p) ==
  /\ simulateTranscription /\ At(p, "publish_job")
  /\ Turns(p, Job("asleep", frame[p].sid))
  /\ Finish(p)
  /\ UNCHANGED <<rowVars, fileVars, overdue, armed, signal, streamVars, workerVars,
                 transcriber, offered, faults, visitor, unwritten>>

SimResume(p) ==
  \/ SimCommit(p) \/ SimSpawn(p) \/ SimTranscribe(p)
  \/ /\ \/ CreateInsert(p) \/ CreateArm(p) \/ ExpireCommit(p) \/ Reload(p)
        \/ ~simulateTranscription /\ PublishJob(p)
     /\ UNCHANGED simVars

-----------------------------------------------------------------------------
(* The join task wakes up and reads the row; "recording" applies to every
   session that is joining, so the waiting room of the except branch is never
   entered. *)
VisitorWakes(s) ==
  /\ visitor[s] = "asleep"
  /\ Goes(s, IF status[s] = "joining" THEN "inside" ELSE "none")
  /\ UNCHANGED <<vars, stub, unwritten>>

VisitorRecords(s) ==
  /\ visitor[s] = "inside"
  /\ Goes(s, "none")
  /\ status' = [status EXCEPT ![s] = To("recording")]
  /\ UNCHANGED <<deletedAt, expires, fileVars, gatewayVars, streamVars, workerVars,
                 transcriber, offered, faults, stub, unwritten>>

(* The transition each read of the stub is for, and what follows when the row
   read allows it: a commit, or (for the second) the transcript first. *)
Reads == [asleep |-> "transcribing", started |-> "transcript_ready",
          announced |-> "await_audio_disposal"]
After == [asleep |-> "start", started |-> "write", announced |-> "dispose"]

Commits == [start |-> "transcribing", ready |-> "transcript_ready",
            dispose |-> "await_audio_disposal"]

(* Mutant: the stub leaves the session at transcript_ready. *)
ThenShort == [start |-> "started", ready |-> "idle", dispose |-> "idle"]

Then == [start |-> "started", ready |-> "announced", dispose |-> "idle"]

(* Mutant: a stub that has ended is kept. *)
StubJobKept(pc, s) == Job(pc, s)

StubJob(pc, s) == IF pc = "idle" THEN NoJob ELSE Job(pc, s)

(* The stub reads, or refreshes, its row.  A row that does not fit ends it:
   at once, or (refreshed before the long sleep, and not read again after it)
   when the transcript has been written. *)
StubReads(p) ==
  LET s == stub[p].sid
      pc == stub[p].pc
  IN /\ pc \in DOMAIN Reads
     /\ Turns(p, StubJob(IF Applies(status[s], Reads[pc]) THEN After[pc]
                         ELSE IF pc = "started" THEN "doomed" ELSE "idle", s))
     /\ UNCHANGED <<vars, visitor, unwritten>>

StubCommits(p) ==
  LET s == stub[p].sid
      pc == stub[p].pc
  IN /\ pc \in DOMAIN Commits
     /\ status' = [status EXCEPT ![s] = To(Commits[pc])]
     /\ Turns(p, StubJob(Then[pc], s))
     /\ UNCHANGED <<deletedAt, expires, fileVars, gatewayVars, streamVars, workerVars,
                    transcriber, offered, faults, visitor, unwritten>>

(* Mutant: the text is not written. *)
NoText(s) == UNCHANGED transcript

StubText(s) == transcript' = [transcript EXCEPT ![s] = TRUE]

StubWrites(p) ==
  /\ stub[p].pc \in {"write", "doomed"}
  /\ StubText(stub[p].sid)
  /\ Turns(p, IF stub[p].pc = "write" THEN Job("ready", stub[p].sid) ELSE NoJob)
  /\ UNCHANGED <<rowVars, audio, gatewayVars, streamVars, workerVars,
                 transcriber, offered, faults, visitor, unwritten>>

StubStep(p) == StubReads(p) \/ StubCommits(p) \/ StubWrites(p)
VisitorStep(s) == VisitorWakes(s) \/ VisitorRecords(s)

(* The tasks, and what a stop request had still to write, go with the
   gateway, and nothing starts them again. *)
SimRestart ==
  /\ GatewayRestart
  /\ visitor' = [s \in Sessions |-> "none"]
  /\ stub' = [p \in Slots |-> NoJob]
  /\ unwritten' = {}

(* The real transcriber cannot read the stand-in for a wav file. *)
RealTranscriber ==
  TakeJob \/ StartJob \/ TranscriptionFail \/ ListenerStep

SimNext ==
  \/ \E p \in Slots, s \in Sessions : SimRequest(p, s)
  \/ \E p \in Procs : SimResume(p)
  \/ \E p \in Slots : StubStep(p)
  \/ \E s \in Sessions : VisitorStep(s)
  \/ \E p \in Slots, s \in Sessions : WriteRiff(p, s)
  \/ /\ RealTranscriber \/ FollowupStep \/ Sweep \/ \E s \in Sessions : FireJoin(s)
     /\ UNCHANGED simVars
  \/ SimRestart

SimSpec ==
  SimInit /\ [][SimNext /\ UNCHANGED simulateTranscription]_<<allVars, simulateTranscription>>

(* The loop runs its tasks and coroutines, the clock reaches the dates, the
   transcriber reads its stream. *)
SimFairness ==
  /\ \A p \in Procs : WF_allVars(SimResume(p))
  /\ \A p \in Slots : WF_allVars(StubStep(p)) /\ \A s \in Sessions : WF_allVars(WriteRiff(p, s))
  /\ \A s \in Sessions :
       WF_allVars(VisitorStep(s)) /\ WF_allVars(FireJoin(s) /\ UNCHANGED simVars)
  /\ WF_allVars(RealTranscriber /\ UNCHANGED simVars)

FairSimSpec == SimSpec /\ SimFairness

-----------------------------------------------------------------------------
(* Types: where the tasks are, and for which session. *)
Stages == DOMAIN Reads \cup DOMAIN Commits \cup {"write", "doomed"}

SimTypeOK ==
  /\ TypeOK
  /\ simulateTranscription \in BOOLEAN
  /\ visitor \in [Sessions -> {"none", "asleep", "inside"}]
  /\ stub \in [Slots -> {NoJob} \cup [pc : Stages, sid : Sessions]]
  /\ unwritten \subseteq Slots \X Sessions
=============================================================================
