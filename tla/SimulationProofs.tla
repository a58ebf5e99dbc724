-------------------------- MODULE SimulationProofs --------------------------
(***************************************************************************)
(* The simulated meeting keeps the types, and announces no transcript that *)
(* does not exist, for every value of the constants.                       *)
(*                                                                         *)
(* Most steps of the gateway are the same with and without a simulation,   *)
(* so what is known of a step of Recorder holds of them (Either).  What    *)
(* remains are the steps of the tasks that stand for a worker and for the  *)
(* transcriber, and of the requests that ask them instead.                 *)
(***************************************************************************)
EXTENDS Simulation, RowProofs

(* What the simulation does in another way. *)
StandIn ==
  \/ \E p \in Slots, s \in Sessions : SimHandshake(p, s) \/ WriteRiff(p, s)
  \/ \E p \in Procs : SimSpawn(p) \/ SimTranscribe(p)
  \/ \E s \in Sessions : VisitorRecords(s)
  \/ \E p \in Slots : StubCommits(p) \/ StubWrites(p)

(* Every step is one the recorder could take without a simulation, or one of
   those. *)
LEMMA Either ==
  ASSUME SimNext
  PROVE  [Next]_vars \/ StandIn
  <1>1. ASSUME NEW p \in Slots, NEW s \in Sessions, SimRequest(p, s)
        PROVE  [Next]_vars \/ StandIn
    BY <1>1 DEF SimRequest, StandIn, Next, Request
  <1>2. ASSUME NEW p \in Procs, SimResume(p)
        PROVE  [Next]_vars \/ StandIn
    BY <1>2 DEF SimResume, SimCommit, StandIn, Next, Resume
  <1>3. ASSUME NEW p \in Slots, StubStep(p)
        PROVE  [Next]_vars \/ StandIn
    BY <1>3 DEF StubStep, StubReads, StandIn
  <1>4. ASSUME NEW s \in Sessions, VisitorStep(s)
        PROVE  [Next]_vars \/ StandIn
    BY <1>4 DEF VisitorStep, VisitorWakes, StandIn
  <1>5. CASE RealTranscriber \/ FollowupStep \/ Sweep \/ \E s \in Sessions : FireJoin(s)
    BY <1>5 DEF RealTranscriber, Next, TranscriberStep
  <1>6. CASE SimRestart
    BY <1>6 DEF SimRestart, Next, Fault
  <1> QED BY <1>1, <1>2, <1>3, <1>4, <1>5, <1>6 DEF SimNext, StandIn

-----------------------------------------------------------------------------
(* The types of the tasks, and that only requests stop a recording: so it is a
   request that the file of a simulated recording is left to. *)
TaskTypes ==
  /\ simulateTranscription \in BOOLEAN
  /\ visitor \in [Sessions -> {"none", "asleep", "inside"}]
  /\ stub \in [Slots -> {NoJob} \cup [pc : Stages, sid : Sessions]]
  /\ unwritten \subseteq Slots \X Sessions

StopsAsked == \A p \in Procs : frame[p].act = "stop_recording" => p \in Slots

SimInv == SimTypeOK /\ StopsAsked

(* The stages of the stub. *)
LEMMA StubStages ==
  /\ DOMAIN Reads = {"asleep", "started", "announced"}
  /\ DOMAIN Commits = {"start", "ready", "dispose"}
  /\ \A pc \in DOMAIN Reads : After[pc] \in {"start", "write", "dispose"}
  /\ \A pc \in DOMAIN Commits : /\ Then[pc] \in {"started", "announced", "idle"}
                                /\ Commits[pc] \in Action
                                /\ To(Commits[pc]) = "transcript_ready" => pc = "ready"
  BY Actions, TranscriptSource DEF Reads, After, Commits, Then

(* A stub at work has a session. *)
LEMMA StubHolds ==
  ASSUME SimTypeOK, NEW p \in Slots, stub[p].pc # "idle"
  PROVE  stub[p].sid \in Sessions
  BY DEF SimTypeOK, NoJob, Job

(* The stand-ins keep the types of the recorder. *)
LEMMA StandInTypes ==
  ASSUME SimTypeOK, StandIn
  PROVE  TypeOK'
  <1> TypeOK
    BY DEF SimTypeOK
  <1>1. ASSUME NEW p \in Slots, NEW s \in Sessions, SimHandshake(p, s)
        PROVE  TypeOK'
    <2>1. PICK act \in Handshake : Goto(p, Frame("commit", act, s))
      BY <1>1 DEF SimHandshake
    <2>2. FrameTypes'
      BY <2>1, ActionFrames, HandshakeActions, ProcTypes, GotoTypes
    <2>3. RowTypes' /\ FileTypes' /\ SetTypes' /\ StreamTypes' /\ ProcessTypes'
      BY <1>1, UnchangedTypes DEF SimHandshake
    <2> QED BY <2>2, <2>3 DEF TypeOK
  <1>2. ASSUME NEW p \in Slots, NEW s \in Sessions, WriteRiff(p, s)
        PROVE  TypeOK'
    <2>1. FileTypes'
      BY <1>2 DEF WriteRiff, Riff, TypeOK, FileTypes
    <2>2. RowTypes' /\ FrameTypes' /\ SetTypes' /\ StreamTypes' /\ ProcessTypes'
      BY <1>2, UnchangedTypes DEF WriteRiff, gatewayVars
    <2> QED BY <2>1, <2>2 DEF TypeOK
  <1>3. ASSUME NEW p \in Procs, SimSpawn(p) \/ SimTranscribe(p)
        PROVE  TypeOK'
    <2>1. FrameTypes'
      BY <1>3, RestingFrames, GotoTypes DEF SimSpawn, SimTranscribe, Finish
    <2>2. RowTypes' /\ FileTypes' /\ SetTypes' /\ StreamTypes' /\ ProcessTypes'
      BY <1>3, UnchangedTypes DEF SimSpawn, SimTranscribe
    <2> QED BY <2>1, <2>2 DEF TypeOK
  <1>4. ASSUME NEW s \in Sessions, VisitorRecords(s)
        PROVE  TypeOK'
    <2>1. RowTypes'
      BY <1>4, Actions, TargetTypes DEF VisitorRecords, TypeOK, RowTypes
    <2>2. FileTypes' /\ FrameTypes' /\ SetTypes' /\ StreamTypes' /\ ProcessTypes'
      BY <1>4, UnchangedTypes DEF VisitorRecords, gatewayVars
    <2> QED BY <2>1, <2>2 DEF TypeOK
  <1>5. ASSUME NEW p \in Slots, StubCommits(p)
        PROVE  TypeOK'
    <2>1. Commits[stub[p].pc] \in Action
      BY <1>5, StubStages DEF StubCommits
    <2>2. RowTypes'
      BY <1>5, <2>1, TargetTypes DEF StubCommits, TypeOK, RowTypes
    <2>3. FileTypes' /\ FrameTypes' /\ SetTypes' /\ StreamTypes' /\ ProcessTypes'
      BY <1>5, UnchangedTypes DEF StubCommits, gatewayVars
    <2> QED BY <2>2, <2>3 DEF TypeOK
  <1>6. ASSUME NEW p \in Slots, StubWrites(p)
        PROVE  TypeOK'
    <2>1. FileTypes'
      BY <1>6 DEF StubWrites, StubText, TypeOK, FileTypes
    <2>2. RowTypes' /\ FrameTypes' /\ SetTypes' /\ StreamTypes' /\ ProcessTypes'
      BY <1>6, UnchangedTypes DEF StubWrites, gatewayVars
    <2> QED BY <2>1, <2>2 DEF TypeOK
  <1> QED BY <1>1, <1>2, <1>3, <1>4, <1>5, <1>6 DEF StandIn

(* The stub of one request goes to another stage, or ends. *)
LEMMA StubTypes ==
  ASSUME SimTypeOK, NEW p \in Procs, NEW j \in {NoJob} \cup [pc : Stages, sid : Sessions],
         Turns(p, j)
  PROVE  stub' \in [Slots -> {NoJob} \cup [pc : Stages, sid : Sessions]]
  BY DEF SimTypeOK, Turns

(* The tasks keep their types. *)
LEMMA StepTasks ==
  ASSUME SimInv, SimNext, UNCHANGED simulateTranscription
  PROVE  TaskTypes'
  <1> USE DEF SimInv, SimTypeOK, TaskTypes
  <1>1. ASSUME NEW p \in Slots, NEW s \in Sessions, SimRequest(p, s)
        PROVE  TaskTypes'
    BY <1>1 DEF SimRequest, SimHandshake, simVars
  <1>2. ASSUME NEW p \in Procs, SimResume(p)
        PROVE  TaskTypes'
    <2>1. CASE SimCommit(p)
      <3>1. frame[p].sid \in Sessions
        BY <2>1, Holding DEF SimCommit, CommitTransition, At
      <3>2. unwritten' \subseteq Slots \X Sessions
        BY <2>1, <3>1 DEF SimCommit, StopsAsked
      <3> QED BY <2>1, <3>2 DEF SimCommit
    <2>2. CASE SimSpawn(p)
      <3>1. visitor' \in [Sessions -> {"none", "asleep", "inside"}]
        BY <2>2 DEF SimSpawn, StartVisit, Goes
      <3> QED BY <2>2, <3>1 DEF SimSpawn
    <2>3. CASE SimTranscribe(p)
      <3>1. Job("asleep", frame[p].sid) \in [pc : Stages, sid : Sessions]
        BY <2>3, Holding, StubStages DEF SimTranscribe, At, Job, Stages
      <3>2. stub' \in [Slots -> {NoJob} \cup [pc : Stages, sid : Sessions]]
        BY <2>3, <3>1, StubTypes DEF SimTranscribe
      <3> QED BY <2>3, <3>2 DEF SimTranscribe
    <2>4. CASE UNCHANGED simVars
      BY <2>4 DEF simVars
    <2> QED BY <1>2, <2>1, <2>2, <2>3, <2>4 DEF SimResume
  <1>3. ASSUME NEW p \in Slots, StubStep(p)
        PROVE  TaskTypes'
    <2>1. /\ stub[p].pc # "idle"
          /\ UNCHANGED <<visitor, unwritten>>
          /\ \E pc \in Stages \cup {"idle"} : Turns(p, StubJob(pc, stub[p].sid)) \/ Turns(p, NoJob)
      <3>1. CASE StubReads(p)
        BY <3>1, StubStages DEF StubReads, Stages
      <3>2. CASE StubCommits(p)
        BY <3>2, StubStages DEF StubCommits, Stages
      <3>3. CASE StubWrites(p)
        <4>1. StubJob("ready", stub[p].sid) = Job("ready", stub[p].sid)
          BY DEF StubJob
        <4> QED BY <3>3, <4>1, StubStages DEF StubWrites, Stages
      <3> QED BY <1>3, <3>1, <3>2, <3>3 DEF StubStep
    <2>2. PICK pc \in Stages \cup {"idle"} : Turns(p, StubJob(pc, stub[p].sid)) \/ Turns(p, NoJob)
      BY <2>1
    <2>3. StubJob(pc, stub[p].sid) \in {NoJob} \cup [pc : Stages, sid : Sessions]
      BY <2>1, StubHolds DEF StubJob, Job
    <2>4. stub' \in [Slots -> {NoJob} \cup [pc : Stages, sid : Sessions]]
      BY <2>2, <2>3, StubTypes, ProcTypes
    <2> QED BY <2>1, <2>4
  <1>4. ASSUME NEW s \in Sessions, VisitorStep(s)
        PROVE  TaskTypes'
    BY <1>4 DEF VisitorStep, VisitorWakes, VisitorRecords, Goes
  <1>5. ASSUME NEW p \in Slots, NEW s \in Sessions, WriteRiff(p, s)
        PROVE  TaskTypes'
    BY <1>5 DEF WriteRiff
  <1>6. CASE UNCHANGED simVars
    BY <1>6 DEF simVars
  <1>7. CASE SimRestart
    BY <1>7 DEF SimRestart
  <1> QED BY <1>1, <1>2, <1>3, <1>4, <1>5, <1>6, <1>7 DEF SimNext

(* Where the stand-ins take the coroutines. *)
LEMMA StandInFrames ==
  ASSUME TypeOK, StandIn, NEW q \in Procs
  PROVE  \/ frame'[q] = frame[q] \/ frame'[q] = IdleFrame
         \/ q \in Slots /\ frame'[q].act \in Handshake
  <1> frame \in [Procs -> Suspended]
    BY DEF TypeOK, FrameTypes
  <1>1. \A p, f : Goto(p, f) => frame'[q] = frame[q] \/ (p = q /\ frame'[q] = f)
    BY DEF Goto
  <1>2. ASSUME NEW p \in Slots, NEW s \in Sessions, SimHandshake(p, s)
        PROVE  frame'[q] = frame[q] \/ (q \in Slots /\ frame'[q].act \in Handshake)
    BY <1>1, <1>2, FrameFields DEF SimHandshake
  <1>3. ASSUME NEW p \in Procs, SimSpawn(p) \/ SimTranscribe(p)
        PROVE  frame'[q] = frame[q] \/ frame'[q] = IdleFrame
    BY <1>1, <1>3 DEF SimSpawn, SimTranscribe, Finish
  <1>4. CASE UNCHANGED frame
    BY <1>4
  <1> QED BY <1>2, <1>3, <1>4
          DEF StandIn, WriteRiff, VisitorRecords, StubCommits, StubWrites, gatewayVars

(* Only a request takes up a stop, and keeps it. *)
LEMMA StepStops ==
  ASSUME SimInv, SimNext
  PROVE  StopsAsked'
  <1> TypeOK /\ StopsAsked
    BY DEF SimInv, SimTypeOK
  <1>1. ASSUME [Next]_vars
        PROVE  StopsAsked'
    <2>1. Moves
      BY <1>1, StepMoves
    <2>2. ASSUME NEW p \in Procs, frame'[p].act = "stop_recording"
          PROVE  p \in Slots
      <3>1. Turn(p, frame[p], frame'[p])
        BY <2>1 DEF Moves, FrameMoves
      <3>2. CASE Begins(p, frame'[p])
        <4>1. frame'[p].pc = "publish"
          BY <2>2, <3>2, FrameFields, SettingsAssumption DEF Begins, Handshake
        <4> QED BY <3>2, <4>1, FrameFields DEF Begins, Entitled
      <3>3. CASE Continues(frame[p], frame'[p])
        <4>1. frame[p].act = "stop_recording"
          BY <2>2, <3>3, FrameFields, Holding DEF Continues, At, Mode
        <4> QED BY <4>1 DEF StopsAsked
      <3> QED BY <2>2, <3>1, <3>2, <3>3, AtRest DEF Turn, StopsAsked
    <2> QED BY <2>2 DEF StopsAsked
  <1>2. CASE StandIn
    <2>1. \A p \in Procs : \/ frame'[p].act = frame[p].act \/ frame'[p].act = "none"
                           \/ p \in Slots
      BY <1>2, StandInFrames, FrameFields DEF IdleFrame
    <2> QED BY <2>1 DEF StopsAsked
  <1> QED BY <1>1, <1>2, Either

(* SimInv is inductive. *)
LEMMA StepSimulated ==
  ASSUME SimInv, SimNext, UNCHANGED simulateTranscription
  PROVE  SimInv'
  <1>1. TypeOK'
    BY Either, StepTypes, StandInTypes DEF SimInv, SimTypeOK
  <1>2. TaskTypes' /\ StopsAsked'
    BY StepTasks, StepStops
  <1> QED BY <1>1, <1>2 DEF SimInv, SimTypeOK, TaskTypes

(* No task is under way to begin with. *)
LEMMA InitSimulated == SimInit => SimInv
  <1> SUFFICES ASSUME SimInit
               PROVE  SimInv
    OBVIOUS
  <1>1. TypeOK
    BY InitTypes DEF SimInit
  <1>2. StopsAsked
    BY FrameFields DEF SimInit, Init, StopsAsked, IdleFrame
  <1> QED BY <1>1, <1>2 DEF SimInit, SimInv, SimTypeOK

(* What changes nothing keeps the types. *)
LEMMA StillSimulated ==
  ASSUME SimInv, UNCHANGED <<allVars, simulateTranscription>>
  PROVE  SimInv'
  <1>1. TypeOK' /\ UNCHANGED <<frame, simVars, simulateTranscription>>
    BY StepTypes DEF SimInv, SimTypeOK, allVars, vars, gatewayVars
  <1> QED BY <1>1 DEF SimInv, SimTypeOK, StopsAsked, simVars

(* Every reachable state of the simulated meeting is typed: a task that sleeps
   always stands for a session that exists, and a file is left to be written
   only by a request that stopped a recording. *)
THEOREM SimulationTyped == SimSpec => []SimTypeOK
  <1>1. SimInv => SimTypeOK
    BY DEF SimInv
  <1> QED BY <1>1, InitSimulated, StepSimulated, StillSimulated, PTL DEF SimSpec

-----------------------------------------------------------------------------
(* A stub that is about to announce a transcript has written it. *)
StubsBacked == \A p \in Slots : stub[p].pc = "ready" => transcript[stub[p].sid]

SimTranscripts == TranscriptInv /\ StubsBacked

(* No stand-in takes a transcript away, or begins to announce one. *)
LEMMA StandInTranscripts ==
  ASSUME SimInv, SimTranscripts, StandIn
  PROVE  TranscriptInv'
  <1> TypeOK /\ TranscriptInv
    BY DEF SimInv, SimTypeOK, SimTranscripts
  <1>1. \A s \in Sessions : transcript[s] => transcript'[s]
    BY DEF StandIn, SimHandshake, WriteRiff, SimSpawn, SimTranscribe, VisitorRecords, StubCommits,
           StubWrites, StubText, fileVars, TypeOK, FileTypes
  <1>2. ASSUME NEW s \in Sessions, status'[s] = "transcript_ready"
        PROVE  transcript'[s]
    <2>1. CASE status'[s] = status[s]
      BY <1>1, <1>2, <2>1 DEF TranscriptInv, TranscriptBacked
    <2>2. ASSUME NEW p \in Slots, StubCommits(p), status'[s] # status[s]
          PROVE  transcript'[s]
      <3>1. stub[p].sid = s /\ status'[s] = To(Commits[stub[p].pc])
        BY <2>2 DEF StubCommits, TypeOK, RowTypes
      <3>2. stub[p].pc = "ready"
        BY <1>2, <2>2, <3>1, StubStages DEF StubCommits
      <3> QED BY <1>1, <3>1, <3>2 DEF SimTranscripts, StubsBacked
    <2>3. ASSUME NEW t \in Sessions, VisitorRecords(t), status'[s] # status[s]
          PROVE  FALSE
      BY <1>2, <2>3, Actions, TranscriptSource DEF VisitorRecords, TypeOK, RowTypes
    <2> QED BY <2>1, <2>2, <2>3
            DEF StandIn, SimHandshake, WriteRiff, SimSpawn, SimTranscribe, StubWrites, rowVars
  <1>3. UNCHANGED events
    BY DEF StandIn, SimHandshake, WriteRiff, SimSpawn, SimTranscribe, VisitorRecords, StubCommits,
           StubWrites, streamVars
  <1>4. ASSUME NEW i \in DOMAIN events', events'[i].ev = "transcript_ready"
        PROVE  transcript'[events'[i].sid]
    BY <1>1, <1>3, <1>4, EntryHolds DEF TranscriptInv, TranscriptBacked
  <1>5. ASSUME NEW p \in Procs, frame'[p].act = "transcript_ready"
        PROVE  transcript'[frame'[p].sid]
    <2>1. frame'[p] = frame[p]
      BY <1>5, StandInFrames, FrameFields DEF IdleFrame, Handshake
    <2> QED BY <1>1, <1>5, <2>1, LateHolds DEF TranscriptInv, AnnouncersBacked, Late
  <1> QED BY <1>2, <1>4, <1>5 DEF TranscriptInv, TranscriptBacked, AnnouncersBacked

(* SimTranscripts is inductive. *)
LEMMA StepSimTranscripts ==
  ASSUME SimInv, SimTranscripts, SimNext
  PROVE  SimTranscripts'
  <1> TypeOK /\ TranscriptInv
    BY DEF SimInv, SimTypeOK, SimTranscripts
  <1>1. TranscriptInv'
    BY Either, StepTranscripts, StandInTranscripts
  <1>2. \A s \in Sessions : transcript[s] => transcript'[s]
    <2>1. CASE [Next]_vars
      BY <2>1, StepMoves DEF Moves, FileMoves
    <2>2. CASE StandIn
      BY <2>2 DEF StandIn, SimHandshake, WriteRiff, SimSpawn, SimTranscribe, VisitorRecords,
                  StubCommits, StubWrites, StubText, fileVars, TypeOK, FileTypes
    <2> QED BY <2>1, <2>2, Either
  <1>3. ASSUME NEW p \in Slots, stub'[p].pc = "ready"
        PROVE  transcript'[stub'[p].sid]
    <2>1. CASE stub'[p] = stub[p]
      BY <1>2, <1>3, <2>1, StubHolds DEF SimInv, SimTranscripts, StubsBacked
    <2>2. CASE StubWrites(p)
      <3>1. stub'[p] = Job("ready", stub[p].sid) /\ stub[p].sid \in Sessions
        BY <1>3, <2>2, StubHolds DEF StubWrites, Turns, NoJob, Job, SimInv, SimTypeOK
      <3>2. transcript'[stub[p].sid]
        BY <2>2, <3>1 DEF StubWrites, StubText, TypeOK, FileTypes
      <3> QED BY <3>1, <3>2 DEF Job
    <2>3. stub'[p] = stub[p] \/ StubWrites(p)
      <3>1. stub \in [Slots -> {NoJob} \cup [pc : Stages, sid : Sessions]]
        BY DEF SimInv, SimTypeOK
      <3>2. \A q, j : Turns(q, j) /\ j.pc # "ready" => stub'[p] = stub[p]
        BY <1>3, <3>1 DEF Turns
      <3>3. ASSUME NEW q \in Slots, StubStep(q)
            PROVE  stub'[p] = stub[p] \/ StubWrites(p)
        <4>1. CASE StubReads(q)
          BY <3>2, <4>1, StubStages DEF StubReads, StubJob, Job, NoJob
        <4>2. CASE StubCommits(q)
          BY <3>2, <4>2, StubStages DEF StubCommits, StubJob, Job, NoJob
        <4>3. CASE StubWrites(q)
          BY <3>1, <4>3 DEF StubWrites, Turns
        <4> QED BY <3>3, <4>1, <4>2, <4>3 DEF StubStep
      <3>4. ASSUME NEW q \in Procs, SimTranscribe(q)
            PROVE  stub'[p] = stub[p]
        BY <3>2, <3>4 DEF SimTranscribe, Job
      <3>5. CASE SimRestart
        BY <1>3, <3>5 DEF SimRestart, NoJob, Job
      <3> QED BY <3>3, <3>4, <3>5
              DEF SimNext, SimRequest, SimHandshake, SimResume, SimCommit, SimSpawn, VisitorStep,
                  VisitorWakes, VisitorRecords, WriteRiff, simVars
    <2> QED BY <2>1, <2>2, <2>3
  <1> QED BY <1>1, <1>3 DEF SimTranscripts, StubsBacked

(* The stub has written its text before it moves the row, whatever the row has
   become while it slept; and the real transcriber, which cannot read the file
   of a simulated recording, only announces what it finds. *)
THEOREM SimulatedTranscriptsBacked == SimSpec => []TranscriptBacked
  <1>1. SimInit => SimTranscripts
    BY InitTranscripts DEF SimInit, SimTranscripts, StubsBacked, NoJob, Job
  <1>2. ASSUME SimInv, SimTranscripts, UNCHANGED <<allVars, simulateTranscription>>
        PROVE  SimTranscripts'
    <2>1. [Next]_vars /\ UNCHANGED <<stub, transcript>>
      BY <1>2 DEF allVars, simVars, vars, fileVars
    <2> QED BY <1>2, <2>1, StepTranscripts DEF SimInv, SimTypeOK, SimTranscripts, StubsBacked
  <1>3. SimTranscripts => TranscriptBacked
    BY DEF SimTranscripts, TranscriptInv
  <1> QED BY <1>1, <1>2, <1>3, InitSimulated, StepSimulated, StillSimulated, StepSimTranscripts, PTL
          DEF SimSpec
=============================================================================
