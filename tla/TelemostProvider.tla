-------------------------- MODULE TelemostProvider --------------------------
(***************************************************************************)
(* One meeting_worker process from the inside: its run() coroutine, the    *)
(* browser page behind providers/telemost, and the sink of the samples.    *)
(* MeetingWorker shows the same process as the gateway sees it; ActsAs-    *)
(* Worker says that this one is it.                                        *)
(*                                                                         *)
(* The page is another process.  It hands samples over in order, and each  *)
(* reaches onAudioChunk as a coroutine of its own, at any await of run().  *)
(* call is where the bot really is, which only the page shows.             *)
(*                                                                         *)
(* Bounds: MaxChunks of sound, MaxSent commands, MaxKills killed workers.  *)
(***************************************************************************)
EXTENDS Naturals, Sequences, SequencesExt

CONSTANTS Session, Other, MaxChunks, MaxSent, MaxKills

ASSUME ProviderAssumption ==
  Session # Other /\ {MaxChunks, MaxSent, MaxKills} \subseteq Nat

VARIABLES
  main,               \* where run() is suspended
  watching,           \* the _watch_events task
  page, call,         \* the browser's page, and the meeting it shows
  active,             \* captureActive of audio_inject.js
  capturing,          \* _capturing of the provider
  heard, pipe,        \* chunks of sound so far, those on their way to Python
  samples,            \* _samples of the sink
  file, recording,    \* the wav file, and what it holds
  commands, events, sent, kills

pageVars == <<page, call, active, heard, pipe>>
sinkVars == <<capturing, samples>>
wavVars == <<file, recording>>
envVars == <<commands, sent, kills>>
vars == <<main, watching, pageVars, sinkVars, wavVars, envVars, events>>

InJoin == {"starting", "opening", "entering", "muting"}
Answering == {"stopping", "stopped", "finalized", "leaving", "hung_up"}
Over == {"closing", "exited"}
Running == InJoin \cup Answering \cup {"capturing", "announcing", "failing", "serving"}

Init ==
  /\ main = "starting" /\ watching = "created"
  /\ page = "none" /\ call = "outside" /\ active = FALSE
  /\ heard = 0 /\ pipe = <<>>
  /\ capturing = FALSE /\ samples = <<>>
  /\ file = "none" /\ recording = <<>>
  /\ commands = <<>> /\ events = <<>> /\ sent = 0 /\ kills = 0

Emit(ev) == events' = Append(events, [sid |-> Session, ev |-> ev])
Reported(ev) == \E i \in DOMAIN events : events[i].ev = ev

-----------------------------------------------------------------------------
(* The watch task gets the loop at the first await of join: there is no page
   yet, so its generator returns, and the loop that looks for the end of the
   meeting, or for a waiting room, is never entered. *)
WatchStarts ==
  /\ watching = "created" /\ page = "none"
  /\ watching' = "ended"
  /\ UNCHANGED <<main, pageVars, sinkVars, wavVars, envVars, events>>

StartBrowser ==
  /\ main = "starting" /\ watching = "ended"
  /\ main' = "opening" /\ page' = "open"
  /\ UNCHANGED <<watching, call, active, heard, pipe, sinkVars, wavVars, envVars, events>>

OpenMeeting ==
  /\ main = "opening" /\ page = "open"
  /\ main' = "entering"
  /\ UNCHANGED <<watching, pageVars, sinkVars, wavVars, envVars, events>>

(* A button is clicked and leads into the call or a waiting room, or none is
   found; join goes on either way. *)
EnterMeeting ==
  /\ main = "entering" /\ page = "open"
  /\ main' = "muting"
  /\ call' \in {"outside", "waiting", "in"}
  /\ UNCHANGED <<watching, page, active, heard, pipe, sinkVars, wavVars, envVars, events>>

(* The page runs __telemostStartCapture, then the answer resumes join. *)
StartCapture ==
  /\ main = "muting" /\ page = "open"
  /\ main' = "capturing" /\ active' = TRUE
  /\ UNCHANGED <<watching, page, call, heard, pipe, sinkVars, wavVars, envVars, events>>

Joined ==
  /\ main = "capturing"
  /\ main' = "announcing" /\ capturing' = TRUE
  /\ UNCHANGED <<watching, pageVars, samples, wavVars, envVars, events>>

Announce ==
  /\ main = "announcing"
  /\ main' = "serving"
  /\ Emit("recording")
  /\ UNCHANGED <<watching, pageVars, sinkVars, wavVars, envVars>>

JoinRaises ==
  /\ main \in InJoin /\ watching = "ended"
  /\ main' = "failing"
  /\ UNCHANGED <<watching, pageVars, sinkVars, wavVars, envVars, events>>

ReportFailure ==
  /\ main = "failing"
  /\ main' = "closing"
  /\ Emit("failed")
  /\ UNCHANGED <<watching, pageVars, sinkVars, wavVars, envVars>>

-----------------------------------------------------------------------------
(* The organiser lets the bot in, the call ends. *)
Admit ==
  /\ call = "waiting" /\ call' = "in"
  /\ UNCHANGED <<main, watching, page, active, heard, pipe, sinkVars, wavVars, envVars, events>>

MeetingEnds ==
  /\ call \in {"waiting", "in"} /\ call' = "ended"
  /\ UNCHANGED <<main, watching, page, active, heard, pipe, sinkVars, wavVars, envVars, events>>

Sound ==
  /\ call = "in" /\ active /\ page = "open" /\ heard < MaxChunks
  /\ heard' = heard + 1
  /\ pipe' = Append(pipe, heard')
  /\ UNCHANGED <<main, watching, page, call, active, sinkVars, wavVars, envVars, events>>

(* Mutant: on_chunk keeps whatever arrives. *)
AcceptsAll == TRUE

Accepts == capturing

OnAudioChunk ==
  /\ pipe # <<>>
  /\ pipe' = Tail(pipe)
  /\ samples' = IF Accepts THEN Append(samples, Head(pipe)) ELSE samples
  /\ UNCHANGED <<main, watching, page, call, active, heard, capturing, wavVars, envVars, events>>

(* The page, or the whole browser, is gone under the provider. *)
BrowserDies ==
  /\ page = "open"
  /\ page' = "dead" /\ call' = "outside" /\ active' = FALSE /\ pipe' = <<>>
  /\ UNCHANGED <<main, watching, heard, sinkVars, wavVars, envVars, events>>

-----------------------------------------------------------------------------
(* The gateway asks this worker to stop once it has heard that it records, and
   to leave once it has heard that the capture is stopped; the stream carries
   the commands for other workers too. *)
Send(sid, act) ==
  /\ sent < MaxSent
  /\ sid = Session => Reported(IF act = "leave" THEN "capture_stopped" ELSE "recording")
  /\ commands' = Append(commands, [sid |-> sid, act |-> act])
  /\ sent' = sent + 1
  /\ UNCHANGED <<main, watching, pageVars, sinkVars, wavVars, events, kills>>

(* Mutant: _handle_command has no branch for LEAVE. *)
HandlerStopOnly == [stop_recording |-> "stopping", leave |-> "unknown"]

Handler == [stop_recording |-> "stopping", leave |-> "leaving"]

TakeCommand ==
  /\ main = "serving" /\ commands # <<>>
  /\ commands' = Tail(commands)
  /\ main' = IF Head(commands).sid = Session THEN Handler[Head(commands).act] ELSE main
  /\ UNCHANGED <<watching, pageVars, sinkVars, wavVars, events, sent, kills>>

(* page.evaluate of __telemostStopCapture; that it fails is only logged. *)
StopScript ==
  /\ main = "stopping"
  /\ main' = "stopped"
  /\ active' \in {FALSE, active}
  /\ UNCHANGED <<watching, page, call, heard, pipe, sinkVars, wavVars, envVars, events>>

(* Mutant: the sink is not finalised. *)
WriteNothing == UNCHANGED wavVars

(* WavAudioSink.finalize, which never yields: wave.open truncates a file that
   is there already, and all samples so far are written. *)
WriteWav == file' = "whole" /\ recording' = samples

StopCapture ==
  /\ main = "stopped"
  /\ main' = "finalized" /\ capturing' = FALSE
  /\ WriteWav
  /\ UNCHANGED <<watching, pageVars, samples, envVars, events>>

AnswerStop ==
  /\ main = "finalized"
  /\ main' = "serving"
  /\ Emit("capture_stopped")
  /\ UNCHANGED <<watching, pageVars, sinkVars, wavVars, envVars>>

(* Mutant: the bot answers from a page that is still open. *)
LeaveOpen == UNCHANGED <<page, call, active, pipe>>

(* TelemostBrowser.close takes the bot out of the call, button or no button. *)
ClosePage == page' = "closed" /\ call' = "outside" /\ active' = FALSE /\ pipe' = <<>>

HangUp ==
  /\ main = "leaving" /\ page = "open"
  /\ main' = "hung_up" /\ capturing' = FALSE
  /\ ClosePage
  /\ UNCHANGED <<watching, heard, samples, wavVars, envVars, events>>

(* Looking for a button on a page that is gone raises, and run() ends. *)
LeaveRaises ==
  /\ main = "leaving" /\ page = "dead"
  /\ main' = "closing" /\ kills' = kills + 1
  /\ UNCHANGED <<watching, pageVars, sinkVars, wavVars, commands, sent, events>>

AnswerLeft ==
  /\ main = "hung_up"
  /\ main' = "closing"
  /\ Emit("left")
  /\ UNCHANGED <<watching, pageVars, sinkVars, wavVars, envVars>>

Close ==
  /\ main = "closing"
  /\ main' = "exited"
  /\ page' = "closed" /\ call' = "outside" /\ active' = FALSE /\ pipe' = <<>>
  /\ UNCHANGED <<watching, heard, sinkVars, wavVars, envVars, events>>

(* The process is killed; the browser goes with it.  A wav file it was just
   writing stays as it is. *)
Crash ==
  /\ main \in Running /\ kills < MaxKills
  /\ main' = "exited" /\ kills' = kills + 1
  /\ page' = "closed" /\ call' = "outside" /\ active' = FALSE /\ pipe' = <<>>
  /\ file' \in {file} \cup {f \in {"partial"} : main = "stopped"}
  /\ UNCHANGED <<watching, heard, sinkVars, recording, commands, sent, events>>

-----------------------------------------------------------------------------
RunStep ==
  \/ WatchStarts \/ StartBrowser \/ OpenMeeting \/ EnterMeeting
  \/ StartCapture \/ Joined \/ Announce \/ ReportFailure
  \/ TakeCommand \/ StopScript \/ StopCapture \/ AnswerStop
  \/ HangUp \/ LeaveRaises \/ AnswerLeft \/ Close

MeetingStep == Admit \/ MeetingEnds \/ Sound

Next ==
  \/ RunStep \/ JoinRaises \/ OnAudioChunk
  \/ MeetingStep \/ BrowserDies \/ Crash
  \/ \E sid \in {Session, Other}, act \in DOMAIN Handler : Send(sid, act)

Spec == Init /\ [][Next]_vars

ProviderTypeOK ==
  /\ main \in Running \cup Over
  /\ watching \in {"created", "ended"}
  /\ page \in {"none", "open", "dead", "closed"}
  /\ call \in {"outside", "waiting", "in", "ended"}
  /\ active \in BOOLEAN /\ capturing \in BOOLEAN
  /\ {Range(pipe), Range(samples), Range(recording)} \subseteq SUBSET (1..heard)
  /\ file \in {"none", "partial", "whole"}
  /\ \A c \in Range(commands) : c \in [sid : {Session, Other}, act : DOMAIN Handler]
  /\ \A e \in Range(events) : e.ev \in {"recording", "capture_stopped", "left", "failed"}

(* A stop command that is executed again, late or twice, leaves the recording
   that was announced as it is: no chunk still on its way gets into it. *)
RewriteIsSame ==
  [][Reported("capture_stopped") /\ file' = "whole" => recording' = recording]_vars

(* Who has been told that the bot left finds no page in the meeting. *)
LeftMeansClosed == Reported("left") => page = "closed" /\ call = "outside"

-----------------------------------------------------------------------------
(* The worker the gateway sees.  The wav file counts once the worker answers,
   or dies, with it. *)
Phase ==
  [m \in Running \cup Over |->
     CASE m \in InJoin \cup {"capturing", "announcing", "failing"} -> "joining"
       [] m = "serving" -> "ready"
       [] m \in {"stopping", "stopped", "finalized"} -> "stopping"
       [] m \in {"leaving", "hung_up"} -> "leaving"
       [] m \in Over -> "exited"]

Captured == file # "none" /\ (main = "finalized" => Reported("capture_stopped"))

Mine(x, rest) == [s \in {Session, Other} |-> IF s = Session THEN x ELSE rest]

Worker == INSTANCE MeetingWorker WITH
  Sessions <- {Session, Other}, ProviderEvents <- {}, MaxFaults <- MaxKills + 1,
  worker <- Mine(Phase[main], "none"),
  audio <- Mine(IF Captured THEN "present" ELSE "none", "none"),
  faults <- kills,
  watch <- Mine({}, {}), transcript <- Mine(FALSE, FALSE), status <- Mine("joining", "absent"),
  deletedAt <- Mine(FALSE, FALSE), expires <- Mine(FALSE, FALSE), signal <- Mine({}, {}),
  frame <- <<>>, overdue <- {}, armed <- {}, offered <- {}, jobs <- <<>>, transcriber <- 0,
  Users <- {}, Owner <- <<>>, Slots <- {}, Listener <- 0, Followup <- 0, NoSession <- 0,
  CreateModes <- {}, AutoAction <- "retain", AwareTimestamps <- TRUE,
  RetentionOutlasts <- TRUE, Punctual <- TRUE, MaxQueued <- 0

(* Every step is one of the worker's that MeetingWorker describes, or none it
   shows: an answer follows what it answers, and of what the provider might
   report on its own nothing ever comes. *)
ActsAsWorker ==
  [][\/ Worker!Join(Session) \/ Worker!JoinFail(Session)
     \/ Worker!TakeCommand(Session) \/ Worker!StopCapture(Session)
     \/ Worker!Leave(Session) \/ Worker!WorkerCrash(Session)
     \/ \E sid \in {Session, Other}, act \in DOMAIN Handler : Send(sid, act)]_<<Worker!vars, commands>>
=============================================================================
