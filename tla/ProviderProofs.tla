--------------------------- MODULE ProviderProofs ---------------------------
(***************************************************************************)
(* TelemostProvider, for any number of chunks, commands and kills: its     *)
(* types, what a worker that has answered is like, and that it is the      *)
(* worker of MeetingWorker.                                                *)
(***************************************************************************)
EXTENDS TelemostProvider, SequenceTheorems, TLAPS

Command == [sid : {Session, Other}, act : DOMAIN Handler]
Report == [sid : {Session}, ev : {"recording", "capture_stopped", "left", "failed"}]

SoundTypes ==
  /\ heard \in Nat
  /\ {pipe, samples, recording} \subseteq Seq(1..heard)

ProviderTypes ==
  /\ main \in Running \cup Over
  /\ watching \in {"created", "ended"}
  /\ page \in {"none", "open", "dead", "closed"}
  /\ call \in {"outside", "waiting", "in", "ended"}
  /\ active \in BOOLEAN /\ capturing \in BOOLEAN
  /\ file \in {"none", "partial", "whole"}
  /\ commands \in Seq(Command) /\ events \in Seq(Report)
  /\ kills \in Nat
  /\ SoundTypes

-----------------------------------------------------------------------------
(* Nothing is reported before the bot has joined. *)
SilentUntilJoined == main \in InJoin \cup {"capturing", "announcing", "failing"} => events = <<>>

(* The bot reports that it left after it has closed the page, as its last. *)
LeavesLast ==
  /\ main = "hung_up" => page = "closed" /\ call = "outside"
  /\ Reported("left") => main \in Over /\ page = "closed" /\ call = "outside"

(* While the worker lives, the file is there iff its capture has been
   announced; between writing and announcing it stands at "finalized". *)
FileAnnounced ==
  /\ main = "finalized" => file = "whole"
  /\ main \notin Over \cup {"finalized"} => (file # "none" <=> Reported("capture_stopped"))

(* From then on the sink is closed, and the file is what it holds. *)
SinkClosed ==
  main = "finalized" \/ Reported("capture_stopped") => ~capturing /\ recording = samples

(* The kill that ends a worker may be its last. *)
KillsBounded == main \in Running => kills <= MaxKills

ProviderInv ==
  /\ ProviderTypes
  /\ SilentUntilJoined
  /\ LeavesLast
  /\ FileAnnounced
  /\ SinkClosed
  /\ KillsBounded

-----------------------------------------------------------------------------
(* The two commands, and where the handler of each begins. *)
LEMMA HandlerOf ==
  /\ DOMAIN Handler = {"stop_recording", "leave"}
  /\ Handler["stop_recording"] = "stopping" /\ Handler["leave"] = "leaving"
BY DEF Handler

(* Chunks that have been heard so far have been heard later, too. *)
LEMMA HeardStays ==
  ASSUME NEW n \in Nat, NEW s \in Seq(1..n)
  PROVE  s \in Seq(1..(n + 1))
<1>1. 1..n \subseteq 1..(n + 1)
  OBVIOUS
<1> QED
  BY <1>1, SeqMonotonic

(* A report is added to those there are. *)
LEMMA Reports ==
  ASSUME events \in Seq(Report), NEW ev \in {"recording", "capture_stopped", "left", "failed"},
         Emit(ev)
  PROVE  /\ events' \in Seq(Report) /\ events' # <<>>
         /\ \A e : Reported(e)' <=> Reported(e) \/ e = ev
<1> DEFINE r == [sid |-> Session, ev |-> ev]
<1>1. r \in Report
  BY DEF Report
<1>2. events' = Append(events, r)
  BY DEF Emit
<1>3. /\ events' \in Seq(Report) /\ events' # <<>>
      /\ DOMAIN events' = 1..(Len(events) + 1)
      /\ \A i \in 1..Len(events) : events'[i] = events[i]
      /\ events'[Len(events) + 1] = r
  BY <1>1, <1>2, AppendProperties, LenProperties
<1>4. DOMAIN events = 1..Len(events) /\ Len(events) \in Nat
  BY LenProperties
<1>5. ASSUME NEW e PROVE Reported(e)' <=> Reported(e) \/ e = ev
  <2>1. Reported(e)' <=> \E i \in 1..(Len(events) + 1) : events'[i].ev = e
    BY <1>3 DEF Reported
  <2>2. Reported(e) <=> \E i \in 1..Len(events) : events[i].ev = e
    BY <1>4 DEF Reported
  <2>3. r.ev = ev
    OBVIOUS
  <2>4. 1..(Len(events) + 1) = (1..Len(events)) \cup {Len(events) + 1}
    BY <1>4
  <2> QED
    BY <1>3, <2>1, <2>2, <2>3, <2>4
<1> QED
  BY <1>3, <1>5

(* What is not emitted is not reported. *)
LEMMA ReportsStay ==
  ASSUME UNCHANGED events
  PROVE  \A e : Reported(e)' <=> Reported(e)
BY DEF Reported

(* Who has emitted nothing has reported nothing. *)
LEMMA NothingReported ==
  ASSUME events = <<>>
  PROVE  \A e : ~Reported(e)
BY DEF Reported

-----------------------------------------------------------------------------
(* The conjuncts of ProviderInv hold at the start. *)
LEMMA ProviderInit == Init => ProviderInv
<1> SUFFICES ASSUME Init PROVE ProviderInv
  OBVIOUS
<1> USE DEF Init
<1>1. events = <<>> /\ \A e : ~Reported(e)
  BY NothingReported
<1>2. ProviderTypes
  BY EmptySeq, ProviderAssumption DEF ProviderTypes, SoundTypes, Running, InJoin
<1>3. SilentUntilJoined /\ LeavesLast /\ FileAnnounced /\ SinkClosed /\ KillsBounded
  BY <1>1, ProviderAssumption
     DEF SilentUntilJoined, LeavesLast, FileAnnounced, SinkClosed, KillsBounded
<1> QED
  BY <1>2, <1>3 DEF ProviderInv

(* What is heard, on its way, kept and written are chunks heard so far. *)
LEMMA SoundTypesStep ==
  ASSUME ProviderTypes, [Next]_vars
  PROVE  SoundTypes'
<1> USE DEF ProviderTypes, SoundTypes
<1>1. CASE Sound
  <2>1. heard' = heard + 1 /\ heard' \in Nat /\ heard' \in 1..heard'
    BY <1>1 DEF Sound
  <2>2. {pipe, samples, recording} \subseteq Seq(1..heard')
    BY <2>1, HeardStays
  <2>3. pipe' \in Seq(1..heard')
    BY <1>1, <2>1, <2>2, AppendProperties DEF Sound
  <2> QED
    BY <1>1, <2>1, <2>2, <2>3 DEF Sound, sinkVars, wavVars
<1>2. CASE OnAudioChunk
  <2>1. Head(pipe) \in 1..heard /\ pipe' \in Seq(1..heard)
    BY <1>2, HeadTailProperties DEF OnAudioChunk
  <2>2. Append(samples, Head(pipe)) \in Seq(1..heard)
    BY <2>1, AppendProperties
  <2> QED
    BY <1>2, <2>1, <2>2 DEF OnAudioChunk, wavVars
<1>3. CASE StopCapture
  BY <1>3 DEF StopCapture, WriteWav, pageVars
<1>4. ASSUME UNCHANGED <<heard, samples, recording>>, pipe' \in {pipe, <<>>}
      PROVE  SoundTypes'
  BY <1>4, EmptySeq
<1>5. CASE ~(Sound \/ OnAudioChunk \/ StopCapture)
  <2>1. UNCHANGED <<heard, samples, recording>> /\ pipe' \in {pipe, <<>>}
    BY <1>5 DEF vars, pageVars, sinkVars, wavVars, envVars, Next, RunStep, MeetingStep,
       WatchStarts, StartBrowser, OpenMeeting, EnterMeeting, StartCapture, Joined, Announce,
       JoinRaises, ReportFailure, Admit, MeetingEnds, BrowserDies, Send, TakeCommand,
       StopScript, AnswerStop, HangUp, ClosePage, LeaveRaises, AnswerLeft, Close, Crash
  <2> QED
    BY <1>4, <2>1
<1> QED
  BY <1>1, <1>2, <1>3, <1>5

(* The commands and the reports stay what they can be. *)
LEMMA StreamTypesStep ==
  ASSUME ProviderTypes, [Next]_vars
  PROVE  commands' \in Seq(Command) /\ events' \in Seq(Report)
<1> USE DEF ProviderTypes
<1>1. ASSUME NEW sid \in {Session, Other}, NEW act \in DOMAIN Handler, Send(sid, act)
      PROVE  commands' \in Seq(Command) /\ events' = events
  <2>1. [sid |-> sid, act |-> act] \in Command
    BY DEF Command
  <2> QED
    BY <1>1, <2>1, AppendProperties DEF Send
<1>2. CASE TakeCommand
  BY <1>2, HeadTailProperties DEF TakeCommand
<1>3. CASE Announce \/ ReportFailure \/ AnswerStop \/ AnswerLeft
  <2>1. events' \in Seq(Report)
    BY <1>3, Reports DEF Announce, ReportFailure, AnswerStop, AnswerLeft
  <2> QED
    BY <1>3, <2>1 DEF Announce, ReportFailure, AnswerStop, AnswerLeft, envVars
<1>4. CASE ~(\/ TakeCommand \/ Announce \/ ReportFailure \/ AnswerStop \/ AnswerLeft
             \/ \E sid \in {Session, Other}, act \in DOMAIN Handler : Send(sid, act))
  BY <1>4 DEF vars, envVars, Next, RunStep, MeetingStep,
     WatchStarts, StartBrowser, OpenMeeting, EnterMeeting, StartCapture, Joined,
     JoinRaises, Admit, MeetingEnds, Sound, OnAudioChunk, BrowserDies,
     StopScript, StopCapture, HangUp, LeaveRaises, Close, Crash
<1> QED
  BY <1>1, <1>2, <1>3, <1>4

(* Where a command leads run(). *)
LEMMA CommandTaken ==
  ASSUME ProviderTypes, TakeCommand
  PROVE  /\ Head(commands) \in Command
         /\ main = "serving" /\ main' \in {"serving", "stopping", "leaving"}
<1>1. Head(commands) \in Command
  BY HeadTailProperties DEF ProviderTypes, TakeCommand
<1>2. Head(commands).act \in {"stop_recording", "leave"}
  BY <1>1, HandlerOf DEF Command
<1> QED
  BY <1>1, <1>2, HandlerOf DEF TakeCommand

(* run() goes from one of its awaits to another. *)
LEMMA MainStep ==
  ASSUME ProviderTypes, [Next]_vars
  PROVE  main' \in Running \cup Over
<1> USE DEF ProviderTypes, Running, Over, InJoin, Answering
<1>1. CASE TakeCommand
  BY <1>1, CommandTaken
<1>2. CASE ~TakeCommand
  BY <1>2 DEF vars, pageVars, sinkVars, wavVars, envVars, Next, RunStep, MeetingStep,
     WatchStarts, StartBrowser, OpenMeeting, EnterMeeting, StartCapture, Joined, Announce,
     JoinRaises, ReportFailure, Admit, MeetingEnds, Sound, OnAudioChunk, BrowserDies, Send,
     StopScript, StopCapture, AnswerStop, HangUp, LeaveRaises, AnswerLeft, Close, Crash
<1> QED
  BY <1>1, <1>2

(* So do the page, the sink, the file and the count of the kills. *)
LEMMA RestTypesStep ==
  ASSUME ProviderTypes, [Next]_vars
  PROVE  /\ watching' \in {"created", "ended"}
         /\ page' \in {"none", "open", "dead", "closed"}
         /\ call' \in {"outside", "waiting", "in", "ended"}
         /\ active' \in BOOLEAN /\ capturing' \in BOOLEAN
         /\ file' \in {"none", "partial", "whole"}
         /\ kills' \in Nat
<1> USE DEF ProviderTypes, vars, pageVars, sinkVars, wavVars, envVars, Next, RunStep,
     MeetingStep, WatchStarts, StartBrowser, OpenMeeting, EnterMeeting, StartCapture, Joined,
     Announce, JoinRaises, ReportFailure, Admit, MeetingEnds, Sound, OnAudioChunk,
     BrowserDies, Send, TakeCommand, StopScript, StopCapture, WriteWav, AnswerStop, HangUp,
     ClosePage, AnswerLeft, Close
<1>1. watching' \in {"created", "ended"} /\ page' \in {"none", "open", "dead", "closed"}
  BY DEF LeaveRaises, Crash
<1>2. call' \in {"outside", "waiting", "in", "ended"}
  BY DEF LeaveRaises, Crash
<1>3. active' \in BOOLEAN /\ capturing' \in BOOLEAN
  BY DEF LeaveRaises, Crash
<1>4. file' \in {"none", "partial", "whole"}
  BY DEF LeaveRaises, Crash
<1>5. kills' \in Nat
  <2>1. CASE LeaveRaises \/ Crash
    <3>1. kills' = kills + 1
      BY <2>1 DEF LeaveRaises, Crash
    <3> QED
      BY <3>1
  <2>2. CASE ~(LeaveRaises \/ Crash)
    <3>1. kills' = kills
      BY <2>2
    <3> QED
      BY <3>1
  <2> QED
    BY <2>1, <2>2
<1> QED
  BY <1>1, <1>2, <1>3, <1>4, <1>5

(* Every step of the process keeps its types, and those of sound, streams and pages. *)
LEMMA ProviderTypesStep ==
  ASSUME ProviderTypes, [Next]_vars
  PROVE  ProviderTypes'
BY SoundTypesStep, StreamTypesStep, MainStep, RestTypesStep DEF ProviderTypes

-----------------------------------------------------------------------------
(* The four steps that emit, with what they emit; no other step does. *)
Emits ==
  \/ main = "announcing" /\ main' = "serving" /\ Emit("recording")
  \/ main = "failing" /\ main' = "closing" /\ Emit("failed")
  \/ main = "finalized" /\ main' = "serving" /\ Emit("capture_stopped")
  \/ main = "hung_up" /\ main' = "closing" /\ Emit("left")

(* A step that emits changes nothing else but where run() is. *)
LEMMA EmitsOrNot ==
  ASSUME ProviderTypes, [Next]_vars
  PROVE  \/ UNCHANGED events
         \/ Emits /\ UNCHANGED <<watching, pageVars, sinkVars, wavVars, envVars>>
BY DEF Emits, vars, envVars, Next, RunStep, MeetingStep,
   WatchStarts, StartBrowser, OpenMeeting, EnterMeeting, StartCapture, Joined, Announce,
   JoinRaises, ReportFailure, Admit, MeetingEnds, Sound, OnAudioChunk, BrowserDies, Send,
   TakeCommand, StopScript, StopCapture, AnswerStop, HangUp, LeaveRaises, AnswerLeft, Close,
   Crash

(* Once the bot has left or been killed, run() is over. *)
LEMMA OverStays ==
  ASSUME ProviderTypes, [Next]_vars, main \in Over
  PROVE  main' \in Over /\ UNCHANGED <<file, recording, events, kills>>
BY DEF Over, Running, InJoin, Answering, vars, pageVars, sinkVars, wavVars, envVars, Next,
   RunStep, MeetingStep, WatchStarts, StartBrowser, OpenMeeting, EnterMeeting, StartCapture,
   Joined, Announce, JoinRaises, ReportFailure, Admit, MeetingEnds, Sound, OnAudioChunk,
   BrowserDies, Send, TakeCommand, StopScript, StopCapture, AnswerStop, HangUp, LeaveRaises,
   AnswerLeft, Close, Crash

(* Until it has joined, run() only goes on joining, fails, or is killed; there
   is no way back to it. *)
LEMMA JoinOnce ==
  ASSUME ProviderTypes, [Next]_vars,
         main' \in InJoin \cup {"capturing", "announcing", "failing"}
  PROVE  main \in InJoin \cup {"capturing", "announcing", "failing"} /\ UNCHANGED events
<1>1. ~TakeCommand
  BY CommandTaken DEF InJoin
<1> QED
  BY <1>1 DEF InJoin, vars, pageVars, sinkVars, wavVars, envVars, Next, RunStep, MeetingStep,
     WatchStarts, StartBrowser, OpenMeeting, EnterMeeting, StartCapture, Joined, Announce,
     JoinRaises, ReportFailure, Admit, MeetingEnds, Sound, OnAudioChunk, BrowserDies, Send,
     StopScript, StopCapture, AnswerStop, HangUp, LeaveRaises, AnswerLeft, Close, Crash

(* Nothing is reported before the bot has joined. *)
LEMMA SilentStep ==
  ASSUME ProviderTypes, SilentUntilJoined, [Next]_vars
  PROVE  SilentUntilJoined'
BY JoinOnce DEF SilentUntilJoined

(* A page that is closed, with the bot outside, stays so once run() has hung
   up or is over. *)
LEMMA ClosedStays ==
  ASSUME ProviderTypes, [Next]_vars, main \in {"hung_up"} \cup Over,
         page = "closed", call = "outside"
  PROVE  page' = "closed" /\ call' = "outside" /\ main' \in {"hung_up"} \cup Over
BY DEF Over, Running, InJoin, Answering, vars, pageVars, sinkVars, wavVars, envVars, Next,
   RunStep, MeetingStep, WatchStarts, StartBrowser, OpenMeeting, EnterMeeting, StartCapture,
   Joined, Announce, JoinRaises, ReportFailure, Admit, MeetingEnds, Sound, OnAudioChunk,
   BrowserDies, Send, TakeCommand, StopScript, StopCapture, AnswerStop, HangUp, ClosePage,
   LeaveRaises, AnswerLeft, Close, Crash

(* The bot reports that it left after it has closed the page, as its last. *)
LEMMA LeavesLastStep ==
  ASSUME ProviderTypes, LeavesLast, [Next]_vars
  PROVE  LeavesLast'
<1>1. ASSUME main' = "hung_up" PROVE page' = "closed" /\ call' = "outside"
  <2>1. CASE main = "hung_up"
    BY <1>1, <2>1, ClosedStays DEF LeavesLast
  <2>2. CASE main # "hung_up"
    <3>1. ~TakeCommand
      BY <1>1, CommandTaken
    <3>2. HangUp
      BY <1>1, <2>2, <3>1 DEF vars, pageVars, sinkVars, wavVars, envVars, Next, RunStep,
         MeetingStep, WatchStarts, StartBrowser, OpenMeeting, EnterMeeting, StartCapture,
         Joined, Announce, JoinRaises, ReportFailure, Admit, MeetingEnds, Sound, OnAudioChunk,
         BrowserDies, Send, StopScript, StopCapture, AnswerStop, LeaveRaises, AnswerLeft,
         Close, Crash
    <3> QED
      BY <3>2 DEF HangUp, ClosePage
  <2> QED
    BY <2>1, <2>2
<1>2. ASSUME Reported("left")'
      PROVE  main' \in Over /\ page' = "closed" /\ call' = "outside"
  <2>1. CASE Reported("left")
    BY <2>1, OverStays, ClosedStays DEF LeavesLast
  <2>2. CASE ~Reported("left")
    <3>1. ~UNCHANGED events
      BY <1>2, <2>2, ReportsStay
    <3>2. Emits /\ UNCHANGED <<page, call>>
      BY <3>1, EmitsOrNot DEF pageVars
    <3>3. main = "hung_up" /\ main' = "closing"
      BY <1>2, <2>2, <3>2, Reports DEF Emits, ProviderTypes
    <3> QED
      BY <3>2, <3>3 DEF LeavesLast, Over
  <2> QED
    BY <2>1, <2>2
<1> QED
  BY <1>1, <1>2 DEF LeavesLast

-----------------------------------------------------------------------------
(* The file is written at the end of a capture, or by a worker that is killed
   as it writes. *)
LEMMA FileStep ==
  ASSUME ProviderTypes, [Next]_vars
  PROVE  \/ UNCHANGED wavVars
         \/ StopCapture
         \/ main = "stopped" /\ main' = "exited" /\ UNCHANGED <<recording, events>>
BY DEF vars, wavVars, envVars, Next, RunStep, MeetingStep,
   WatchStarts, StartBrowser, OpenMeeting, EnterMeeting, StartCapture, Joined, Announce,
   JoinRaises, ReportFailure, Admit, MeetingEnds, Sound, OnAudioChunk, BrowserDies, Send,
   TakeCommand, StopScript, AnswerStop, HangUp, LeaveRaises, AnswerLeft, Close, Crash

(* Where the file is written, and where that is announced. *)
LEMMA Finalized ==
  ASSUME ProviderTypes, [Next]_vars
  PROVE  /\ main' = "finalized" => UNCHANGED main \/ StopCapture
         /\ main = "finalized" => main' \in {"finalized", "serving", "exited"}
         /\ main = "finalized" /\ main' = "serving" => Emit("capture_stopped")
<1>1. TakeCommand => main = "serving" /\ main' # "finalized"
  BY CommandTaken
<1>2. StopCapture => main = "stopped" /\ main' = "finalized"
  BY DEF StopCapture
<1> QED
  BY <1>1, <1>2 DEF InJoin, vars, envVars, Next, RunStep, MeetingStep,
     WatchStarts, StartBrowser, OpenMeeting, EnterMeeting, StartCapture, Joined, Announce,
     JoinRaises, ReportFailure, Admit, MeetingEnds, Sound, OnAudioChunk, BrowserDies, Send,
     StopScript, AnswerStop, HangUp, LeaveRaises, AnswerLeft, Close, Crash

(* The file is there iff its capture has been announced. *)
LEMMA FileAnnouncedStep ==
  ASSUME ProviderTypes, FileAnnounced, [Next]_vars
  PROVE  FileAnnounced'
<1>1. ASSUME main' = "finalized" PROVE file' = "whole"
  <2>1. CASE StopCapture
    BY <2>1 DEF StopCapture, WriteWav
  <2>2. CASE ~StopCapture
    <3>1. main = "finalized"
      BY <1>1, <2>2, Finalized
    <3> QED
      BY <2>2, <3>1, FileStep DEF FileAnnounced, wavVars
  <2> QED
    BY <2>1, <2>2
<1>2. ASSUME main' \notin Over \cup {"finalized"}
      PROVE  file' # "none" <=> Reported("capture_stopped")'
  <2>1. main \notin Over /\ UNCHANGED file
    BY <1>2, OverStays, FileStep DEF Over, StopCapture, wavVars
  <2>2. CASE main = "finalized"
    <3>1. Emit("capture_stopped")
      BY <1>2, <2>2, Finalized DEF Over
    <3>2. Reported("capture_stopped")'
      BY <3>1, Reports DEF ProviderTypes
    <3> QED
      BY <2>1, <2>2, <3>2 DEF FileAnnounced
  <2>3. CASE main # "finalized"
    <3>1. UNCHANGED events \/ Emit("recording") \/ Emit("failed") \/ Emit("left")
      BY <2>3, EmitsOrNot DEF Emits
    <3>2. Reported("capture_stopped")' <=> Reported("capture_stopped")
      BY <3>1, Reports, ReportsStay DEF ProviderTypes
    <3> QED
      BY <2>1, <2>3, <3>2 DEF FileAnnounced
  <2> QED
    BY <2>2, <2>3
<1> QED
  BY <1>1, <1>2 DEF FileAnnounced

(* The sink is opened once, by the join, and closed again by the stop. *)
LEMMA SinkStep ==
  ASSUME ProviderTypes, [Next]_vars
  PROVE  \/ UNCHANGED sinkVars
         \/ OnAudioChunk
         \/ main = "capturing" /\ main' = "announcing"
         \/ UNCHANGED samples /\ ~capturing'
BY DEF vars, sinkVars, wavVars, envVars, Next, RunStep, MeetingStep,
   WatchStarts, StartBrowser, OpenMeeting, EnterMeeting, StartCapture, Joined, Announce,
   JoinRaises, ReportFailure, Admit, MeetingEnds, Sound, BrowserDies, Send, TakeCommand,
   StopScript, StopCapture, AnswerStop, HangUp, LeaveRaises, AnswerLeft, Close, Crash

(* A closed sink keeps nothing that still arrives. *)
LEMMA ClosedSinkStays ==
  ASSUME ProviderTypes, SilentUntilJoined, SinkClosed, [Next]_vars,
         main = "finalized" \/ Reported("capture_stopped")
  PROVE  ~capturing' /\ recording' = samples'
<1>1. ~capturing /\ recording = samples /\ main # "capturing"
  BY NothingReported DEF SinkClosed, SilentUntilJoined
<1>2. UNCHANGED samples /\ ~capturing'
  <2>1. CASE OnAudioChunk
    BY <1>1, <2>1 DEF OnAudioChunk, Accepts
  <2>2. CASE ~OnAudioChunk
    BY <1>1, <2>2, SinkStep DEF sinkVars
  <2> QED
    BY <2>1, <2>2
<1>3. CASE StopCapture
  BY <1>2, <1>3 DEF StopCapture, WriteWav
<1>4. CASE ~StopCapture
  BY <1>1, <1>2, <1>4, FileStep DEF wavVars
<1> QED
  BY <1>3, <1>4

(* A step keeps SinkClosed: what is captured after the stop never reaches the file. *)
LEMMA SinkClosedStep ==
  ASSUME ProviderTypes, SilentUntilJoined, SinkClosed, [Next]_vars
  PROVE  SinkClosed'
<1> SUFFICES ASSUME main' = "finalized" \/ Reported("capture_stopped")'
             PROVE  ~capturing' /\ recording' = samples'
  BY DEF SinkClosed
<1>1. CASE main = "finalized" \/ Reported("capture_stopped")
  BY <1>1, ClosedSinkStays
<1>2. CASE StopCapture
  BY <1>2 DEF StopCapture, WriteWav
<1>3. CASE ~(main = "finalized" \/ Reported("capture_stopped") \/ StopCapture)
  <2>1. Reported("capture_stopped")'
    BY <1>3, Finalized
  <2>2. Emits
    BY <1>3, <2>1, ReportsStay, EmitsOrNot
  <2> QED
    BY <1>3, <2>1, <2>2, Reports DEF Emits, ProviderTypes
<1> QED
  BY <1>1, <1>2, <1>3

-----------------------------------------------------------------------------
(* The kill that ends a worker may be its last. *)
LEMMA KillsStep ==
  ASSUME ProviderTypes, KillsBounded, [Next]_vars
  PROVE  KillsBounded'
<1> SUFFICES ASSUME main' \in Running PROVE kills' <= MaxKills
  BY DEF KillsBounded
<1>1. main \in Running
  BY OverStays DEF ProviderTypes, Running, InJoin, Answering, Over
<1>2. UNCHANGED kills
  BY DEF Running, InJoin, Answering, vars, envVars, Next, RunStep, MeetingStep,
     WatchStarts, StartBrowser, OpenMeeting, EnterMeeting, StartCapture, Joined, Announce,
     JoinRaises, ReportFailure, Admit, MeetingEnds, Sound, OnAudioChunk, BrowserDies, Send,
     TakeCommand, StopScript, StopCapture, AnswerStop, HangUp, LeaveRaises, AnswerLeft, Close,
     Crash
<1> QED
  BY <1>1, <1>2 DEF KillsBounded

(* ProviderInv is inductive. *)
LEMMA ProviderStep == ProviderInv /\ [Next]_vars => ProviderInv'
BY ProviderTypesStep, SilentStep, LeavesLastStep, FileAnnouncedStep, SinkClosedStep, KillsStep
   DEF ProviderInv

(* The worker is always as ProviderInv says. *)
LEMMA ProviderAlways == Spec => []ProviderInv
<1>1. Init => ProviderInv
  BY ProviderInit
<1>2. ProviderInv /\ [Next]_vars => ProviderInv'
  BY ProviderStep
<1> QED
  BY <1>1, <1>2, PTL DEF Spec

(* Everything the process keeps has its type: in particular every chunk on its
   way, in the sink or in the file is one that has been heard. *)
THEOREM ProviderTyped == Spec => []ProviderTypeOK
<1>1. ProviderInv => ProviderTypeOK
  <2> SUFFICES ASSUME ProviderInv PROVE ProviderTypeOK
    OBVIOUS
  <2> USE DEF ProviderInv, ProviderTypes, SoundTypes
  <2>1. {Range(pipe), Range(samples), Range(recording)} \subseteq SUBSET (1..heard)
    BY RangeOfSeq
  <2>2. Range(commands) \in SUBSET Command /\ Range(events) \in SUBSET Report
    BY RangeOfSeq
  <2>3. \A e \in Range(events) : e.ev \in {"recording", "capture_stopped", "left", "failed"}
    BY <2>2 DEF Report
  <2> QED
    BY <2>1, <2>2, <2>3 DEF ProviderTypeOK, Command
<1> QED
  BY <1>1, ProviderAlways, PTL

(* Who has been told that the bot left finds no page in the meeting: leave()
   closes the browser before runner.py publishes the answer. *)
THEOREM NoPageAfterLeft == Spec => []LeftMeansClosed
<1>1. ProviderInv => LeftMeansClosed
  BY DEF ProviderInv, LeavesLast, LeftMeansClosed
<1> QED
  BY <1>1, ProviderAlways, PTL

(* A stop command that is executed again, late or twice, leaves the recording
   that was announced as it is: stop_capture closes the sink before it writes,
   and nothing opens it again. *)
THEOREM RewritesTheSame == Spec => RewriteIsSame
<1>1. ASSUME ProviderInv, [Next]_vars, Reported("capture_stopped")
      PROVE  recording' = recording
  <2>1. ~capturing /\ recording = samples /\ recording' = samples'
    BY <1>1, ClosedSinkStays DEF ProviderInv, SinkClosed
  <2>2. CASE StopCapture
    BY <2>1, <2>2 DEF StopCapture, WriteWav
  <2>3. CASE ~StopCapture
    BY <1>1, <2>3, FileStep DEF ProviderInv, wavVars
  <2> QED
    BY <2>2, <2>3
<1>2. ProviderInv /\ [Next]_vars
        => [Reported("capture_stopped") /\ file' = "whole" => recording' = recording]_vars
  BY <1>1
<1> QED
  BY <1>2, ProviderAlways, PTL DEF Spec, RewriteIsSame

-----------------------------------------------------------------------------
(* What the gateway sees of Session and of the worker that is not modelled. *)
LEMMA MineIs ==
  /\ \A x, y : Mine(x, y)[Session] = x
  /\ \A x, y, z : [Mine(x, y) EXCEPT ![Session] = z] = Mine(z, y)
BY ProviderAssumption DEF Mine

(* Which state of the worker each point of run() is, as the gateway sees it. *)
LEMMA Phases ==
  /\ \A m \in InJoin \cup {"capturing", "announcing", "failing"} : Phase[m] = "joining"
  /\ Phase["serving"] = "ready"
  /\ \A m \in {"stopping", "stopped", "finalized"} : Phase[m] = "stopping"
  /\ \A m \in {"leaving", "hung_up"} : Phase[m] = "leaving"
  /\ \A m \in Over : Phase[m] = "exited"
BY DEF Phase, InJoin, Over, Running, Answering

(* What the gateway sees of it, besides the streams. *)
Sight == <<Phase[main], Captured, kills>>

(* A step that shows nothing of this is none of the worker's. *)
LEMMA NotSeen ==
  ASSUME UNCHANGED <<Sight, events, commands>>
  PROVE  UNCHANGED <<Worker!vars, commands>>
BY DEF Sight, Mine, Worker!vars, Worker!rowVars, Worker!fileVars, Worker!gatewayVars,
   Worker!streamVars, Worker!workerVars

(* While the worker lives its capture counts once announced; after that, if
   there is a file. *)
LEMMA CapturedIs ==
  ASSUME ProviderInv
  PROVE  /\ main \notin Over => (Captured <=> Reported("capture_stopped"))
         /\ main \in Over => (Captured <=> file # "none")
BY DEF Captured, ProviderInv, FileAnnounced, Over

(* It changes when the worker answers, or is killed between writing the file
   and that. *)
LEMMA CapturedStays ==
  ASSUME ProviderInv, ProviderInv', [Next]_vars,
         main' \in Over => main \notin {"stopped", "finalized"},
         ~(main = "finalized" /\ main' = "serving")
  PROVE  Captured' = Captured
<1>1. CASE main \in Over
  BY <1>1, OverStays, CapturedIs DEF ProviderInv, Captured, Over
<1>2. CASE main \notin Over /\ main' \notin Over
  <2>1. UNCHANGED events \/ Emit("recording") \/ Emit("failed") \/ Emit("left")
    BY EmitsOrNot DEF Emits, ProviderInv
  <2>2. Reported("capture_stopped")' <=> Reported("capture_stopped")
    BY <2>1, Reports, ReportsStay DEF ProviderInv, ProviderTypes
  <2>3. Captured' <=> Reported("capture_stopped")'
    BY <1>2, CapturedIs DEF Captured, ProviderInv, FileAnnounced, Over
  <2> QED
    BY <1>2, <2>2, <2>3, CapturedIs DEF Captured
<1>3. CASE main \notin Over /\ main' \in Over
  <2>1. main \notin {"stopped", "finalized"} /\ ~StopCapture
    BY <1>3 DEF StopCapture
  <2>2. UNCHANGED file
    BY <2>1, FileStep DEF ProviderInv, wavVars
  <2> QED
    BY <1>3, <2>1, <2>2 DEF Captured, Over
<1> QED
  BY <1>1, <1>2, <1>3

(* The worker's actions, one by one: the step that joins is Join, ... *)
LEMMA AnnounceJoins ==
  ASSUME ProviderInv, ProviderInv', Announce
  PROVE  Worker!Join(Session)
<1>1. Captured' = Captured
  BY CapturedStays DEF Announce, Over, Next, RunStep
<1>2. Phase[main] = "joining" /\ Phase[main'] = "ready"
  BY Phases DEF Announce
<1> QED
  BY <1>1, <1>2, MineIs DEF Announce, Emit, envVars, Mine, Worker!Join, Worker!Become, Worker!Emit,
     Worker!rowVars, Worker!fileVars, Worker!gatewayVars

(* ... the one that gives up is JoinFail, ... *)
LEMMA FailureFails ==
  ASSUME ProviderInv, ProviderInv', ReportFailure
  PROVE  Worker!JoinFail(Session)
<1>1. Captured' = Captured
  BY CapturedStays DEF ReportFailure, Over, Next, RunStep
<1>2. Phase[main] = "joining" /\ Phase[main'] = "exited"
  BY Phases DEF ReportFailure, Over
<1> QED
  BY <1>1, <1>2, MineIs DEF ReportFailure, Emit, envVars, Mine, Worker!JoinFail, Worker!Become,
     Worker!Emit, Worker!rowVars, Worker!fileVars, Worker!gatewayVars

(* ... a command that is read is taken as MeetingWorker takes it, ... *)
LEMMA CommandIsTaken ==
  ASSUME ProviderInv, ProviderInv', TakeCommand
  PROVE  Worker!TakeCommand(Session)
<1>1. Captured' = Captured
  <2>1. main = "serving" /\ main' \in {"serving", "stopping", "leaving"}
    BY CommandTaken DEF ProviderInv
  <2> QED
    BY <2>1, CapturedStays DEF Over, Next, RunStep
<1> DEFINE c == Head(commands)
           next == CASE c.sid # Session -> "ready"
                     [] c = [sid |-> Session, act |-> "stop_recording"] -> "stopping"
                     [] c = [sid |-> Session, act |-> "leave"] -> "leaving"
<1>2. c \in Command
  BY CommandTaken DEF ProviderInv
<1>3. Phase[main] = "ready" /\ Phase[main'] = next
  <2>1. CASE c.sid # Session
    BY <2>1, Phases DEF TakeCommand
  <2>2. CASE c.sid = Session /\ c.act = "stop_recording"
    <3>1. c = [sid |-> Session, act |-> "stop_recording"]
      BY <1>2, <2>2 DEF Command
    <3>2. Phase[main] = "ready" /\ Phase[main'] = "stopping"
      BY <2>2, Phases, HandlerOf DEF TakeCommand
    <3> QED
      BY <3>1, <3>2
  <2>3. CASE c.sid = Session /\ c.act = "leave"
    <3>1. c = [sid |-> Session, act |-> "leave"]
      BY <1>2, <2>3 DEF Command
    <3>2. Phase[main] = "ready" /\ Phase[main'] = "leaving"
      BY <2>3, Phases, HandlerOf DEF TakeCommand
    <3> QED
      BY <3>1, <3>2
  <2> QED
    BY <1>2, <2>1, <2>2, <2>3, HandlerOf DEF Command
<1> HIDE DEF next
<1>4. /\ Mine(Phase[main], "none")[Session] = "ready"
      /\ Mine(Phase[main'], "none") = [Mine(Phase[main], "none") EXCEPT ![Session] = next]
  BY <1>3, MineIs
<1>5. UNCHANGED <<Mine(IF Captured THEN "present" ELSE "none", "none"), Mine({}, {}),
                  Mine(FALSE, FALSE), Mine("joining", "absent"), kills, events>>
  BY <1>1 DEF TakeCommand, Mine
<1> QED
  BY <1>4, <1>5 DEF next, TakeCommand, Worker!TakeCommand, Worker!rowVars, Worker!fileVars,
     Worker!gatewayVars

(* ... the answer to a stop is StopCapture, with the file it announces, ... *)
LEMMA AnswerStops ==
  ASSUME ProviderInv, ProviderInv', AnswerStop
  PROVE  Worker!StopCapture(Session)
<1>1. Captured'
  BY CapturedIs, Reports DEF AnswerStop, Captured, ProviderInv, ProviderTypes, FileAnnounced, wavVars
<1>2. Phase[main] = "stopping" /\ Phase[main'] = "ready"
  BY Phases DEF AnswerStop
<1> QED
  BY <1>1, <1>2, MineIs DEF AnswerStop, Emit, envVars, Mine, Worker!StopCapture, Worker!Finalize,
     Worker!Become, Worker!Emit, Worker!rowVars, Worker!gatewayVars

(* ... and the answer to a leave is Leave. *)
LEMMA AnswerLeaves ==
  ASSUME ProviderInv, ProviderInv', AnswerLeft
  PROVE  Worker!Leave(Session)
<1>1. Captured' = Captured
  BY CapturedStays DEF AnswerLeft, Over, Next, RunStep
<1>2. Phase[main] = "leaving" /\ Phase[main'] = "exited"
  BY Phases DEF AnswerLeft, Over
<1> QED
  BY <1>1, <1>2, MineIs DEF AnswerLeft, Emit, envVars, Mine, Worker!Leave, Worker!Become,
     Worker!Emit, Worker!rowVars, Worker!fileVars, Worker!gatewayVars

(* A kill, or a page that raises, is WorkerCrash; a worker that was writing may
   leave its file. *)
LEMMA KilledIsCrash ==
  ASSUME ProviderInv, ProviderInv', Crash \/ LeaveRaises
  PROVE  Worker!WorkerCrash(Session)
<1> DEFINE before == IF Captured THEN "present" ELSE "none"
           after == IF Captured' THEN "present" ELSE "none"
<1>1. /\ main \in Running /\ main' \in Over /\ main \notin Over
      /\ main = "finalized" => main' # "serving"
      /\ kills' = kills + 1 /\ UNCHANGED <<commands, events>>
  BY DEF Crash, LeaveRaises, Running, InJoin, Answering, Over
<1>2. Phase[main] \in {"joining", "ready", "stopping", "leaving"} /\ Phase[main'] = "exited"
  BY <1>1, Phases DEF Running, Answering
<1>3. kills < MaxKills + 1
  BY <1>1, ProviderAssumption DEF ProviderInv, ProviderTypes, KillsBounded
<1>4. \E w \in Worker!Written({Session}) :
        Mine(after, "none") = [t \in {Session, Other} |->
                                 IF t \in w THEN "present" ELSE Mine(before, "none")[t]]
  <2>1. CASE main \in {"stopped", "finalized"}
    <3>1. Captured => Captured'
      BY <1>1, <2>1 DEF Crash, LeaveRaises, Captured, Over
    <3>2. Mine(Phase[main], "none")[Session] = "stopping"
      BY <2>1, Phases, MineIs
    <3>3. {} \in Worker!Written({Session}) /\ {Session} \in Worker!Written({Session})
      BY <3>2 DEF Worker!Written
    <3>4. CASE Captured'
      BY <3>3, <3>4, ProviderAssumption DEF Mine
    <3>5. CASE ~Captured'
      BY <3>1, <3>3, <3>5, ProviderAssumption DEF Mine
    <3> QED
      BY <3>4, <3>5
  <2>2. CASE main \notin {"stopped", "finalized"}
    <3>1. Captured' = Captured
      BY <1>1, <2>2, CapturedStays DEF Next, RunStep
    <3>2. {} \in Worker!Written({Session})
      BY DEF Worker!Written
    <3> QED
      BY <3>1, <3>2, ProviderAssumption DEF Mine
  <2> QED
    BY <2>1, <2>2
<1>5. UNCHANGED <<Mine({}, {}), Mine(FALSE, FALSE), Mine("joining", "absent")>>
  BY DEF Mine
<1> HIDE DEF before, after
<1>6. /\ Mine(Phase[main], "none")[Session] \in Worker!Alive
      /\ Mine(Phase[main'], "none") = [Mine(Phase[main], "none") EXCEPT ![Session] = "exited"]
      /\ Mine({}, {})' = [Mine({}, {}) EXCEPT ![Session] = {}]
  BY <1>2, <1>5, MineIs DEF Worker!Alive
<1> QED
  BY <1>1, <1>3, <1>4, <1>5, <1>6
     DEF before, after, Worker!WorkerCrash, Worker!Become, Worker!rowVars, Worker!gatewayVars,
         Worker!streamVars

(* Nothing else shows. *)
LEMMA Unseen ==
  ASSUME ProviderInv, ProviderInv', [Next]_vars,
         ~(\/ Announce \/ ReportFailure \/ TakeCommand \/ AnswerStop \/ AnswerLeft
           \/ Crash \/ LeaveRaises
           \/ \E sid \in {Session, Other}, act \in DOMAIN Handler : Send(sid, act))
  PROVE  UNCHANGED <<Worker!vars, commands>>
<1>1. UNCHANGED <<events, commands, kills>>
  BY DEF vars, envVars, Next, RunStep, MeetingStep, WatchStarts, StartBrowser, OpenMeeting,
     EnterMeeting, StartCapture, Joined, JoinRaises, Admit, MeetingEnds, Sound, OnAudioChunk,
     BrowserDies, StopScript, StopCapture, HangUp, Close
<1>2. \/ UNCHANGED main
      \/ {main, main'} \subseteq InJoin \cup {"capturing", "announcing", "failing"}
      \/ {main, main'} \subseteq {"stopping", "stopped", "finalized"} /\ main # "finalized"
      \/ {main, main'} \subseteq {"leaving", "hung_up"}
      \/ {main, main'} \subseteq Over
  BY DEF InJoin, Over, vars, envVars, Next, RunStep, MeetingStep, WatchStarts, StartBrowser,
     OpenMeeting, EnterMeeting, StartCapture, Joined, JoinRaises, Admit, MeetingEnds, Sound,
     OnAudioChunk, BrowserDies, StopScript, StopCapture, HangUp, Close
<1>3. UNCHANGED Phase[main]
  BY <1>2, Phases
<1>4. UNCHANGED Captured
  BY <1>2, CapturedStays DEF InJoin, Over
<1> QED
  BY <1>1, <1>3, <1>4, NotSeen DEF Sight

(* Every step of the process is one of the worker's that MeetingWorker
   describes, or none it shows; what a provider might report on its own
   (watch_events of providers/telemost) never comes. *)
THEOREM ProviderIsWorker == Spec => ActsAsWorker
<1> DEFINE Act == \/ Worker!Join(Session) \/ Worker!JoinFail(Session)
                  \/ Worker!TakeCommand(Session) \/ Worker!StopCapture(Session)
                  \/ Worker!Leave(Session) \/ Worker!WorkerCrash(Session)
                  \/ \E sid \in {Session, Other}, act \in DOMAIN Handler : Send(sid, act)
<1>1. ASSUME ProviderInv, ProviderInv', [Next]_vars
      PROVE  [Act]_<<Worker!vars, commands>>
  BY <1>1, AnnounceJoins, FailureFails, CommandIsTaken, AnswerStops, AnswerLeaves,
     KilledIsCrash, Unseen
<1> HIDE DEF Act
<1>2. ProviderInv /\ ProviderInv' /\ [Next]_vars => [Act]_<<Worker!vars, commands>>
  BY <1>1
<1>3. Spec => [][Act]_<<Worker!vars, commands>>
  BY <1>2, ProviderAlways, PTL DEF Spec
<1> QED
  BY <1>3 DEF Act, ActsAsWorker
=============================================================================
