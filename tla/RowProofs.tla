------------------------------ MODULE RowProofs ------------------------------
(***************************************************************************)
(* What the row of a session says is true of its coroutines, its files and *)
(* its worker, for every value of the constants.                           *)
(*                                                                         *)
(* Each invariant is shown inductive from Moves (RecorderSteps): what may  *)
(* change a part of the state, and on what grounds.  The last section is   *)
(* about the table: each status a session takes follows from the one it    *)
(* has.                                                                    *)
(***************************************************************************)
EXTENDS RecorderSteps, RecordingProofs

(* The conditions under which the actions after the call apply, and that none
   applies to a finished session, nor to one that does not exist. *)
LEMMA LateGrounds ==
  ASSUME NEW st
  PROVE  /\ Applies(st, "delete_audio") => st = "pending_audio_disposal"
         /\ Applies(st, "retain_audio") => st = "pending_audio_disposal"
         /\ Applies(st, "start_join") => st \in {"queued", "scheduled"}
         /\ \A act \in Action : ~Applies("completed", act) /\ ~Applies("failed", act)
  BY DEF Applies, Action, Transitions

(* Where a coroutine is says what it holds. *)
LEMMA Shapes ==
  ASSUME TypeOK, NEW p \in Procs
  PROVE  /\ At(p, "commit") => frame[p] = Frame("commit", frame[p].act, frame[p].sid)
         /\ At(p, "publish_job") => frame[p].act = "confirm_transcribe"
         /\ frame[p].sid \in Sessions \/ frame[p] \in Resting
  <1>1. frame[p] \in Suspended
    BY DEF TypeOK, FrameTypes
  <1> QED BY <1>1 DEF Suspended, Frame, IdleFrame, LoopFrame, EndedFrame, At, Resting

(* A coroutine at rest holds nothing. *)
LEMMA AtRest ==
  ASSUME NEW f \in Resting
  PROVE  f.act = "none" /\ f.sid = NoSession /\ f.pc \in {"idle", "loop", "ended"}
  BY DEF Resting, IdleFrame, LoopFrame, EndedFrame, Frame

-----------------------------------------------------------------------------
(* A coroutine that takes up a finished session does so to finish it. *)
LEMMA StepSettles ==
  ASSUME TypeOK, [Next]_vars, NEW s \in Sessions, NEW p \in Procs,
         status[s] \in Terminal, ~InFlight(s), frame'[p].sid = s
  PROVE  frame'[p].act \notin Action \/ To(frame'[p].act) \in Terminal
  <1>1. Turn(p, frame[p], frame'[p]) /\ frame[p].sid # s
    BY StepMoves DEF Moves, FrameMoves, InFlight
  <1>2. frame'[p] # frame[p] /\ frame'[p] \notin Resting
    BY <1>1, AtRest, ProcessesAssumption
  <1>3. ~Continues(frame[p], frame'[p])
    BY <1>1, FrameFields DEF Continues
  <1>4. Begins(p, frame'[p])
    BY <1>1, <1>2, <1>3 DEF Turn
  <1>5. \A act \in Action : ~Applies(status[s], act)
    BY LateGrounds DEF Terminal
  <1>6. CASE frame'[p].act \in CreateModes
    BY <1>6, SettingsAssumption, Actions
  <1>7. CASE frame'[p].act \in {"none", "retain_audio", "delete_audio"}
    BY <1>7, Actions, Targets DEF Terminal
  <1> QED BY <1>4, <1>5, <1>6, <1>7, FrameFields, HandshakeActions, Actions DEF Begins, Terminal

(* A session that has ended, and that nobody is working on, is not taken up
   for anything that would not end it again. *)
THEOREM SettledStaysFinal == Spec => SettledIsFinal
  <1>1. TypeOK /\ [Next]_vars
          => [\A s \in Sessions, p \in Procs :
                status[s] \in Terminal /\ ~InFlight(s) /\ frame'[p].sid = s
                  => frame'[p].act \notin Action \/ To(frame'[p].act) \in Terminal]_vars
    BY StepSettles
  <1> QED BY <1>1, TypeCorrect, PTL DEF Spec, SettledIsFinal

-----------------------------------------------------------------------------
(* Whoever is about to announce a transcript has heard of it from the
   transcriber, so that it exists. *)
AnnouncersBacked ==
  \A p \in Procs : frame[p].act = "transcript_ready" => transcript[frame[p].sid]

TranscriptInv == TranscriptBacked /\ AnnouncersBacked

(* The first event is in the stream. *)
LEMMA HeardIsIn ==
  ASSUME TypeOK, NEW ev, NEW s, Hears(ev, s)
  PROVE  \E i \in DOMAIN events : events[i] = [sid |-> s, ev |-> ev]
  <1>1. events \in Seq([sid : Sessions, ev : Event]) /\ Len(events) \in Nat /\ events # <<>>
    BY LenProperties DEF TypeOK, StreamTypes, Hears
  <1>2. 1 \in DOMAIN events /\ Head(events) = events[1]
    BY <1>1
  <1> QED BY <1>2 DEF Hears

(* Only the listener's transcript_ready leads to the status of that name. *)
LEMMA TranscriptSource ==
  \A act \in Action : To(act) = "transcript_ready" => act = "transcript_ready"
  BY Actions, Targets

(* TranscriptInv is inductive. *)
LEMMA StepTranscripts ==
  ASSUME TypeOK, TranscriptInv, [Next]_vars
  PROVE  TranscriptInv'
  <1> USE DEF TranscriptInv
  <1>1. Moves
    BY StepMoves
  <1>2. \A s \in Sessions : transcript[s] => transcript'[s]
    BY <1>1 DEF Moves, FileMoves
  <1>3. ASSUME NEW s \in Sessions, status'[s] = "transcript_ready"
        PROVE  transcript'[s]
    <2>1. CASE status'[s] = status[s]
      BY <1>2, <1>3, <2>1 DEF TranscriptBacked
    <2>2. ASSUME NEW p \in Procs, At(p, "commit"), frame[p].sid = s, status'[s] = To(frame[p].act)
          PROVE  transcript'[s]
      <3>1. frame[p].act = "transcript_ready"
        BY <1>3, <2>2, Holding, TranscriptSource DEF At
      <3> QED BY <1>2, <2>2, <3>1 DEF AnnouncersBacked
    <2> QED BY <1>1, <1>3, <2>1, <2>2 DEF Moves, RowMoves, StatusMoves, Inserts, CommitsFor
  <1>4. ASSUME NEW i \in DOMAIN events', events'[i].ev = "transcript_ready"
        PROVE  transcript'[events'[i].sid]
    <2>1. CASE Said(events'[i])
      BY <1>4, <2>1, SettingsAssumption DEF Said
    <2>2. ASSUME NEW j \in DOMAIN events, events'[i] = events[j]
          PROVE  transcript'[events'[i].sid]
      BY <1>2, <1>4, <2>2, EntryHolds DEF TranscriptBacked
    <2> QED BY <1>1, <2>1, <2>2 DEF Moves, EventMoves
  <1>5. ASSUME NEW p \in Procs, frame'[p].act = "transcript_ready"
        PROVE  transcript'[frame'[p].sid]
    <2>1. Turn(p, frame[p], frame'[p])
      BY <1>1 DEF Moves, FrameMoves
    <2>2. CASE frame'[p] = frame[p]
      BY <1>2, <1>5, <2>2, LateHolds DEF AnnouncersBacked, Late
    <2>3. CASE frame'[p].sid \in Sessions /\ Begins(p, frame'[p])
      <3>1. Hears("transcript_ready", frame'[p].sid)
        BY <1>5, <2>3, FrameFields, SettingsAssumption DEF Begins, Handshake
      <3> QED BY <1>2, <2>3, <3>1, HeardIsIn DEF TranscriptBacked
    <2>4. CASE Continues(frame[p], frame'[p])
      BY <1>5, <2>4, FrameFields, Holding DEF Continues, Handshake, Mode, At
    <2> QED BY <1>5, <2>1, <2>2, <2>3, <2>4, AtRest DEF Turn
  <1> QED BY <1>3, <1>4, <1>5 DEF TranscriptBacked, AnnouncersBacked

(* There are no transcripts, and no announcements, to begin with. *)
LEMMA InitTranscripts == Init => TranscriptInv
  BY DEF Init, TranscriptInv, TranscriptBacked, AnnouncersBacked, IdleFrame, Frame

(* A session shown as transcribed, or announced so in the stream, has its
   transcript.txt, whatever has crashed. *)
THEOREM TranscriptsBacked == Spec => []TranscriptBacked
  <1>1. TranscriptInv => TranscriptBacked
    BY DEF TranscriptInv
  <1> QED BY <1>1, InitTypes, StepTypes, InitTranscripts, StepTranscripts, PTL DEF Spec

-----------------------------------------------------------------------------
(* The coroutine that will arm session s, or has taken its job away to commit
   what ends the waiting.  The listener does not count: its handler may fail. *)
Decides(p, s) ==
  \/ frame[p] = Frame("arm", "future", s)
  \/ /\ p # Listener /\ At(p, "commit")
     /\ frame[p].act \in {"cancel", "start_join"} /\ frame[p].sid = s

Expected == \A s \in Sessions : status[s] = "scheduled" => s \in armed \/ \E p \in Procs : Decides(p, s)
AskedFor == \A p \in Procs : At(p, "insert") \/ At(p, "arm") => frame[p].act \in CreateModes

(* A row becomes scheduled by being inserted only: nobody holds the schedule
   action of the table. *)
NeverRescheduled == \A p \in Procs : frame[p].act # "schedule"

ScheduleInv == Expected /\ AskedFor /\ NeverRescheduled

(* Only schedule leads back to scheduled. *)
LEMMA ScheduleSource == \A act \in Action : To(act) = "scheduled" => act = "schedule"
  BY Actions, Targets

(* Who decided about a scheduled session still does, or has left it armed, or
   not scheduled. *)
LEMMA StepDecides ==
  ASSUME TypeOK, Moves, NEW s \in Sessions, NEW p \in Procs, Decides(p, s),
         status[s] = "scheduled", status'[s] = "scheduled"
  PROVE  s \in armed' \/ Decides(p, s)'
  <1>1. CASE frame'[p] = frame[p]
    BY <1>1 DEF Decides, At
  <1>2. CASE Departs(p, frame[p])
    <2>1. CASE UNCHANGED status /\ Restored \subseteq armed'
      BY <2>1 DEF Restored
    <2>2. CASE frame[p] = Frame("arm", "future", s)
      BY <1>2, <2>1, <2>2, FrameFields DEF Departs
    <2>3. CASE p # Listener /\ At(p, "commit") /\ frame[p].act \in {"cancel", "start_join"} /\ frame[p].sid = s
      <3>1. To(frame[p].act) # "scheduled"
        BY <2>3, Targets
      <3> QED BY <1>2, <2>1, <2>3, <3>1 DEF Departs, At
    <2> QED BY <2>2, <2>3 DEF Decides
  <1> QED BY <1>1, <1>2 DEF Moves, FrameMoves

(* ScheduleInv is inductive, if dates lie in the future and join jobs start in
   time. *)
LEMMA StepScheduled ==
  ASSUME Punctual, "past" \notin CreateModes, TypeOK, ScheduleInv, [Next]_vars
  PROVE  ScheduleInv'
  <1> USE DEF ScheduleInv
  <1>1. Moves
    BY StepMoves
  <1>2. ASSUME NEW p \in Procs
        PROVE  /\ At(p, "insert")' \/ At(p, "arm")' => frame'[p].act \in CreateModes
               /\ frame'[p].act # "schedule"
    <2>1. Turn(p, frame[p], frame'[p])
      BY <1>1 DEF Moves, FrameMoves
    <2>2. CASE frame'[p] = frame[p]
      BY <2>2 DEF AskedFor, NeverRescheduled, At
    <2>3. CASE frame'[p] \in Resting
      BY <2>3, AtRest DEF At
    <2>4. CASE Begins(p, frame'[p])
      BY <2>4, FrameFields, SettingsAssumption DEF Begins, At, Handshake
    <2>5. CASE Continues(frame[p], frame'[p])
      BY <2>5, FrameFields, Holding DEF Continues, At, Handshake, Mode, AskedFor, NeverRescheduled
    <2> QED BY <2>1, <2>2, <2>3, <2>4, <2>5 DEF Turn
  <1>3. ASSUME NEW s \in Sessions, status'[s] = "scheduled"
        PROVE  s \in armed' \/ \E p \in Procs : Decides(p, s)'
    <2>1. CASE status[s] = "scheduled" /\ s \in armed
      <3>1. s \in armed' \/ \E p \in Procs \ {Listener} : \E act \in {"cancel", "start_join"} :
                               frame'[p] = Frame("commit", act, s)
        BY <1>1, <2>1 DEF Moves, ArmedMoves
      <3> QED BY <3>1, FrameFields DEF Decides, At
    <2>2. ASSUME status[s] = "scheduled", NEW p \in Procs, Decides(p, s)
          PROVE  s \in armed' \/ \E q \in Procs : Decides(q, s)'
      BY <1>1, <1>3, <2>2, StepDecides
    <2>3. ASSUME NEW p \in Procs, At(p, "insert"), frame[p].act # "now",
                 frame'[p] = Frame("arm", frame[p].act, s)
          PROVE  Decides(p, s)'
      <3>1. frame[p].act = "future"
        BY <2>3, SettingsAssumption DEF AskedFor
      <3> QED BY <2>3, <3>1 DEF Decides
    <2>4. ASSUME NEW p \in Procs, At(p, "commit"), status'[s] = To(frame[p].act)
          PROVE  FALSE
      BY <1>3, <2>4, Holding, ScheduleSource DEF At, NeverRescheduled
    <2>5. status'[s] # status[s] => \E p \in Procs : At(p, "insert") /\ frame[p].act # "now"
                                          /\ frame'[p] = Frame("arm", frame[p].act, s)
      BY <1>1, <1>3, <2>4 DEF Moves, RowMoves, StatusMoves, Inserts, CommitsFor
    <2> QED BY <1>3, <2>1, <2>2, <2>3, <2>5 DEF Expected
  <1> QED BY <1>2, <1>3 DEF Expected, AskedFor, NeverRescheduled

(* There are no rows to begin with. *)
LEMMA InitScheduled == Init => ScheduleInv
  BY DEF Init, ScheduleInv, Expected, AskedFor, NeverRescheduled, At, IdleFrame, Frame

(* No scheduled session is forgotten, across requests, jobs and restarts, if
   the dates asked for lie in the future and no join job starts too late. *)
THEOREM ScheduledStaysArmed ==
  ASSUME Punctual, "past" \notin CreateModes
  PROVE  Spec => []ScheduledIsArmed
  <1>1. ScheduleInv => ScheduledIsArmed
    BY FrameFields DEF ScheduleInv, Expected, Decides, ScheduledIsArmed, InFlight
  <1>2. ScheduleInv /\ TypeOK /\ [Next]_vars => ScheduleInv'
    BY StepScheduled
  <1> QED BY <1>1, <1>2, InitTypes, StepTypes, InitScheduled, PTL DEF Spec

-----------------------------------------------------------------------------
(* From here on: the bot of a session that has been left is gone for good, so
   nothing writes its file again.  What follows leaving is listed: the statuses,
   the coroutines, the rows and files, the jobs and the announcements. *)
Gone(s) == worker[s] = "exited"

AfterCall == {"recorded", "transcription_queued", "transcribing",
              "transcript_ready", "pending_audio_disposal"}
AfterLeaving == {"confirm_transcribe", "decline_transcribe", "transcribing", "transcript_ready",
                 "await_audio_disposal", "delete_audio", "retain_audio"}
HasLeft(f) ==
  f.act \in AfterLeaving \/ f.pc = "expire" \/ (f.act = "leave" /\ f.pc = "commit")

CapturedByBot == \A s \in Sessions : audio[s] # "none" => worker[s] # "none"
ShowsLeft(s) ==
  \/ status[s] \in AfterCall \/ transcript[s] \/ s \in offered \/ s \in overdue
  \/ expires[s] \/ deletedAt[s]
RowsLeft == \A s \in Sessions : ShowsLeft(s) => Gone(s)
FramesLeft == \A p \in Procs : HasLeft(frame[p]) => Gone(frame[p].sid)
JobsLeft ==
  /\ \A i \in DOMAIN jobs : Gone(jobs[i])
  /\ transcriber # NoJob => Gone(transcriber.sid)
EventsLeft ==
  \A i \in DOMAIN events : /\ events[i].ev # "meeting_ended"
                           /\ events[i].ev = "transcript_ready" => Gone(events[i].sid)
DeletersUnlinked ==
  \A p \in Procs : At(p, "commit") /\ frame[p].act = "delete_audio"
                     => audio[frame[p].sid] # "present"

LeaveInv ==
  /\ CapturedByBot /\ RowsLeft /\ FramesLeft /\ JobsLeft /\ EventsLeft
  /\ DeletersUnlinked /\ DeletedMeansGone

(* A bot that is gone is not spawned again: whoever would spawn it finds that
   there has been one. *)
LEMMA StaysGone ==
  ASSUME TypeOK, VisitInv, Moves, NEW s \in Sessions, Gone(s)
  PROVE  Gone(s)'
  <1>1. ASSUME NEW p \in Procs, At(p, "spawn"), frame[p].sid = s
        PROVE  FALSE
    <2>1. Starter(p, s)
      <3>1. frame[p].act = "start_join"
        BY <1>1 DEF TypeOK, FrameTypes, Suspended, Frame, IdleFrame, LoopFrame, EndedFrame, At
      <3> QED BY <1>1, <3>1 DEF Starter, Starts
    <2> QED BY <2>1 DEF VisitInv, StartsFresh, Gone
  <1> QED BY <1>1 DEF Moves, WorkerMoves, Gone, Alive

(* Whoever has left holds a session. *)
LEMMA LeaverHolds ==
  ASSUME TypeOK, NEW p \in Procs, HasLeft(frame[p])
  PROVE  frame[p].sid \in Sessions
  BY Shapes, AtRest DEF HasLeft, AfterLeaving

(* Only what follows leaving leads to the statuses after the call. *)
LEMMA AfterCallTargets ==
  \A act \in Action : To(act) \in AfterCall => act \in AfterLeaving \cup {"leave"}
  BY Actions, Targets DEF AfterCall, AfterLeaving

(* And it applies to no other status, except leaving itself. *)
LEMMA AfterCallSources ==
  ASSUME NEW st, NEW act \in AfterLeaving, Applies(st, act)
  PROVE  st \in AfterCall
  BY Sources, LateGrounds DEF AfterCall, AfterLeaving

(* Files come from bots. *)
LEMMA StepCaptured ==
  ASSUME TypeOK, CapturedByBot, Moves
  PROVE  CapturedByBot'
  BY DEF CapturedByBot, Moves, FileMoves, WorkerMoves

(* A row shows what follows leaving only if a coroutine, an announcement or a
   job has brought it there. *)
LEMMA StepRowsLeft ==
  ASSUME TypeOK, VisitInv, LeaveInv, Moves
  PROVE  RowsLeft'
  <1> USE DEF LeaveInv, Gone
  <1> SUFFICES ASSUME NEW s \in Sessions, ShowsLeft(s)'
               PROVE  Gone(s)
    BY StaysGone DEF RowsLeft
  <1>0. ShowsLeft(s) => Gone(s)
    BY DEF RowsLeft
  <1>1. CASE status'[s] \in AfterCall
    <2>1. ASSUME NEW p \in Procs, At(p, "commit"), frame[p].sid = s, status'[s] = To(frame[p].act)
          PROVE  Gone(s)
      <3>1. frame[p].act \in AfterLeaving \cup {"leave"}
        BY <1>0, <1>1, <2>1, Holding, AfterCallTargets DEF At
      <3> QED BY <2>1, <3>1 DEF FramesLeft, HasLeft, At
    <2> QED BY <1>0, <1>1, <2>1 DEF Moves, RowMoves, StatusMoves, Inserts, CommitsFor, ShowsLeft, AfterCall
  <1>2. CASE transcript'[s]
    BY <1>0, <1>2 DEF Moves, FileMoves, ShowsLeft, JobsLeft, Job, NoJob
  <1>3. CASE s \in offered'
    <2>1. ASSUME Hears("transcript_ready", s)
          PROVE  Gone(s)
      BY <2>1, HeardIsIn DEF EventsLeft
    <2>2. ASSUME NEW p \in Procs, frame[p].sid = s,
                 frame[p].act \in {"decline_transcribe", "await_audio_disposal"} \/ At(p, "reload")
          PROVE  Gone(s)
      <3>1. HasLeft(frame[p])
        BY <2>2, Holding DEF HasLeft, AfterLeaving
      <3> QED BY <2>2, <3>1 DEF FramesLeft
    <2> QED BY <1>0, <1>3, <2>1, <2>2 DEF Moves, OfferMoves, ShowsLeft
  <1>4. CASE s \in overdue'
    BY <1>0, <1>4 DEF Moves, OverdueMoves, Pending, ShowsLeft, AfterCall
  <1>5. CASE expires'[s]
    BY <1>0, <1>5 DEF Moves, RowMoves, ExpiryMoves, ShowsLeft, FramesLeft, HasLeft, At
  <1>6. CASE deletedAt'[s]
    <2>1. ASSUME NEW p \in Procs, frame[p] = Frame("commit", "delete_audio", s)
          PROVE  Gone(s)
      BY <2>1, FrameFields DEF FramesLeft, HasLeft, AfterLeaving
    <2> QED BY <1>0, <1>6, <2>1 DEF Moves, RowMoves, DeletionMoves, ShowsLeft
  <1> QED BY <1>1, <1>2, <1>3, <1>4, <1>5, <1>6 DEF ShowsLeft

(* A coroutine that has left was told so by its row, by the selection of the
   followup, by an announcement, or has stopped the process itself. *)
LEMMA StepFramesLeft ==
  ASSUME TypeOK, TypeOK', AudioInv, VisitInv, LeaveInv, Moves
  PROVE  FramesLeft'
  <1> USE DEF LeaveInv, Gone
  <1>1. ASSUME NEW p \in Procs, HasLeft(frame'[p])
        PROVE  Gone(frame[p].sid)'
    <2>1. Turn(p, frame[p], frame'[p])
      BY DEF Moves, FrameMoves
    <2>2. CASE frame'[p] = frame[p]
      BY <1>1, <2>2, LeaverHolds, StaysGone DEF FramesLeft
    <2>3. CASE frame'[p].sid \in Sessions /\ Begins(p, frame'[p])
      <3> DEFINE s == frame'[p].sid
      <3>1. \/ frame'[p].act \in AfterLeaving /\ Applies(status[s], frame'[p].act)
            \/ Hears("meeting_ended", s) \/ s \in Deletable \/ s \in overdue
        BY <1>1, <2>3, FrameFields, SettingsAssumption DEF Begins, HasLeft, AfterLeaving, Handshake
      <3>2. ~Hears("meeting_ended", s)
        BY HeardIsIn DEF EventsLeft
      <3>3. Gone(s)
        BY <2>3, <3>1, <3>2, AfterCallSources DEF RowsLeft, ShowsLeft, Deletable
      <3> QED BY <2>3, <3>3, StaysGone
    <2>4. CASE frame'[p].sid \in Sessions /\ Continues(frame[p], frame'[p])
      <3>1. frame'[p].sid = frame[p].sid
        BY <2>4, FrameFields DEF Continues
      <3>2. CASE HasLeft(frame[p])
        BY <2>4, <3>1, <3>2, StaysGone DEF FramesLeft
      <3>3. CASE ~HasLeft(frame[p])
        <4>1. frame[p].pc = "reap" /\ worker'[frame[p].sid] \notin Alive
          BY <1>1, <2>4, <3>3, FrameFields, Holding DEF Continues, HasLeft, AfterLeaving, At, Handshake, Mode
        <4>2. audio[frame[p].sid] # "none"
          BY <4>1, Holding DEF AudioInv, FramesBacked, Backed, Late, At
        <4>3. worker'[frame[p].sid] # "none"
          BY <2>4, <3>1, <4>2 DEF CapturedByBot, Moves, WorkerMoves
        <4> QED BY <2>4, <3>1, <4>1, <4>3 DEF Gone, TypeOK, ProcessTypes, WorkerState
      <3> QED BY <3>2, <3>3
    <2> QED BY <1>1, <2>1, <2>2, <2>3, <2>4, AtRest DEF Turn, HasLeft, AfterLeaving
  <1> QED BY <1>1 DEF FramesLeft

(* Who holds a job. *)
LEMMA JobHolds ==
  ASSUME TypeOK
  PROVE  /\ \A i \in DOMAIN jobs : jobs[i] \in Sessions
         /\ transcriber # NoJob => transcriber.sid \in Sessions
         /\ jobs # <<>> => \E i \in DOMAIN jobs : Head(jobs) = jobs[i]
  <1>1. jobs \in Seq(Sessions) /\ Len(jobs) \in Nat /\ DOMAIN jobs = 1..Len(jobs)
    BY LenProperties DEF TypeOK, StreamTypes
  <1>2. \A i \in DOMAIN jobs : jobs[i] \in Sessions
    BY <1>1, ElementOfSeq
  <1>3. jobs # <<>> => 1 \in DOMAIN jobs /\ Head(jobs) = jobs[1]
    BY <1>1
  <1>4. transcriber # NoJob => transcriber.sid \in Sessions
    BY DEF TypeOK, ProcessTypes
  <1> QED BY <1>2, <1>3, <1>4

(* A job is published after the session was left, and stays one of it. *)
LEMMA StepJobsLeft ==
  ASSUME TypeOK, VisitInv, LeaveInv, Moves
  PROVE  JobsLeft'
  <1>0. FramesLeft /\ JobsLeft
    BY DEF LeaveInv
  <1>1. ASSUME NEW i \in DOMAIN jobs'
        PROVE  Gone(jobs[i])'
    <2>1. ASSUME NEW j \in DOMAIN jobs, jobs'[i] = jobs[j]
          PROVE  worker'[jobs'[i]] = "exited"
      BY <1>0, <2>1, JobHolds, StaysGone DEF JobsLeft, Gone
    <2>2. ASSUME NEW p \in Procs, At(p, "publish_job"), jobs'[i] = frame[p].sid
          PROVE  worker'[jobs'[i]] = "exited"
      <3>1. HasLeft(frame[p])
        BY <2>2, Shapes DEF HasLeft, AfterLeaving
      <3> QED BY <1>0, <2>2, <3>1, LeaverHolds, StaysGone DEF FramesLeft, Gone
    <2> QED BY <2>1, <2>2 DEF Moves, JobMoves, Gone
  <1>2. ASSUME transcriber' # NoJob
        PROVE  Gone(transcriber.sid)'
    <2>1. CASE transcriber # NoJob /\ transcriber'.sid = transcriber.sid
      BY <1>0, <2>1, JobHolds, StaysGone DEF JobsLeft, Gone
    <2>2. CASE jobs # <<>> /\ transcriber'.sid = Head(jobs)
      BY <1>0, <2>2, JobHolds, StaysGone DEF JobsLeft, Gone
    <2> QED BY <1>2, <2>1, <2>2 DEF Moves, TranscriberMoves
  <1> QED BY <1>1, <1>2 DEF JobsLeft

(* A transcript is announced for a job; nobody announces the end of a meeting. *)
LEMMA StepEventsLeft ==
  ASSUME "meeting_ended" \notin ProviderEvents, TypeOK, VisitInv, LeaveInv, Moves
  PROVE  EventsLeft'
  <1>0. JobsLeft /\ EventsLeft
    BY DEF LeaveInv
  <1>1. ASSUME NEW i \in DOMAIN events'
        PROVE  /\ events'[i].ev # "meeting_ended"
               /\ events'[i].ev = "transcript_ready" => Gone(events[i].sid)'
    <2>1. CASE Said(events'[i])
      BY <1>0, <2>1, JobHolds, StaysGone, SettingsAssumption DEF Said, JobsLeft, Gone
    <2>2. ASSUME NEW j \in DOMAIN events, events'[i] = events[j]
          PROVE  /\ events'[i].ev # "meeting_ended"
                 /\ events'[i].ev = "transcript_ready" => Gone(events[i].sid)'
      BY <1>0, <2>2, EntryHolds, StaysGone DEF EventsLeft, Gone
    <2> QED BY <2>1, <2>2 DEF Moves, EventMoves
  <1> QED BY <1>1 DEF EventsLeft

(* A file that is not there is not written again once the bot is gone. *)
LEMMA StaysAway ==
  ASSUME Moves, NEW s \in Sessions, Gone(s), audio[s] # "present"
  PROVE  audio'[s] # "present"
  BY DEF Moves, FileMoves, Gone

(* Whoever commits delete_audio has unlinked the file. *)
LEMMA StepDeletersUnlinked ==
  ASSUME TypeOK, VisitInv, LeaveInv, Moves
  PROVE  DeletersUnlinked'
  <1>0. DeletersUnlinked /\ FramesLeft
    BY DEF LeaveInv
  <1>1. ASSUME NEW p \in Procs, frame'[p].pc = "commit", frame'[p].act = "delete_audio"
        PROVE  audio'[frame'[p].sid] # "present"
    <2>1. Turn(p, frame[p], frame'[p])
      BY DEF Moves, FrameMoves
    <2>2. CASE frame'[p] = frame[p]
      <3>1. HasLeft(frame[p])
        BY <1>1, <2>2 DEF HasLeft, AfterLeaving
      <3> QED BY <1>0, <1>1, <2>2, <3>1, LeaverHolds, StaysAway DEF DeletersUnlinked, FramesLeft, At
    <2>3. CASE Begins(p, frame'[p])
      BY <1>1, <2>3, FrameFields DEF Begins
    <2>4. CASE Continues(frame[p], frame'[p])
      BY <1>1, <2>4, FrameFields, Holding DEF Continues, At
    <2> QED BY <1>1, <2>1, <2>2, <2>3, <2>4, AtRest DEF Turn
  <1> QED BY <1>1 DEF DeletersUnlinked, At

(* A mark is set when the file is not there, and the file stays away. *)
LEMMA StepDeleted ==
  ASSUME TypeOK, VisitInv, LeaveInv, Moves
  PROVE  DeletedMeansGone'
  <1>1. ASSUME NEW s \in Sessions, deletedAt'[s]
        PROVE  audio'[s] # "present"
    <2>1. CASE deletedAt[s]
      BY <2>1, StaysAway DEF LeaveInv, RowsLeft, ShowsLeft, DeletedMeansGone
    <2>2. ASSUME NEW p \in Procs, frame[p] = Frame("commit", "delete_audio", s)
          PROVE  audio[s] # "present"
      BY <2>2, FrameFields DEF LeaveInv, DeletersUnlinked, At
    <2> QED BY <1>1, <2>1, <2>2 DEF Moves, RowMoves, DeletionMoves
  <1> QED BY <1>1 DEF DeletedMeansGone

(* LeaveInv is inductive, given that no provider announces the end of a
   meeting. *)
LEMMA StepLeaves ==
  ASSUME "meeting_ended" \notin ProviderEvents, TypeOK, AudioInv, VisitInv, LeaveInv, [Next]_vars
  PROVE  LeaveInv'
  <1>1. Moves /\ TypeOK'
    BY StepMoves, StepTypes
  <1>2. CapturedByBot' /\ RowsLeft' /\ FramesLeft'
    BY <1>1, StepCaptured, StepRowsLeft, StepFramesLeft DEF LeaveInv
  <1>3. JobsLeft' /\ EventsLeft' /\ DeletersUnlinked' /\ DeletedMeansGone'
    BY <1>1, StepJobsLeft, StepEventsLeft, StepDeletersUnlinked, StepDeleted
  <1> QED BY <1>2, <1>3 DEF LeaveInv

(* Nothing has been captured, left or deleted to begin with. *)
LEMMA InitLeaves == Init => LeaveInv
  BY DEF Init, LeaveInv, CapturedByBot, RowsLeft, ShowsLeft, FramesLeft, HasLeft, JobsLeft, EventsLeft,
     DeletersUnlinked, DeletedMeansGone, AfterCall, AfterLeaving, IdleFrame, Frame, At

(* LeaveInv holds as long as the recorder runs. *)
LEMMA LeaveAlways ==
  ASSUME "meeting_ended" \notin ProviderEvents
  PROVE  Spec => []LeaveInv
  <1>1. LeaveInv /\ VisitInv /\ AudioInv /\ TypeOK /\ [Next]_vars => LeaveInv'
    BY StepLeaves
  <1> QED BY <1>1, InitTypes, StepTypes, InitBacked, StepBacked, InitVisits, StepVisits, InitLeaves, PTL
          DEF Spec

(* A session shown as recorded, or further on, has no bot in the call any more:
   not one that was late, not one spawned by a late job.  The Telemost provider
   announces no end of a meeting; the worker of one that did would stay. *)
THEOREM LeftStaysGone ==
  ASSUME "meeting_ended" \notin ProviderEvents
  PROVE  Spec => []LeftMeansGone
  <1>1. LeaveInv => LeftMeansGone
    BY DEF LeaveInv, RowsLeft, ShowsLeft, AfterCall, Gone, LeftMeansGone, Alive
  <1> QED BY <1>1, LeaveAlways, PTL

(* audio_deleted_at is never a lie: a file that has been deleted is not brought
   back by a capture that ends late. *)
THEOREM DeletedStaysGone ==
  ASSUME "meeting_ended" \notin ProviderEvents
  PROVE  Spec => []DeletedMeansGone
  <1>1. LeaveInv => DeletedMeansGone
    BY DEF LeaveInv
  <1> QED BY <1>1, LeaveAlways, PTL

-----------------------------------------------------------------------------
(* From here on: a status follows the table if no two coroutines work for the
   user on one session at a time.  The listener and the followup may work on it
   meanwhile, on rows they have read before. *)
Alone ==
  \A p, q \in Slots \cup Sessions : frame[p].sid = frame[q].sid /\ frame[p].sid \in Sessions => p = q

(* What each coroutine works on. *)
Disposal == {"delete_audio", "retain_audio"}
ListenerActs == {"waiting_room", "recording", "fail", "transcribing", "transcript_ready",
                 "await_audio_disposal"}
Role(p, f) ==
  /\ p \in Slots => f.act \in RequestActs \cup {"start_join"}
  /\ p \in Sessions => f.act = "start_join"
  /\ p = Listener => f.act \in ListenerActs
  /\ p = Followup => f.act \in Disposal
  /\ f.pc \in {"insert", "publish_job"} => p \in Slots
Roles == \A p \in Procs : frame[p] \in Resting \/ Role(p, frame[p])

(* Frame f was taken up on a row that would still lead there: what it will
   commit applies, or has been done by the followup, or by the user before it. *)
JoiningSt == {"joining", "waiting_room"}
OrderedSt == {"transcription_queued", "transcribing", "transcript_ready", "pending_audio_disposal",
              "completed", "failed"}
FailingSt == JoiningSt \cup {"transcription_queued", "transcribing"}
Holds(f) == f.pc \in {"publish", "lookup", "await", "orphan", "reap", "commit"}
Fit(f, st) ==
  /\ Holds(f) => Applies(st, f.act) \/ (f.act \in Disposal /\ st = "completed")
  /\ f.act \in Disposal /\ f.pc # "reload" => st \in {"pending_audio_disposal", "completed"}
  /\ f.pc = "insert" => st = "absent"
  /\ f.pc = "spawn" => st \in JoiningSt
  /\ f.pc = "publish_job" => st \in OrderedSt
  /\ f.act = "fail" => st \in FailingSt
Fits == \A p \in Procs : frame[p].sid \in Sessions => Fit(frame[p], status[frame[p].sid])
SelectedFit == \A s \in overdue : status[s] \in {"pending_audio_disposal", "completed"}

(* Nobody has heard that a bot is in the call, or was turned away, before the
   one or the other has happened; it is one of the two. *)
InStream(ev, s) == \E i \in DOMAIN events : events[i] = [sid |-> s, ev |-> ev]
ListenerAt(s, act) == frame[Listener].sid = s /\ frame[Listener].act = act
NotYetIn ==
  \A s \in Sessions : worker[s] \in {"none", "joining"} =>
    /\ status[s] \in {"absent", "queued", "scheduled", "completed"} \cup JoiningSt
    /\ worker[s] = "joining" => status[s] \in JoiningSt
    /\ \A ev \in {"recording", "failed"} : ~InStream(ev, s)
    /\ \A act \in {"recording", "fail"} : ~ListenerAt(s, act)
TurnedAway ==
  \A s \in Sessions : InStream("failed", s) =>
    /\ worker[s] = "exited" /\ status[s] \in JoiningSt \cup {"failed"}
    /\ ~InStream("recording", s) /\ ~ListenerAt(s, "recording")

(* The transcriber works, and reports, for sessions whose transcription has
   been asked for. *)
Ordered ==
  /\ \A i \in DOMAIN jobs : status[jobs[i]] \in OrderedSt
  /\ transcriber # NoJob => status[transcriber.sid] \in OrderedSt
  /\ \A i \in DOMAIN events :
       events[i].ev \in {"transcribing", "transcript_ready", "transcription_failed"}
         => status[events[i].sid] \in OrderedSt

TableInv == Roles /\ Fits /\ SelectedFit /\ NotYetIn /\ TurnedAway /\ Ordered

(* From where the other actions of the table apply. *)
LEMMA EarlySources ==
  ASSUME NEW st
  PROVE  /\ Applies(st, "schedule") => st = "queued"
         /\ Applies(st, "waiting_room") => st = "joining"
         /\ Applies(st, "recording") => st \in JoiningSt
         /\ Applies(st, "stop_recording") => st = "recording"
         /\ Applies(st, "cancel") => st = "scheduled"
         /\ Applies(st, "fail") => st \in {"queued", "scheduled", "recording", "capture_stopped",
                                           "in_call"} \cup FailingSt
         /\ Applies("queued", "start_join")
  BY DEF Applies, Transitions, JoiningSt, FailingSt

(* The statuses in which the user decides are not those in which the listener
   does. *)
RequestSt == {"queued", "scheduled", "recording", "capture_stopped", "in_call", "recorded",
              "pending_audio_disposal"}

(* What the user, or the followup, works on applies in the former. *)
LEMMA RequestSources ==
  ASSUME NEW st, NEW act \in Action, Applies(st, act), act \in RequestActs \cup {"start_join"}
  PROVE  st \in RequestSt
  BY Actions, Sources, EarlySources, LateGrounds DEF RequestSt, RequestActs, Mode, Handshake

(* What the listener works on applies in the latter. *)
LEMMA ListenerSources ==
  ASSUME NEW st, NEW act \in ListenerActs, Applies(st, act), act = "fail" => st \in FailingSt
  PROVE  st \notin RequestSt \cup {"absent", "completed"}
  BY Sources, EarlySources DEF RequestSt, ListenerActs, JoiningSt, FailingSt

(* The disposal of the audio applies where the user is asked about it, and
   completes the session. *)
LEMMA DisposalEnds ==
  ASSUME NEW act \in Action
  PROVE  /\ act \in Disposal => To(act) = "completed" /\ ~Applies("completed", act)
         /\ act \in RequestActs \cup {"start_join"} /\ Applies("pending_audio_disposal", act)
              => act \in Disposal
         /\ Applies("pending_audio_disposal", act) => act \in Disposal
         /\ ~Applies("absent", act) /\ ~Applies("failed", act)
  BY Actions, Targets, Sources, EarlySources, LateGrounds DEF Disposal, FailingSt, JoiningSt

(* What has been asked for is not taken back. *)
LEMMA OrderedStays ==
  ASSUME NEW act \in Action, NEW st \in OrderedSt, Applies(st, act)
  PROVE  To(act) \in OrderedSt
  BY Actions, Targets, Sources, EarlySources, LateGrounds DEF OrderedSt, FailingSt, JoiningSt

(* Who moves a row holds it: what it commits applies to the status the row
   really has, or has been done already. *)
LEMMA RowStep ==
  ASSUME TypeOK, Fits, Moves, NEW s \in Sessions, status'[s] # status[s]
  PROVE  \E q \in Procs :
           /\ frame[q].sid = s /\ OnlyMoves(q)
           /\ \/ /\ At(q, "insert") /\ status[s] = "absent"
                 /\ frame'[q] \in {Frame("commit", "start_join", s), Frame("arm", frame[q].act, s)}
                 /\ status'[s] = IF frame[q].act = "now" THEN "queued" ELSE "scheduled"
                 /\ frame'[q].pc = "commit" => status'[s] = "queued"
              \/ /\ At(q, "commit") /\ frame[q].act \in Action /\ Applies(status[s], frame[q].act)
                 /\ status'[s] = To(frame[q].act) /\ frame'[q] = Continue(q, frame[q].act, s)
  <1>1. PICK q \in Procs : frame[q].sid = s /\ OnlyMoves(q) /\ (Inserts(q, s) \/ CommitsFor(q, s))
    BY DEF Moves, RowMoves, StatusMoves
  <1>2. Fit(frame[q], status[s])
    BY <1>1 DEF Fits
  <1>3. CASE Inserts(q, s)
    BY <1>1, <1>2, <1>3, FrameFields DEF Inserts, Fit, At
  <1>4. CASE CommitsFor(q, s)
    <2>1. frame[q].act \in Action
      BY <1>4, Holding DEF CommitsFor, At
    <2>2. Applies(status[s], frame[q].act) \/ (frame[q].act \in Disposal /\ status[s] = "completed")
      BY <1>2, <1>4 DEF Fit, Holds, CommitsFor, At
    <2>3. Applies(status[s], frame[q].act)
      BY <1>4, <2>1, <2>2, DisposalEnds DEF CommitsFor
    <2> QED BY <1>1, <1>4, <2>1, <2>3 DEF CommitsFor
  <1> QED BY <1>1, <1>3, <1>4

(* Everyone stays in their role. *)
LEMMA StepRoles ==
  ASSUME TypeOK, EventsLeft, Roles, Moves
  PROVE  Roles'
  <1>1. ASSUME NEW p \in Procs
        PROVE  frame'[p] \in Resting \/ Role(p, frame'[p])
    <2>1. Turn(p, frame[p], frame'[p]) /\ (frame[p] \in Resting \/ Role(p, frame[p]))
      BY DEF Moves, FrameMoves, Roles
    <2>2. CASE Begins(p, frame'[p])
      <3>1. Entitled(p, frame'[p])
        BY <2>2 DEF Begins
      <3>2. \A ev \in Event : Hears(ev, frame'[p].sid) => ev # "meeting_ended"
        BY HeardIsIn DEF EventsLeft
      <3>3. p = Listener => frame'[p].act \in ListenerActs /\ frame'[p].pc = "commit"
        BY <3>1, <3>2, ProcessesAssumption DEF Entitled, Wanted, ListenerActs, TypeOK, SetTypes
      <3>4. p \in Slots \cup Sessions \cup {Followup} => Role(p, frame'[p])
        BY <3>1, ProcessesAssumption, FrameFields DEF Entitled, Role, Disposal, TypeOK, SetTypes
      <3>5. p = Listener => Role(p, frame'[p])
        BY <3>3, ProcessesAssumption DEF Role
      <3> QED BY <3>4, <3>5 DEF Procs
    <2>3. CASE Continues(frame[p], frame'[p])
      <3>1. frame[p] \notin Resting
        BY <2>3, AtRest DEF Continues
      <3>2. Role(p, frame[p])
        BY <2>1, <3>1
      <3>3. frame'[p].pc = "publish_job" => p \in Slots
        BY <2>3, <3>2, FrameFields, ProcessesAssumption
           DEF Continues, Role, Procs, ListenerActs, Disposal
      <3>4. frame'[p].pc # "insert"
        BY <2>3, FrameFields DEF Continues
      <3>5. p \in Slots => frame'[p].act \in RequestActs \cup {"start_join"}
        BY <2>3, <3>2, FrameFields, Holding DEF Continues, Role, RequestActs, At, Handshake, Mode
      <3>6. p = Listener => frame'[p].act \in ListenerActs
        BY <2>3, <3>2, FrameFields, Holding, ProcessesAssumption
           DEF Continues, Role, ListenerActs, At, Handshake, Mode
      <3>7. p \in Sessions => frame'[p].act = "start_join"
        BY <2>3, <3>2, FrameFields, Holding, ProcessesAssumption DEF Continues, Role, At, Handshake, Mode
      <3>8. p = Followup => frame'[p].act \in Disposal
        BY <2>3, <3>2, FrameFields, Holding, ProcessesAssumption
           DEF Continues, Role, Disposal, At, Handshake, Mode
      <3> QED BY <3>3, <3>4, <3>5, <3>6, <3>7, <3>8 DEF Role
    <2> QED BY <2>1, <2>2, <2>3 DEF Turn
  <1> QED BY <1>1 DEF Roles

(* Whoever spawns a session finds it without a worker, so that nobody has heard
   anything of its bot. *)
LEMMA SpawnerFresh ==
  ASSUME TypeOK, VisitInv, NotYetIn, NEW p \in Procs, At(p, "spawn")
  PROVE  /\ frame[p].sid \in Sessions /\ worker[frame[p].sid] = "none"
         /\ \A act \in {"recording", "fail"} : ~ListenerAt(frame[p].sid, act)
  <1>1. frame[p].act = "start_join" /\ frame[p].sid \in Sessions
    BY DEF TypeOK, FrameTypes, Suspended, Frame, IdleFrame, LoopFrame, EndedFrame, At
  <1>2. worker[frame[p].sid] = "none"
    BY <1>1 DEF VisitInv, StartsFresh, Starter, Starts
  <1> QED BY <1>1, <1>2 DEF NotYetIn

(* The listener commits: the coroutines of the user and of the followup work
   where it does not. *)
LEMMA ListenerCommits ==
  ASSUME TypeOK, VisitInv, TableInv, NEW s \in Sessions, NEW p \in Procs, p # Listener,
         frame[p].sid = s, frame[Listener].sid = s, At(Listener, "commit"),
         Applies(status[s], frame[Listener].act)
  PROVE  Fit(frame[p], To(frame[Listener].act))
  <1> DEFINE act == frame[Listener].act
             st == status[s]
  <1>1. Role(p, frame[p]) /\ Role(Listener, frame[Listener]) /\ s # NoSession
    BY AtRest, ProcTypes, ProcessesAssumption DEF TableInv, Roles
  <1>2. Fit(frame[p], st) /\ Fit(frame[Listener], st)
    BY ProcTypes DEF TableInv, Fits
  <1>3. act \in ListenerActs /\ act \in Action
    BY <1>1, ProcTypes, Holding DEF Role, At
  <1>4. st \notin RequestSt \cup {"absent", "completed", "pending_audio_disposal"}
    <2>1. act = "fail" => st \in FailingSt
      BY <1>2 DEF Fit
    <2> QED BY <1>3, <2>1, ListenerSources DEF RequestSt
  <1>5. /\ frame[p].act \in RequestActs \cup {"start_join"} \cup Disposal
        /\ frame[p].act # "fail"
    BY <1>1, Actions DEF Role, Procs, RequestActs, Disposal, Mode, Handshake
  <1>6. ~Holds(frame[p])
    <2>1. ASSUME Holds(frame[p])
          PROVE  FALSE
      <3>1. frame[p].act \in Action
        BY <2>1, Holding, HandshakeActions, Actions DEF Holds, At
      <3>2. Applies(st, frame[p].act)
        BY <1>2, <1>4, <2>1 DEF Fit
      <3> QED BY <1>4, <1>5, <3>1, <3>2, RequestSources DEF RequestActs, Disposal
    <2> QED BY <2>1
  <1>7. frame[p].act \in Disposal => frame[p].pc = "reload"
    BY <1>2, <1>4 DEF Fit
  <1>8. frame[p].pc # "insert"
    BY <1>2, <1>4 DEF Fit
  <1>9. frame[p].pc = "spawn" => To(act) \in JoiningSt
    <2>1. ASSUME frame[p].pc = "spawn"
          PROVE  To(act) \in JoiningSt
      <3>1. act \notin {"recording", "fail"}
        BY <2>1, SpawnerFresh DEF TableInv, At, ListenerAt
      <3>2. st \in JoiningSt
        BY <1>2, <2>1 DEF Fit
      <3>3. act = "waiting_room"
        BY <1>3, <3>1, <3>2, Sources DEF ListenerActs, JoiningSt
      <3> QED BY <3>3, Targets DEF JoiningSt
    <2> QED BY <2>1
  <1>10. frame[p].pc = "publish_job" => To(act) \in OrderedSt
    BY <1>2, <1>3, OrderedStays DEF Fit
  <1> QED BY <1>5, <1>6, <1>7, <1>8, <1>9, <1>10 DEF Fit

(* The user's coroutine, or the followup, commits. *)
LEMMA OthersCommit ==
  ASSUME TypeOK, VisitInv, TableInv, Alone, NEW s \in Sessions, NEW p \in Procs,
         NEW q \in Procs \ {p, Listener},
         frame[p].sid = s, frame[q].sid = s, At(q, "commit"), Applies(status[s], frame[q].act)
  PROVE  Fit(frame[p], To(frame[q].act))
  <1> DEFINE act == frame[q].act
             st == status[s]
  <1>1. Role(p, frame[p]) /\ Role(q, frame[q])
    BY AtRest, ProcessesAssumption DEF TableInv, Roles
  <1>2. Fit(frame[p], st) /\ act \in Action
    BY Holding DEF TableInv, Fits, At
  <1>3. act \in RequestActs \cup {"start_join"}
    BY <1>1 DEF Role, Procs, RequestActs, Disposal
  <1>4. st \in RequestSt /\ st # "completed"
    BY <1>2, <1>3, RequestSources DEF RequestSt
  <1>5. st \notin FailingSt \cup {"absent", "completed"}
    BY <1>4 DEF RequestSt, FailingSt, JoiningSt
  <1>6. Holds(frame[p]) => Applies(st, frame[p].act) /\ frame[p].act \in Action
    <2>1. Holds(frame[p]) => frame[p].act \in Action
      BY Holding, HandshakeActions, Actions DEF Holds, At
    <2> QED BY <1>2, <1>5, <2>1 DEF Fit
  <1>7. /\ frame[p].pc \notin {"insert", "spawn"} /\ frame[p].act # "fail"
        /\ frame[p].pc = "publish_job" => To(act) \in OrderedSt
    BY <1>2, <1>5, OrderedStays DEF Fit, FailingSt
  <1>8. CASE p = Listener
    <2>1. ~Holds(frame[p]) /\ frame[p].act \notin Disposal
      BY <1>1, <1>4, <1>6, <1>7, <1>8, ListenerSources DEF Role, ListenerActs, Disposal
    <2> QED BY <1>7, <2>1 DEF Fit
  <1>9. CASE p # Listener
    <2>1. p = Followup \/ q = Followup
      BY <1>9 DEF Alone, Procs
    <2>2. CASE frame[p].act \in Disposal /\ (frame[p].pc # "reload" \/ Holds(frame[p]))
      <3>1. st = "pending_audio_disposal"
        BY <1>2, <1>5, <2>2 DEF Fit, Holds
      <3>2. To(act) = "completed"
        BY <1>2, <3>1, DisposalEnds
      <3> QED BY <1>7, <2>2, <3>2 DEF Fit
    <2>3. CASE frame[p].act \in Disposal /\ frame[p].pc = "reload"
      BY <1>7, <2>3 DEF Fit, Holds
    <2>4. CASE frame[p].act \notin Disposal
      <3>1. q = Followup
        BY <1>1, <2>1, <2>4 DEF Role
      <3>2. act \in Disposal
        BY <1>1, <3>1 DEF Role
      <3>3. st = "pending_audio_disposal"
        BY <1>2, <3>2, LateGrounds DEF Disposal
      <3>4. ~Holds(frame[p])
        BY <1>6, <2>4, <3>3, DisposalEnds
      <3> QED BY <1>7, <2>4, <3>4 DEF Fit
    <2> QED BY <2>2, <2>3, <2>4
  <1> QED BY <1>8, <1>9

(* A row is inserted: nobody else works on it. *)
LEMMA OthersInsert ==
  ASSUME TypeOK, TableInv, Alone, NEW s \in Sessions, NEW p \in Procs, NEW q \in Procs \ {p},
         frame[p].sid = s, frame[q].sid = s, At(q, "insert"), NEW st \in {"queued", "scheduled"}
  PROVE  Fit(frame[p], st)
  <1>1. /\ Role(p, frame[p]) /\ Role(q, frame[q])
        /\ Fit(frame[p], status[s]) /\ status[s] = "absent"
    BY AtRest, ProcessesAssumption DEF TableInv, Roles, Fits, Fit, At
  <1>2. frame[p].pc # "insert"
    BY <1>1 DEF Role, Alone, At
  <1>3. ~Holds(frame[p])
    <2>1. Holds(frame[p]) => frame[p].act \in Action
      BY Holding, HandshakeActions, Actions DEF Holds, At
    <2> QED BY <1>1, <2>1, DisposalEnds DEF Fit
  <1> QED BY <1>1, <1>2, <1>3 DEF Fit, JoiningSt, FailingSt, OrderedSt

(* What a coroutine does after its commit fits what it has committed. *)
LEMMA OwnCommit ==
  ASSUME NEW q, NEW act \in Action, NEW s \in Sessions, Continue(q, act, s).sid \in Sessions
  PROVE  Fit(Continue(q, act, s), To(act))
  <1>1. Continue(q, act, s) \notin Resting
    BY AtRest, ProcessesAssumption
  <1>2. CASE act = "start_join"
    BY <1>2, FrameFields, Targets DEF Continue, Fit, Holds, Disposal, JoiningSt
  <1>3. CASE act = "confirm_transcribe"
    BY <1>3, FrameFields, Targets DEF Continue, Fit, Holds, Disposal, OrderedSt
  <1>4. CASE act \notin {"start_join", "confirm_transcribe"}
    <2>1. Continue(q, act, s) = Frame("reload", "await_audio_disposal", s)
      BY <1>1, <1>4 DEF Continue, Rest, Resting
    <2> QED BY <2>1, FrameFields DEF Fit, Holds, Disposal
  <1> QED BY <1>2, <1>3, <1>4

(* What a coroutine begins fits the row it reads. *)
LEMMA BeginsFit ==
  ASSUME TypeOK, TableInv, NEW p \in Procs, NEW s \in Sessions, NEW f, f.sid = s,
         Begins(p, f)
  PROVE  Fit(f, status[s])
  <1>1. Entitled(p, f)
    BY DEF Begins
  <1>2. f.pc \in {"insert", "publish", "commit", "expire"}
    BY <1>1, FrameFields DEF Entitled
  <1>3. /\ Holds(f) => Applies(status[s], f.act) \/ (f.act \in Disposal /\ s \in overdue)
        /\ f.act \in Disposal => Applies(status[s], f.act) \/ s \in overdue
        /\ f.pc = "insert" => status[s] = "absent"
    BY Sources, FrameFields, SettingsAssumption
       DEF Begins, Holds, Disposal, Handshake, Applies, Transitions
  <1>4. s \in overdue => status[s] \in {"pending_audio_disposal", "completed"}
    BY DEF TableInv, SelectedFit
  <1>5. f.act = "fail" => status[s] \in FailingSt
    <2>1. ASSUME f.act = "fail"
          PROVE  \E ev \in {"failed", "transcription_failed"} :
                   Hears(ev, s) /\ Applies(status[s], "fail")
      <3>1. p = Listener /\ \E ev \in Event : Hears(ev, s) /\ "fail" \in Wanted(ev, status[s])
        BY <1>1, <2>1, FrameFields DEF Entitled, RequestActs, Mode, Handshake
      <3>2. Applies(status[s], "fail")
        BY <2>1, FrameFields, SettingsAssumption DEF Begins, Handshake
      <3> QED BY <3>1, <3>2 DEF Wanted
    <2>2. Hears("failed", s) => status[s] \in JoiningSt \cup {"failed"}
      BY HeardIsIn DEF TableInv, TurnedAway, InStream
    <2>3. Hears("transcription_failed", s) => status[s] \in OrderedSt
      BY HeardIsIn DEF TableInv, Ordered
    <2> QED BY <2>1, <2>2, <2>3, EarlySources, Actions, DisposalEnds DEF FailingSt, JoiningSt, OrderedSt
  <1>6. f.act \in Disposal => (Applies(status[s], f.act) <=> status[s] = "pending_audio_disposal")
    BY DEF Disposal, Applies, Transitions
  <1>7. /\ Holds(f) => Applies(status[s], f.act) \/ (f.act \in Disposal /\ status[s] = "completed")
        /\ f.act \in Disposal => status[s] \in {"pending_audio_disposal", "completed"}
    BY <1>3, <1>4, <1>6
  <1> QED BY <1>2, <1>3, <1>5, <1>7 DEF Fit

(* How a coroutine goes on fits the row it holds. *)
LEMMA ContinuesFit ==
  ASSUME TypeOK, NEW p \in Procs, NEW s \in Sessions, NEW f, f.sid = s, frame[p].sid = s,
         Fit(frame[p], status[s]), Continues(frame[p], f), status'[s] = status[s]
  PROVE  Fit(f, status[s])
  <1>1. CASE frame[p].pc = "insert"
    BY <1>1, FrameFields, EarlySources, Holding DEF Continues, Fit, Holds, Disposal, Mode, At
  <1>2. CASE frame[p].pc \in {"publish", "lookup", "await", "reap"}
    <2>1. f.act = frame[p].act /\ f.pc \in {"lookup", "await", "orphan", "reap", "commit"}
      BY <1>2, FrameFields, Holding DEF Continues, At
    <2>2. frame[p].act \in Handshake
      BY <1>2, Holding DEF At, Handshake
    <2> QED BY <1>2, <2>1, <2>2 DEF Fit, Holds, Handshake, Disposal
  <1>3. CASE frame[p].pc = "expire"
    <2>1. \/ f.pc = "reload" /\ f.act = "retain_audio"
          \/ f.pc = "commit" /\ f.act = "retain_audio" /\ frame[p].act = "retain_audio"
      BY <1>3, FrameFields DEF Continues
    <2>2. frame[p].act = "retain_audio" => status[s] \in {"pending_audio_disposal", "completed"}
      BY <1>3 DEF Fit, Disposal
    <2>3. Applies("pending_audio_disposal", "retain_audio")
      BY DEF Applies, Transitions
    <2> QED BY <2>1, <2>2, <2>3 DEF Fit, Holds, Disposal
  <1>4. CASE frame[p].pc = "reload"
    <2>1. f.act = frame[p].act /\ f.pc = "commit" /\ Applies(status[s], f.act)
      BY <1>4, FrameFields DEF Continues
    <2>2. f.act \in {"retain_audio", "await_audio_disposal"}
      BY <1>4, <2>1, Holding DEF At
    <2> QED BY <2>1, <2>2, LateGrounds DEF Fit, Holds, Disposal
  <1>5. CASE frame[p].pc = "commit"
    BY <1>5, FrameFields DEF Continues, Fit, Holds, Disposal, JoiningSt, OrderedSt
  <1> QED BY <1>1, <1>2, <1>3, <1>4, <1>5 DEF Continues

(* What a coroutine holds of a session keeps up with its row. *)
LEMMA StepFits ==
  ASSUME TypeOK, VisitInv, TableInv, Alone, Moves
  PROVE  Fits'
  <1>1. ASSUME NEW p \in Procs, NEW s \in Sessions, frame'[p].sid = s
        PROVE  Fit(frame'[p], status'[s])
    <2>1. CASE status'[s] = status[s]
      <3>1. CASE frame'[p] = frame[p]
        BY <1>1, <2>1, <3>1 DEF TableInv, Fits
      <3>2. CASE frame'[p] \in Resting
        BY <1>1, <3>2, AtRest, ProcessesAssumption
      <3>3. CASE Begins(p, frame'[p])
        BY <1>1, <2>1, <3>3, BeginsFit
      <3>4. CASE Continues(frame[p], frame'[p])
        <4>1. frame[p].sid = s
          BY <1>1, <3>4, FrameFields DEF Continues
        <4> QED BY <1>1, <2>1, <3>4, <4>1, ContinuesFit DEF TableInv, Fits
      <3> QED BY <3>1, <3>2, <3>3, <3>4 DEF Moves, FrameMoves, Turn
    <2>2. ASSUME NEW q \in Procs, frame[q].sid = s, OnlyMoves(q), At(q, "insert"), status[s] = "absent",
                 frame'[q] \in {Frame("commit", "start_join", s), Frame("arm", frame[q].act, s)},
                 status'[s] \in {"queued", "scheduled"},
                 frame'[q].pc = "commit" => status'[s] = "queued"
          PROVE  Fit(frame'[p], status'[s])
      <3>1. CASE p = q
        <4>1. frame[q].act \in Mode
          BY <2>2, Holding
        <4> QED BY <2>2, <3>1, <4>1, FrameFields, EarlySources DEF Fit, Holds, Disposal, Mode
      <3>2. CASE p # q
        <4>1. frame'[p] = frame[p]
          BY <2>2, <3>2 DEF OnlyMoves
        <4> QED BY <1>1, <2>2, <3>2, <4>1, OthersInsert
      <3> QED BY <3>1, <3>2
    <2>3. ASSUME NEW q \in Procs, frame[q].sid = s, OnlyMoves(q), At(q, "commit"),
                 frame[q].act \in Action, Applies(status[s], frame[q].act),
                 status'[s] = To(frame[q].act), frame'[q] = Continue(q, frame[q].act, s)
          PROVE  Fit(frame'[p], status'[s])
      <3>1. CASE p = q
        BY <1>1, <2>3, <3>1, OwnCommit
      <3>2. CASE p # q
        <4>1. frame'[p] = frame[p]
          BY <2>3, <3>2 DEF OnlyMoves
        <4>2. CASE q = Listener
          BY <1>1, <2>3, <3>2, <4>1, <4>2, ListenerCommits
        <4>3. CASE q # Listener
          BY <1>1, <2>3, <3>2, <4>1, <4>3, OthersCommit
        <4> QED BY <4>2, <4>3
      <3> QED BY <3>1, <3>2
    <2> QED BY <2>1, <2>2, <2>3, RowStep DEF TableInv
  <1> QED BY <1>1 DEF Fits

(* Of a set of statuses that the table does not lead out of, a row stays in. *)
LEMMA StaysIn ==
  ASSUME TypeOK, Fits, Moves, NEW S, "absent" \notin S,
         \A st \in S : \A act \in Action : Applies(st, act) => To(act) \in S,
         NEW s \in Sessions, status[s] \in S
  PROVE  status'[s] \in S
  <1>1. CASE status'[s] = status[s]
    BY <1>1
  <1>2. CASE status'[s] # status[s]
    BY <1>2, RowStep
  <1> QED BY <1>1, <1>2

(* What has been selected, or asked for, stays so. *)
LEMMA StaysDisposed ==
  ASSUME TypeOK, Fits, Moves, NEW s \in Sessions,
         status[s] \in {"pending_audio_disposal", "completed"}
  PROVE  status'[s] \in {"pending_audio_disposal", "completed"}
  <1>1. \A st \in {"pending_audio_disposal", "completed"} :
          \A act \in Action : Applies(st, act) => To(act) \in {"pending_audio_disposal", "completed"}
    BY DisposalEnds, LateGrounds
  <1> QED BY <1>1, StaysIn

(* The same of a transcription. *)
LEMMA StaysOrdered ==
  ASSUME TypeOK, Fits, Moves, NEW s \in Sessions, status[s] \in OrderedSt
  PROVE  status'[s] \in OrderedSt
  <1>1. "absent" \notin OrderedSt
    BY DEF OrderedSt
  <1> QED BY <1>1, OrderedStays, StaysIn

(* The followup selects rows that wait for a decision. *)
LEMMA StepSelected ==
  ASSUME TypeOK, TypeOK', TableInv, Moves
  PROVE  SelectedFit'
  <1>1. ASSUME NEW s \in Sessions, s \in overdue'
        PROVE  status'[s] \in {"pending_audio_disposal", "completed"}
    <2>1. status[s] \in {"pending_audio_disposal", "completed"}
      BY <1>1 DEF TableInv, SelectedFit, Moves, OverdueMoves, Pending
    <2> QED BY <2>1, StaysDisposed DEF TableInv
  <1> QED BY <1>1 DEF SelectedFit, TypeOK, SetTypes

(* An entry that is in the stream was there, or has been added. *)
LEMMA Arrives ==
  ASSUME Moves, NEW ev, NEW s, InStream(ev, s)'
  PROVE  InStream(ev, s) \/ Said([sid |-> s, ev |-> ev])
  BY DEF InStream, Moves, EventMoves

(* What the listener has in hand it held before, or has just heard. *)
LEMMA ListenerHears ==
  ASSUME TypeOK, Moves, NEW s \in Sessions, NEW act \in {"recording", "fail"}, ListenerAt(s, act)'
  PROVE  \/ ListenerAt(s, act)
         \/ /\ act = "recording" => InStream("recording", s)
            /\ act = "fail" => InStream("failed", s) \/ InStream("transcription_failed", s)
            /\ Applies(status[s], act)
  <1>1. /\ Turn(Listener, frame[Listener], frame'[Listener])
        /\ Listener \notin Slots \cup Sessions \cup {Followup}
    BY ProcTypes, ProcessesAssumption DEF Moves, FrameMoves
  <1>2. frame'[Listener].sid = s /\ frame'[Listener].act = act
    BY DEF ListenerAt
  <1>3. CASE Begins(Listener, frame'[Listener])
    <2>1. \E ev \in Event : Hears(ev, s) /\ act \in Wanted(ev, status[s])
      BY <1>1, <1>2, <1>3 DEF Begins, Entitled, TypeOK, SetTypes
    <2>2. Applies(status[s], act)
      BY <1>2, <1>3, FrameFields, SettingsAssumption DEF Begins, Handshake
    <2> QED BY <2>1, <2>2, HeardIsIn DEF Wanted, InStream
  <1>4. CASE Continues(frame[Listener], frame'[Listener])
    BY <1>2, <1>4, FrameFields, ProcTypes, Holding DEF Continues, ListenerAt, At, Handshake
  <1>5. CASE frame'[Listener] \in Resting
    BY <1>2, <1>5, AtRest
  <1> QED BY <1>1, <1>3, <1>4, <1>5 DEF Turn, ListenerAt

(* As long as a bot is on its way, its session waits for it, or has not come to
   that yet, or has been cancelled. *)
LEMMA Waits ==
  ASSUME TypeOK, TableInv, Moves, NEW s \in Sessions, worker[s] \in {"none", "joining"}
  PROVE  /\ status'[s] \in {"absent", "queued", "scheduled", "completed"} \cup JoiningSt
         /\ status[s] \in JoiningSt => status'[s] \in JoiningSt
  <1>1. /\ status[s] \in {"absent", "queued", "scheduled", "completed"} \cup JoiningSt
        /\ \A act \in {"recording", "fail"} : ~ListenerAt(s, act)
    BY DEF TableInv, NotYetIn
  <1>2. ASSUME NEW q \in Procs, frame[q].sid = s, frame[q].act \in Action,
               Applies(status[s], frame[q].act), status'[s] = To(frame[q].act)
        PROVE  /\ status'[s] \in {"absent", "queued", "scheduled", "completed"} \cup JoiningSt
               /\ status[s] \in JoiningSt => status'[s] \in JoiningSt
    <2>1. Role(q, frame[q])
      BY <1>2, AtRest, ProcessesAssumption DEF TableInv, Roles
    <2>2. frame[q].act \notin {"recording", "fail"}
      BY <1>1, <1>2, <2>1 DEF ListenerAt, Role, Procs, RequestActs, Mode, Handshake, Disposal
    <2>3. frame[q].act \in {"schedule", "start_join", "waiting_room", "cancel"}
      BY <1>1, <1>2, <2>2, Actions, Sources, EarlySources, LateGrounds DEF JoiningSt
    <2>4. status[s] \in JoiningSt => frame[q].act = "waiting_room"
      BY <1>2, <2>3, EarlySources, LateGrounds DEF JoiningSt
    <2> QED BY <1>2, <2>3, <2>4, Targets DEF JoiningSt
  <1>3. CASE status'[s] = status[s]
    BY <1>1, <1>3
  <1>4. CASE status'[s] # status[s]
    <2>1. \/ status[s] = "absent" /\ status'[s] \in {"queued", "scheduled"}
          \/ \E q \in Procs : /\ frame[q].sid = s /\ frame[q].act \in Action
                              /\ Applies(status[s], frame[q].act) /\ status'[s] = To(frame[q].act)
      BY <1>4, RowStep DEF TableInv
    <2> QED BY <1>2, <2>1 DEF JoiningSt
  <1> QED BY <1>3, <1>4

(* A bot that has not come yet is not spoken of. *)
LEMMA StepNotYetIn ==
  ASSUME ProviderEvents \subseteq {"waiting_room"}, TypeOK, VisitInv, TableInv, Moves
  PROVE  NotYetIn'
  <1>1. ASSUME NEW s \in Sessions, worker'[s] \in {"none", "joining"}
        PROVE  /\ status'[s] \in {"absent", "queued", "scheduled", "completed"} \cup JoiningSt
               /\ worker'[s] = "joining" => status'[s] \in JoiningSt
               /\ \A ev \in {"recording", "failed"} : ~InStream(ev, s)'
               /\ \A act \in {"recording", "fail"} : ~ListenerAt(s, act)'
    <2>1. ASSUME NEW p \in Procs, At(p, "spawn"), frame[p].sid = s
          PROVE  worker[s] = "none" /\ status[s] \in JoiningSt
      BY <2>1, SpawnerFresh DEF TableInv, Fits, Fit, At
    <2>2. /\ worker[s] \in {"none", "joining"}
          /\ worker'[s] = "joining" => status[s] \in JoiningSt
      <3>1. CASE worker'[s] = worker[s]
        BY <1>1, <3>1 DEF TableInv, NotYetIn
      <3>2. CASE worker[s] \in Alive /\ worker'[s] # "joining"
        BY <1>1, <3>2 DEF Moves, WorkerMoves, Alive
      <3>3. CASE \E p \in Procs : At(p, "spawn") /\ frame[p].sid = s
        BY <2>1, <3>3
      <3> QED BY <3>1, <3>2, <3>3 DEF Moves, WorkerMoves
    <2>3. /\ \A ev \in {"recording", "failed"} : ~InStream(ev, s)
          /\ \A act \in {"recording", "fail"} : ~ListenerAt(s, act)
          /\ status[s] \in {"absent", "queued", "scheduled", "completed"} \cup JoiningSt
      BY <2>2 DEF TableInv, NotYetIn
    <2>4. ASSUME NEW ev \in {"recording", "failed"}
          PROVE  ~InStream(ev, s)'
      <3>1. ~Said([sid |-> s, ev |-> ev])
        BY <1>1 DEF Said
      <3> QED BY <2>3, <3>1, Arrives
    <2>5. ASSUME NEW act \in {"recording", "fail"}
          PROVE  ~ListenerAt(s, act)'
      <3>1. InStream("transcription_failed", s) => status[s] \in OrderedSt
        BY DEF TableInv, Ordered, InStream
      <3>2. status[s] \in OrderedSt => ~Applies(status[s], "fail")
        BY <2>3, LateGrounds, Actions DEF OrderedSt, JoiningSt
      <3> QED BY <2>3, <3>1, <3>2, ListenerHears
    <2> QED BY <2>2, <2>4, <2>5, Waits
  <1> QED BY <1>1 DEF NotYetIn

(* A bot that has been turned away is not announced as recording any more. *)
LEMMA StepTurnedAway ==
  ASSUME ProviderEvents \subseteq {"waiting_room"}, TypeOK, VisitInv, TableInv, Moves
  PROVE  TurnedAway'
  <1>1. ASSUME NEW s \in Sessions, InStream("failed", s)'
        PROVE  /\ worker'[s] = "exited" /\ status'[s] \in JoiningSt \cup {"failed"}
               /\ ~InStream("recording", s)' /\ ~ListenerAt(s, "recording")'
    <2>1. CASE Said([sid |-> s, ev |-> "failed"])
      <3>1. worker[s] = "joining" /\ worker'[s] = "exited"
        BY <2>1 DEF Said
      <3>2. /\ status[s] \in JoiningSt /\ ~InStream("recording", s)
            /\ ~ListenerAt(s, "recording")
        BY <3>1 DEF TableInv, NotYetIn
      <3>3. status'[s] \in JoiningSt
        BY <3>1, <3>2, Waits
      <3>4. ~Said([sid |-> s, ev |-> "recording"])
        BY <3>1 DEF Said
      <3> QED BY <3>1, <3>2, <3>3, <3>4, Arrives, ListenerHears
    <2>2. CASE InStream("failed", s)
      <3>1. /\ worker[s] = "exited" /\ status[s] \in JoiningSt \cup {"failed"}
            /\ ~InStream("recording", s) /\ ~ListenerAt(s, "recording")
        BY <2>2 DEF TableInv, TurnedAway
      <3>2. worker'[s] = "exited"
        BY <3>1, StaysGone DEF Gone
      <3>3. status'[s] \in JoiningSt \cup {"failed"}
        <4>1. ASSUME NEW q \in Procs, frame[q].sid = s, frame[q].act \in Action,
                     Applies(status[s], frame[q].act), status'[s] = To(frame[q].act)
              PROVE  status'[s] \in JoiningSt \cup {"failed"}
          <5>1. Role(q, frame[q])
            BY <4>1, AtRest, ProcessesAssumption DEF TableInv, Roles
          <5>2. frame[q].act # "recording"
            BY <3>1, <4>1, <5>1 DEF ListenerAt, Role, Procs, RequestActs, Mode, Handshake, Disposal
          <5>3. frame[q].act \in {"waiting_room", "fail"}
            BY <3>1, <4>1, <5>2, Actions, Sources, EarlySources, LateGrounds DEF JoiningSt
          <5> QED BY <4>1, <5>3, Targets DEF JoiningSt
        <4>2. CASE status'[s] # status[s]
          <5>1. status[s] # "absent"
            BY <3>1 DEF JoiningSt
          <5> QED BY <4>1, <4>2, <5>1, RowStep DEF TableInv
        <4> QED BY <3>1, <4>2
      <3>4. ~Said([sid |-> s, ev |-> "recording"])
        BY <3>1 DEF Said
      <3> QED BY <3>1, <3>2, <3>3, <3>4, Arrives, ListenerHears
    <2> QED BY <1>1, <2>1, <2>2, Arrives
  <1> QED BY <1>1 DEF TurnedAway

(* The transcriber gets its jobs from commits of transcription_queued. *)
LEMMA StepOrdered ==
  ASSUME ProviderEvents \subseteq {"waiting_room"}, TypeOK, TableInv, Moves
  PROVE  Ordered'
  <1>0. Ordered /\ Fits
    BY DEF TableInv
  <1>1. ASSUME NEW i \in DOMAIN jobs'
        PROVE  status'[jobs'[i]] \in OrderedSt
    <2>1. ASSUME NEW j \in DOMAIN jobs, jobs'[i] = jobs[j]
          PROVE  status'[jobs'[i]] \in OrderedSt
      BY <1>0, <2>1, JobHolds, StaysOrdered DEF Ordered
    <2>2. ASSUME NEW p \in Procs, At(p, "publish_job"), jobs'[i] = frame[p].sid
          PROVE  status'[jobs'[i]] \in OrderedSt
      <3>1. frame[p].sid \in Sessions /\ status[frame[p].sid] \in OrderedSt
        BY <1>0, <2>2, Holding DEF Fits, Fit, At
      <3> QED BY <1>0, <2>2, <3>1, StaysOrdered
    <2> QED BY <2>1, <2>2 DEF Moves, JobMoves
  <1>2. ASSUME transcriber' # NoJob
        PROVE  status'[transcriber'.sid] \in OrderedSt
    <2>1. CASE transcriber # NoJob /\ transcriber'.sid = transcriber.sid
      BY <1>0, <2>1, JobHolds, StaysOrdered DEF Ordered
    <2>2. CASE jobs # <<>> /\ transcriber'.sid = Head(jobs)
      BY <1>0, <2>2, JobHolds, StaysOrdered DEF Ordered
    <2> QED BY <1>2, <2>1, <2>2 DEF Moves, TranscriberMoves
  <1>3. ASSUME NEW i \in DOMAIN events',
               events'[i].ev \in {"transcribing", "transcript_ready", "transcription_failed"}
        PROVE  status'[events'[i].sid] \in OrderedSt
    <2>1. CASE Said(events'[i])
      <3>1. transcriber # NoJob /\ transcriber.sid = events'[i].sid
        BY <1>3, <2>1 DEF Said
      <3> QED BY <1>0, <3>1, JobHolds, StaysOrdered DEF Ordered
    <2>2. ASSUME NEW j \in DOMAIN events, events'[i] = events[j]
          PROVE  status'[events'[i].sid] \in OrderedSt
      BY <1>0, <1>3, <2>2, EntryHolds, StaysOrdered DEF Ordered
    <2> QED BY <2>1, <2>2 DEF Moves, EventMoves
  <1> QED BY <1>1, <1>2, <1>3 DEF Ordered

(* TableInv is inductive as long as nobody overlaps. *)
LEMMA StepTable ==
  ASSUME ProviderEvents \subseteq {"waiting_room"},
         TypeOK, VisitInv, LeaveInv, TableInv, Alone, [Next]_vars
  PROVE  TableInv'
  <1>1. Moves /\ TypeOK'
    BY StepMoves, StepTypes
  <1>2. Roles' /\ Fits' /\ SelectedFit'
    BY <1>1, StepRoles, StepFits, StepSelected DEF TableInv, LeaveInv
  <1>3. NotYetIn' /\ TurnedAway' /\ Ordered'
    BY <1>1, StepNotYetIn, StepTurnedAway, StepOrdered
  <1> QED BY <1>2, <1>3 DEF TableInv

(* Nobody works on anything to begin with. *)
LEMMA InitTable == Init => TableInv
  <1>1. Init => Roles /\ Fits /\ SelectedFit /\ NotYetIn
    BY ProcessesAssumption DEF Init, Roles, Resting, Fits, SelectedFit, NotYetIn, InStream, ListenerAt,
       IdleFrame, Frame, Procs
  <1>2. Init => TurnedAway /\ Ordered
    BY DEF Init, TurnedAway, InStream, Ordered
  <1> QED BY <1>1, <1>2 DEF TableInv

(* One row moves at a time. *)
LEMMA OneRow ==
  ASSUME TypeOK, Fits, Moves, NEW s \in Sessions, NEW t \in Sessions,
         status'[s] # status[s], status'[t] # status[t]
  PROVE  s = t
  <1>1. PICK q \in Procs : frame[q].sid = s /\ OnlyMoves(q)
    BY RowStep
  <1>2. PICK r \in Procs : /\ frame[r].sid = t
                           /\ Inserts(r, t) \/ CommitsFor(r, t)
    BY DEF Moves, RowMoves, StatusMoves
  <1>3. frame'[r] # frame[r]
    <2>1. CASE Inserts(r, t)
      BY <2>1, FrameFields DEF Inserts, At
    <2>2. CASE CommitsFor(r, t)
      <3>1. Continue(r, frame[r].act, t).pc # "commit"
        BY FrameFields, AtRest DEF Continue, Rest, Resting
      <3> QED BY <1>2, <2>2, <3>1 DEF CommitsFor, At
    <2> QED BY <1>2, <2>1, <2>2
  <1> QED BY <1>1, <1>2, <1>3 DEF OnlyMoves

(* A step of the recorder is one of the table in one row, or in none. *)
LEMMA StepLife ==
  ASSUME TypeOK, TableInv, [Next]_vars
  PROVE  [Life!Next]_status
  <1>1. Moves /\ TypeOK'
    BY StepMoves, StepTypes
  <1>2. CASE \A s \in Sessions : status'[s] = status[s]
    BY <1>1, <1>2 DEF TypeOK, RowTypes
  <1>3. ASSUME NEW s \in Sessions, status'[s] # status[s]
        PROVE  Life!Next
    <2>1. status' = [status EXCEPT ![s] = status'[s]]
      <3>1. \A t \in Sessions \ {s} : status'[t] = status[t]
        BY <1>1, <1>3, OneRow DEF TableInv
      <3> QED BY <1>1, <3>1 DEF TypeOK, RowTypes
    <2>2. \/ status[s] = "absent" /\ status'[s] \in {"queued", "scheduled"}
          \/ \E act \in Action : Applies(status[s], act) /\ status'[s] = To(act)
      BY <1>1, <1>3, RowStep DEF TableInv
    <2>3. Life!Become(s, status'[s])
      BY <2>1 DEF Life!Become
    <2>4. CASE status[s] = "absent" /\ status'[s] \in {"queued", "scheduled"}
      <3>1. Life!Create(s)
        BY <2>3, <2>4 DEF Life!Create
      <3> QED BY <3>1 DEF Life!Next
    <2>5. ASSUME NEW act \in Action, Applies(status[s], act), status'[s] = To(act)
          PROVE  Life!Next
      <3>1. Life!Applies(status[s], act) /\ Life!Become(s, Life!To(act)) /\ act \in Life!Action
        BY <2>3, <2>5 DEF Applies, Life!Applies, To, Life!To, Action, Life!Action,
           Transitions, Life!Transitions
      <3>2. Life!Move(s)
        BY <3>1 DEF Life!Move
      <3> QED BY <3>2 DEF Life!Next
    <2> QED BY <2>2, <2>4, <2>5
  <1> QED BY <1>2, <1>3

(* A status only ever moves along the table of session_fsm.py, although it is
   computed from a row that may have been read long before: as long as no two
   requests, nor a request and a join job, overlap for one session.  The events
   of the worker and the transcriber, the followup, a restart or a crash may
   come at any time. *)
THEOREM TableFollowed ==
  ASSUME ProviderEvents \subseteq {"waiting_room"}
  PROVE  Spec /\ []Alone => FollowsTable
  <1>1. "meeting_ended" \notin ProviderEvents
    OBVIOUS
  <1>2. Spec => []LeaveInv
    BY <1>1, LeaveAlways
  <1>3. TypeOK /\ VisitInv /\ LeaveInv /\ TableInv /\ Alone /\ [Next]_vars => TableInv'
    BY StepTable
  <1>4. TypeOK /\ TableInv /\ [Next]_vars => [Life!Next]_status
    BY StepLife
  <1>5. Init => Life!Init
    BY DEF Init, Life!Init
  <1> QED BY <1>2, <1>3, <1>4, <1>5, InitTypes, StepTypes, InitVisits, StepVisits, InitTable, PTL
          DEF Spec, FollowsTable, Life!Spec
=============================================================================
