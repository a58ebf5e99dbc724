--------------------------- MODULE RecorderState ---------------------------
(***************************************************************************)
(* The state the services of telemost-recorder share, and the vocabulary   *)
(* the component modules write their actions in.                           *)
(*                                                                         *)
(* The gateway is one asyncio loop.  A coroutine keeps the loop until its  *)
(* next await, so an action of a component module is what one coroutine    *)
(* does between two awaits at which another coroutine, or another process, *)
(* can change what it relies on.  frame[p] says where coroutine p is       *)
(* suspended, for which session, and which transition it is working on: a  *)
(* coroutine that holds a SessionRecord it read before the await is in     *)
(* "commit", and will write To(act) whatever the row says by then.         *)
(*                                                                         *)
(* Bounds: MaxQueued stops the user from sending requests while that many  *)
(* stream entries are unread; MaxFaults bounds crashes and restarts; the   *)
(* set Sessions bounds the rows ever created.                              *)
(***************************************************************************)
EXTENDS SessionFSM, Naturals, Sequences

CONSTANTS
  Sessions,        \* ids of the rows of table sessions
  Users,           \* Telegram users
  Owner,           \* the user each session is created for
  Slots,           \* HTTP requests the gateway can be serving at once
  Listener,        \* the run_event_listener task
  Followup,        \* the process_pending_audio_cleanup job
  NoSession,
  CreateModes,     \* how the user asks for sessions: "now", "future", "past"
  ProviderEvents,  \* what watch_events of the provider may yield
  AutoAction,      \* settings.audio_cleanup_auto_action
  AwareTimestamps, \* the database keeps time zones: PostgreSQL does, SQLite does not
  RetentionOutlasts,  \* audio_retention_days is longer than any session takes
  Punctual,        \* every join job starts within APScheduler's grace time
  MaxQueued,
  MaxFaults

(* A scheduled session has a fire_join coroutine of its own, named by it. *)
Procs == Slots \cup Sessions \cup {Listener, Followup}

ASSUME ProcessesAssumption ==
  /\ Slots \cap Sessions = {}
  /\ Listener \notin Slots \cup Sessions
  /\ Followup \notin Slots \cup Sessions \cup {Listener}
  /\ NoSession \notin Sessions
ASSUME OwnerAssumption == Owner \in [Sessions -> Users]
ASSUME SettingsAssumption ==
  /\ CreateModes \subseteq {"now", "future", "past"}
  /\ ProviderEvents \subseteq {"waiting_room", "recording", "meeting_ended", "failed"}
  /\ AutoAction \in {"delete", "retain"}
  /\ AwareTimestamps \in BOOLEAN /\ RetentionOutlasts \in BOOLEAN /\ Punctual \in BOOLEAN
  /\ MaxQueued \in Nat /\ MaxFaults \in Nat

VARIABLES
  status, deletedAt, expires,   \* columns of table sessions
  audio, transcript,            \* the files of each session's directory
  frame,                        \* the gateway's coroutines
  overdue,                      \* rows the running followup job still has to resolve
  armed,                        \* sessions with a join job in APScheduler
  signal,                       \* the WorkerManager's Events that are set
  commands, events, jobs,       \* the undelivered entries of the Redis streams
  worker, watch,                \* meeting_worker processes, their pending provider events
  transcriber,                  \* the transcriber process
  offered,                      \* sessions whose delete/keep keyboard the bot has sent
  faults

rowVars == <<status, deletedAt, expires>>
fileVars == <<audio, transcript>>
gatewayVars == <<frame, overdue, armed, signal>>
streamVars == <<commands, events, jobs>>
workerVars == <<worker, watch>>
vars == <<rowVars, fileVars, gatewayVars, streamVars, workerVars,
          transcriber, offered, faults>>

-----------------------------------------------------------------------------
(* Where a coroutine can be suspended.
     insert, arm       create_session, before its INSERT and after it
     publish, lookup   send_stop_capture / send_leave, around the XADD
     await, orphan     waiting for the session's current Event, for a replaced one
     reap              woken by "left", about to stop the worker process
     expire, reload    before audio_expires_at is committed, before a refresh
     commit            the UPDATE of status is decided and not yet committed
     spawn, publish_job   between the commit and the effect that follows it
     loop              the followup job between two records
     ended             the listener, when Redis has failed it                  *)
Frame(pc, act, s) == [pc |-> pc, act |-> act, sid |-> s]
IdleFrame == Frame("idle", "none", NoSession)
LoopFrame == Frame("loop", "none", NoSession)
EndedFrame == Frame("ended", "none", NoSession)

Mode == {"now", "future", "past"}
Handshake == {"stop_recording", "leave"}   \* actions that wait for the worker

Suspended ==
  {IdleFrame, LoopFrame, EndedFrame}
  \cup [pc : {"insert", "arm"}, act : Mode, sid : Sessions]
  \cup [pc : {"publish", "lookup", "await", "orphan"}, act : Handshake, sid : Sessions]
  \cup [pc : {"reap"}, act : {"leave"}, sid : Sessions]
  \cup [pc : {"expire"}, act : {"retain_audio", "none"}, sid : Sessions]
  \cup [pc : {"reload"}, act : {"retain_audio", "await_audio_disposal"}, sid : Sessions]
  \cup [pc : {"commit"}, act : Action, sid : Sessions]
  \cup [pc : {"spawn"}, act : {"start_join"}, sid : Sessions]
  \cup [pc : {"publish_job"}, act : {"confirm_transcribe"}, sid : Sessions]

At(p, pc) == frame[p].pc = pc
Goto(p, f) == frame' = [frame EXCEPT ![p] = f]
Finish(p) == Goto(p, IdleFrame)
InFlight(s) == \E p \in Procs : frame[p].sid = s

Alive == {"joining", "ready", "stopping", "leaving"}
WorkerState == {"none", "exited"} \cup Alive

Event == {"waiting_room", "recording", "capture_stopped", "left", "failed",
          "meeting_ended", "transcribing", "transcript_ready", "transcription_failed"}

(* The transcriber, with the job it has taken. *)
Job(pc, s) == [pc |-> pc, sid |-> s]
NoJob == Job("idle", NoSession)

Emit(ev, s) == events' = Append(events, [sid |-> s, ev |-> ev])
Quiet == Len(commands) + Len(events) + Len(jobs) < MaxQueued

(* Mutant: delete_audio does not remove the file. *)
UnlinkNothing(s) == UNCHANGED audio

Unlink(s) == audio' = [audio EXCEPT ![s] = IF @ = "present" THEN "deleted" ELSE @]

-----------------------------------------------------------------------------
Init ==
  /\ status = [s \in Sessions |-> "absent"]   \* the row does not exist yet
  /\ deletedAt = [s \in Sessions |-> FALSE]
  /\ expires = [s \in Sessions |-> FALSE]
  /\ audio = [s \in Sessions |-> "none"]
  /\ transcript = [s \in Sessions |-> FALSE]
  /\ frame = [p \in Procs |-> IdleFrame]
  /\ overdue = {} /\ armed = {} /\ offered = {}
  /\ signal = [s \in Sessions |-> {}]
  /\ commands = <<>> /\ events = <<>> /\ jobs = <<>>
  /\ worker = [s \in Sessions |-> "none"]
  /\ watch = [s \in Sessions |-> {}]
  /\ transcriber = NoJob
  /\ faults = 0

RowTypes ==
  /\ status \in [Sessions -> Status \cup {"absent"}]
  /\ deletedAt \in [Sessions -> BOOLEAN]
  /\ expires \in [Sessions -> BOOLEAN]

FileTypes ==
  /\ audio \in [Sessions -> {"none", "present", "deleted"}]
  /\ transcript \in [Sessions -> BOOLEAN]

FrameTypes == frame \in [Procs -> Suspended]

SetTypes ==
  /\ overdue \in SUBSET Sessions
  /\ armed \in SUBSET Sessions
  /\ offered \in SUBSET Sessions
  /\ signal \in [Sessions -> SUBSET Handshake]

StreamTypes ==
  /\ commands \in Seq([sid : Sessions, act : Handshake])
  /\ events \in Seq([sid : Sessions, ev : Event])
  /\ jobs \in Seq(Sessions)

ProcessTypes ==
  /\ worker \in [Sessions -> WorkerState]
  /\ watch \in [Sessions -> SUBSET ProviderEvents]
  /\ transcriber \in {NoJob} \cup [pc : {"taken", "loading", "writing"}, sid : Sessions]
  /\ faults \in Nat

TypeOK ==
  /\ RowTypes /\ FileTypes
  /\ FrameTypes /\ SetTypes
  /\ StreamTypes /\ ProcessTypes
=============================================================================
