---------------------------- MODULE RecorderTypes ----------------------------
(***************************************************************************)
(* Type correctness of Recorder, for every value of its constants.         *)
(*                                                                         *)
(* The types of RecorderState are themselves inductive: Suspended says     *)
(* which frames a coroutine can have, so that a coroutine about to commit  *)
(* a transition is known to hold an action and a session.  There is one    *)
(* lemma per action; each treats the groups of variables the action        *)
(* changes, and leaves the others to UNCHANGED.                            *)
(***************************************************************************)
EXTENDS Recorder, SequenceTheorems, TLAPS

-----------------------------------------------------------------------------
(* The transition table, as facts about its operators. *)
LEMMA Actions ==
  Action = {"schedule", "start_join", "waiting_room", "recording", "stop_recording",
            "decline_leave", "leave", "confirm_transcribe", "decline_transcribe",
            "transcribing", "transcript_ready", "await_audio_disposal",
            "delete_audio", "retain_audio", "cancel", "fail"}
  BY DEF Action, Transitions

(* Where each action of the table leads. *)
LEMMA Targets ==
  /\ To("schedule") = "scheduled"
  /\ To("start_join") = "joining"
  /\ To("waiting_room") = "waiting_room"
  /\ To("recording") = "recording"
  /\ To("stop_recording") = "capture_stopped"
  /\ To("decline_leave") = "in_call"
  /\ To("leave") = "recorded"
  /\ To("confirm_transcribe") = "transcription_queued"
  /\ To("decline_transcribe") = "pending_audio_disposal"
  /\ To("transcribing") = "transcribing"
  /\ To("transcript_ready") = "transcript_ready"
  /\ To("await_audio_disposal") = "pending_audio_disposal"
  /\ To("delete_audio") = "completed"
  /\ To("retain_audio") = "completed"
  /\ To("cancel") = "completed"
  /\ To("fail") = "failed"
  BY DEF To, Transitions

(* Every action leads to a status. *)
LEMMA TargetTypes == \A act \in Action : To(act) \in Status
  BY Actions, Targets DEF Status

-----------------------------------------------------------------------------
(* How a frame is known to be typed, and what its type says of its fields. *)
LEMMA FrameFields ==
  \A pc, act, s : /\ Frame(pc, act, s).pc = pc
                  /\ Frame(pc, act, s).act = act
                  /\ Frame(pc, act, s).sid = s
  BY DEF Frame

(* A coroutine at rest is typed. *)
LEMMA RestingFrames == {IdleFrame, LoopFrame, EndedFrame} \subseteq Suspended
  BY DEF Suspended

(* The frames of create_session are typed. *)
LEMMA CreateFrames ==
  \A s \in Sessions, m \in Mode :
    Frame("insert", m, s) \in Suspended /\ Frame("arm", m, s) \in Suspended
  BY DEF Frame, Suspended

(* The frames of send_stop_capture, send_leave and of their waiters are
   typed. *)
LEMMA HandshakeFrames ==
  \A s \in Sessions, h \in Handshake :
    /\ Frame("publish", h, s) \in Suspended
    /\ Frame("lookup", h, s) \in Suspended
    /\ Frame("await", h, s) \in Suspended
    /\ Frame("orphan", h, s) \in Suspended
    /\ Frame("reap", "leave", s) \in Suspended
  BY DEF Frame, Suspended

(* The frames of a retain_audio about to store its expiry are typed. *)
LEMMA ExpireFrames ==
  \A s \in Sessions, x \in {"retain_audio", "none"} : Frame("expire", x, s) \in Suspended
  BY DEF Frame, Suspended

(* The frames around a transition are typed. *)
LEMMA ActionFrames ==
  \A s \in Sessions :
    /\ \A act \in Action : Frame("commit", act, s) \in Suspended
    /\ Frame("reload", "retain_audio", s) \in Suspended
    /\ Frame("reload", "await_audio_disposal", s) \in Suspended
    /\ Frame("spawn", "start_join", s) \in Suspended
    /\ Frame("publish_job", "confirm_transcribe", s) \in Suspended
  BY DEF Frame, Suspended

(* The worker is only asked for actions of the table. *)
LEMMA HandshakeActions == Handshake \subseteq Action
  BY Actions DEF Handshake

(* A woken coroutine is well typed too. *)
LEMMA WokenFrames == \A s \in Sessions, h \in Handshake : Woken(h, s) \in Suspended
  BY HandshakeFrames, ActionFrames, HandshakeActions DEF Woken

(* What a coroutine is known to hold where it is suspended. *)
LEMMA Holding ==
  ASSUME TypeOK, NEW p \in Procs
  PROVE  /\ frame[p].pc \notin {"idle", "loop", "ended"} => frame[p].sid \in Sessions
         /\ At(p, "insert") \/ At(p, "arm") => frame[p].act \in Mode
         /\ frame[p].pc \in {"publish", "lookup", "await", "orphan"}
              => frame[p].act \in Handshake
         /\ At(p, "reap") => frame[p].act = "leave"
         /\ At(p, "expire") => frame[p].act \in {"retain_audio", "none"}
         /\ At(p, "reload") => frame[p].act \in {"retain_audio", "await_audio_disposal"}
         /\ frame[p].pc \in {"commit", "reload", "spawn", "publish_job"}
              => frame[p].act \in Action
  <1>1. frame[p] \in Suspended
    BY DEF TypeOK, FrameTypes
  <1> QED BY <1>1, Actions DEF At, Suspended, Frame, IdleFrame, LoopFrame, EndedFrame

(* Moving one coroutine to a typed frame keeps all of them typed. *)
LEMMA GotoTypes ==
  ASSUME TypeOK, NEW p \in Procs, NEW f \in Suspended, Goto(p, f)
  PROVE  FrameTypes'
  BY DEF TypeOK, FrameTypes, Goto

(* The gateway's own coroutines, and those named by slots and sessions. *)
LEMMA ProcTypes ==
  /\ Listener \in Procs /\ Followup \in Procs
  /\ Slots \subseteq Procs /\ Sessions \subseteq Procs
  BY DEF Procs

(* The first entry of a stream is typed, and so is the rest of it. *)
LEMMA HeadTypes ==
  ASSUME TypeOK
  PROVE  /\ commands # <<>> => /\ Head(commands) \in [sid : Sessions, act : Handshake]
                               /\ Tail(commands) \in Seq([sid : Sessions, act : Handshake])
         /\ events # <<>> => /\ Head(events) \in [sid : Sessions, ev : Event]
                             /\ Tail(events) \in Seq([sid : Sessions, ev : Event])
         /\ jobs # <<>> => Head(jobs) \in Sessions /\ Tail(jobs) \in Seq(Sessions)
  <1>1. /\ commands \in Seq([sid : Sessions, act : Handshake])
        /\ events \in Seq([sid : Sessions, ev : Event])
        /\ jobs \in Seq(Sessions)
    BY DEF TypeOK, StreamTypes
  <1> QED BY <1>1, HeadTailProperties

(* A worker that takes a command is, and stays, in the call. *)
LEMMA TakesCommand ==
  ASSUME TypeOK, NEW s \in Sessions, TakeCommand(s)
  PROVE  /\ worker[s] = "ready"
         /\ \E w \in {"ready", "stopping", "leaving"} : worker' = [worker EXCEPT ![s] = w]
  <1>1. PICK w : worker' = [worker EXCEPT ![s] = w] /\ worker[s] = "ready"
    BY DEF TakeCommand
  <1>2. worker'[s] \in {"ready", "stopping", "leaving"}
    BY HeadTypes DEF TakeCommand, TypeOK, ProcessTypes, Handshake
  <1>3. worker'[s] = w
    BY <1>1 DEF TypeOK, ProcessTypes
  <1> QED BY <1>1, <1>2, <1>3

(* The transcriber has a session whenever it has a job. *)
LEMMA Working == TypeOK /\ transcriber.pc # "idle" => transcriber.sid \in Sessions
  BY DEF TypeOK, ProcessTypes, NoJob, Job

(* Appending a typed event keeps the stream typed. *)
LEMMA EmitTypes ==
  ASSUME TypeOK, NEW s \in Sessions, NEW ev \in Event, Emit(ev, s)
  PROVE  events' \in Seq([sid : Sessions, ev : Event])
  BY DEF TypeOK, StreamTypes, Emit

(* What each step leaves alone keeps its type. *)
LEMMA UnchangedTypes ==
  ASSUME TypeOK
  PROVE  /\ UNCHANGED rowVars => RowTypes'
         /\ UNCHANGED fileVars => FileTypes'
         /\ UNCHANGED frame => FrameTypes'
         /\ UNCHANGED <<overdue, armed, signal, offered>> => SetTypes'
         /\ UNCHANGED streamVars => StreamTypes'
         /\ UNCHANGED <<workerVars, transcriber, faults>> => ProcessTypes'
  BY DEF TypeOK, RowTypes, FileTypes, FrameTypes, SetTypes, StreamTypes, ProcessTypes,
         rowVars, fileVars, streamVars, workerVars

-----------------------------------------------------------------------------
(* create_session finds no active session. *)
LEMMA CreateCheckTypes ==
  ASSUME TypeOK, NEW p \in Procs, NEW s \in Sessions, NEW mode \in CreateModes, CreateCheck(p, s, mode)
  PROVE  TypeOK'
  <1>1. FrameTypes'
    BY CreateFrames, GotoTypes, SettingsAssumption DEF CreateCheck, Mode
  <1>2. RowTypes' /\ FileTypes' /\ SetTypes' /\ StreamTypes' /\ ProcessTypes'
    BY UnchangedTypes DEF CreateCheck
  <1> QED BY <1>1, <1>2 DEF TypeOK

(* create_session commits the new row. *)
LEMMA CreateInsertTypes ==
  ASSUME TypeOK, NEW p \in Procs, CreateInsert(p)
  PROVE  TypeOK'
  <1>1. frame[p].sid \in Sessions /\ frame[p].act \in Mode
    BY Holding DEF CreateInsert, At
  <1>2. RowTypes'
    BY <1>1 DEF CreateInsert, TypeOK, RowTypes, Status, rowVars
  <1>3. FrameTypes'
    BY <1>1, CreateFrames, ActionFrames, Actions, GotoTypes DEF CreateInsert
  <1>4. FileTypes' /\ SetTypes' /\ StreamTypes' /\ ProcessTypes'
    BY UnchangedTypes DEF CreateInsert
  <1> QED BY <1>2, <1>3, <1>4 DEF TypeOK

(* create_session arms the join job. *)
LEMMA CreateArmTypes ==
  ASSUME TypeOK, NEW p \in Procs, CreateArm(p)
  PROVE  TypeOK'
  <1>1. frame[p].sid \in Sessions
    BY Holding DEF CreateArm, At
  <1>2. FrameTypes'
    BY <1>1, RestingFrames, GotoTypes DEF CreateArm, Finish
  <1>3. SetTypes'
    BY <1>1 DEF CreateArm, TypeOK, SetTypes
  <1>4. RowTypes' /\ FileTypes' /\ StreamTypes' /\ ProcessTypes'
    BY UnchangedTypes DEF CreateArm
  <1> QED BY <1>2, <1>3, <1>4 DEF TypeOK

(* A request is judged by the row it reads. *)
LEMMA RequestTransitionTypes ==
  ASSUME TypeOK, NEW p \in Procs, NEW s \in Sessions, NEW act \in Action, RequestTransition(p, s, act)
  PROVE  TypeOK'
  <1>1. FrameTypes'
    BY ActionFrames, GotoTypes DEF RequestTransition
  <1>2. RowTypes' /\ FileTypes' /\ SetTypes' /\ StreamTypes' /\ ProcessTypes'
    BY UnchangedTypes DEF RequestTransition
  <1> QED BY <1>1, <1>2 DEF TypeOK

(* cancel removes the join job. *)
LEMMA RequestCancelTypes ==
  ASSUME TypeOK, NEW p \in Procs, NEW s \in Sessions, RequestCancel(p, s)
  PROVE  TypeOK'
  <1>1. FrameTypes'
    BY ActionFrames, Actions, GotoTypes DEF RequestCancel
  <1>2. SetTypes'
    BY DEF RequestCancel, TypeOK, SetTypes
  <1>3. RowTypes' /\ FileTypes' /\ StreamTypes' /\ ProcessTypes'
    BY UnchangedTypes DEF RequestCancel
  <1> QED BY <1>1, <1>2, <1>3 DEF TypeOK

(* A request installs a fresh Event. *)
LEMMA RequestSendTypes ==
  ASSUME TypeOK, NEW p \in Procs, NEW s \in Sessions, NEW act \in Action, RequestSend(p, s, act)
  PROVE  TypeOK'
  <1>1. FrameTypes'
    BY HandshakeFrames DEF RequestSend, Waiting, TypeOK, FrameTypes
  <1>2. SetTypes'
    BY DEF RequestSend, TypeOK, SetTypes
  <1>3. RowTypes' /\ FileTypes' /\ StreamTypes' /\ ProcessTypes'
    BY UnchangedTypes DEF RequestSend
  <1> QED BY <1>1, <1>2, <1>3 DEF TypeOK

(* The command is added to the stream. *)
LEMMA PublishTypes ==
  ASSUME TypeOK, NEW p \in Procs, Publish(p)
  PROVE  TypeOK'
  <1>1. frame[p].sid \in Sessions /\ frame[p].act \in Handshake
    BY Holding DEF Publish, At
  <1>2. FrameTypes'
    BY <1>1, HandshakeFrames, GotoTypes DEF Publish
  <1>3. StreamTypes'
    BY <1>1 DEF Publish, TypeOK, StreamTypes
  <1>4. RowTypes' /\ FileTypes' /\ SetTypes' /\ ProcessTypes'
    BY UnchangedTypes DEF Publish
  <1> QED BY <1>2, <1>3, <1>4 DEF TypeOK

(* The current Event is looked up. *)
LEMMA LookupTypes ==
  ASSUME TypeOK, NEW p \in Procs, Lookup(p)
  PROVE  TypeOK'
  <1>1. frame[p].sid \in Sessions /\ frame[p].act \in Handshake
    BY Holding DEF Lookup, At
  <1>2. FrameTypes'
    BY <1>1, HandshakeFrames, WokenFrames, GotoTypes DEF Lookup
  <1>3. RowTypes' /\ FileTypes' /\ SetTypes' /\ StreamTypes' /\ ProcessTypes'
    BY UnchangedTypes DEF Lookup
  <1> QED BY <1>2, <1>3 DEF TypeOK

(* A waiter gives up. *)
LEMMA TimeoutTypes ==
  ASSUME TypeOK, NEW p \in Procs, Timeout(p)
  PROVE  TypeOK'
  <1>1. FrameTypes'
    BY RestingFrames, GotoTypes DEF Timeout, Finish
  <1>2. RowTypes' /\ FileTypes' /\ SetTypes' /\ StreamTypes' /\ ProcessTypes'
    BY UnchangedTypes DEF Timeout
  <1> QED BY <1>1, <1>2 DEF TypeOK

(* leave stops the process. *)
LEMMA ReapTypes ==
  ASSUME TypeOK, NEW p \in Procs, Reap(p)
  PROVE  TypeOK'
  <1>1. frame[p].sid \in Sessions
    BY Holding DEF Reap, At
  <1>2. FrameTypes'
    BY <1>1, ActionFrames, Actions, GotoTypes DEF Reap
  <1>3. ProcessTypes'
    BY <1>1 DEF Reap, TypeOK, ProcessTypes, WorkerState, workerVars
  <1>4. RowTypes' /\ FileTypes' /\ SetTypes' /\ StreamTypes'
    BY UnchangedTypes DEF Reap
  <1> QED BY <1>2, <1>3, <1>4 DEF TypeOK

(* delete_recording unlinks the file. *)
LEMMA RequestDeleteTypes ==
  ASSUME TypeOK, NEW p \in Procs, NEW s \in Sessions, RequestDelete(p, s)
  PROVE  TypeOK'
  <1>1. FileTypes'
    BY DEF RequestDelete, TypeOK, FileTypes, Unlink
  <1>2. FrameTypes'
    BY ActionFrames, Actions DEF RequestDelete, TypeOK, FrameTypes
  <1>3. RowTypes' /\ SetTypes' /\ StreamTypes' /\ ProcessTypes'
    BY UnchangedTypes DEF RequestDelete
  <1> QED BY <1>1, <1>2, <1>3 DEF TypeOK

(* retain_audio reads the row. *)
LEMMA RequestRetainTypes ==
  ASSUME TypeOK, NEW p \in Procs, NEW s \in Sessions, RequestRetain(p, s)
  PROVE  TypeOK'
  <1>1. FrameTypes'
    BY ExpireFrames, GotoTypes DEF RequestRetain
  <1>2. RowTypes' /\ FileTypes' /\ SetTypes' /\ StreamTypes' /\ ProcessTypes'
    BY UnchangedTypes DEF RequestRetain
  <1> QED BY <1>1, <1>2 DEF TypeOK

(* The expiry is committed. *)
LEMMA ExpireCommitTypes ==
  ASSUME TypeOK, NEW p \in Procs, ExpireCommit(p)
  PROVE  TypeOK'
  <1>1. frame[p].sid \in Sessions /\ frame[p].act \in {"retain_audio", "none"}
    BY Holding DEF ExpireCommit, At
  <1>2. RowTypes'
    BY <1>1 DEF ExpireCommit, TypeOK, RowTypes
  <1>3. FrameTypes'
    BY <1>1, ExpireFrames, ActionFrames, RestingFrames, Actions, GotoTypes DEF ExpireCommit
  <1>4. FileTypes' /\ SetTypes' /\ StreamTypes' /\ ProcessTypes'
    BY UnchangedTypes DEF ExpireCommit
  <1> QED BY <1>2, <1>3, <1>4 DEF TypeOK

(* A transition is committed over whatever the row says. *)
LEMMA CommitTransitionTypes ==
  ASSUME TypeOK, NEW p \in Procs, CommitTransition(p)
  PROVE  TypeOK'
  <1>1. frame[p].sid \in Sessions /\ frame[p].act \in Action
    BY Holding DEF CommitTransition, At
  <1>2. RowTypes'
    BY <1>1, TargetTypes DEF CommitTransition, TypeOK, RowTypes
  <1>3. FrameTypes'
    BY <1>1, ActionFrames, RestingFrames, Actions, GotoTypes DEF CommitTransition, Continue, Rest
  <1>4. SetTypes'
    BY <1>1 DEF CommitTransition, TypeOK, SetTypes
  <1>5. FileTypes' /\ StreamTypes' /\ ProcessTypes'
    BY UnchangedTypes DEF CommitTransition
  <1> QED BY <1>2, <1>3, <1>4, <1>5 DEF TypeOK

(* A transcription job is published, or is not. *)
LEMMA PublishJobTypes ==
  ASSUME TypeOK, NEW p \in Procs, PublishJob(p)
  PROVE  TypeOK'
  <1>1. frame[p].sid \in Sessions
    BY Holding DEF PublishJob, At
  <1>2. FrameTypes'
    BY <1>1, RestingFrames, GotoTypes DEF PublishJob, Finish
  <1>3. StreamTypes'
    BY <1>1 DEF PublishJob, TypeOK, StreamTypes
  <1>4. RowTypes' /\ FileTypes' /\ SetTypes' /\ ProcessTypes'
    BY UnchangedTypes DEF PublishJob
  <1> QED BY <1>2, <1>3, <1>4 DEF TypeOK

(* A worker process is started, with fresh Events. *)
LEMMA SpawnTypes ==
  ASSUME TypeOK, NEW p \in Procs, Spawn(p)
  PROVE  TypeOK'
  <1>1. frame[p].sid \in Sessions
    BY Holding DEF Spawn, At
  <1>2. ASSUME NEW q \in Procs, At(q, "await")
        PROVE  [frame[q] EXCEPT !.pc = "orphan"] \in Suspended
    <2>1. frame[q] \in [pc : {"await"}, act : Handshake, sid : Sessions]
      BY <1>2 DEF TypeOK, FrameTypes, Suspended, At, Frame, IdleFrame, LoopFrame, EndedFrame
    <2> QED BY <2>1 DEF Suspended
  <1>3. FrameTypes'
    BY <1>2, RestingFrames DEF Spawn, TypeOK, FrameTypes
  <1>4. SetTypes'
    BY <1>1 DEF Spawn, TypeOK, SetTypes
  <1>5. ProcessTypes'
    BY <1>1 DEF Spawn, TypeOK, ProcessTypes, WorkerState, Alive
  <1>6. RowTypes' /\ FileTypes' /\ StreamTypes'
    BY UnchangedTypes DEF Spawn
  <1> QED BY <1>3, <1>4, <1>5, <1>6 DEF TypeOK

(* A row is refreshed before a second transition. *)
LEMMA ReloadTypes ==
  ASSUME TypeOK, NEW p \in Procs, Reload(p)
  PROVE  TypeOK'
  <1>1. frame[p].sid \in Sessions /\ frame[p].act \in Action
    BY Holding DEF Reload, At
  <1>2. FrameTypes'
    BY <1>1, ActionFrames, RestingFrames, GotoTypes DEF Reload
  <1>3. SetTypes'
    BY <1>1 DEF Reload, TypeOK, SetTypes
  <1>4. RowTypes' /\ FileTypes' /\ StreamTypes' /\ ProcessTypes'
    BY UnchangedTypes DEF Reload
  <1> QED BY <1>2, <1>3, <1>4 DEF TypeOK

(* The listener sets an Event and wakes its waiters. *)
LEMMA ListenerSignalTypes ==
  ASSUME TypeOK, ListenerSignal
  PROVE  TypeOK'
  <1>1. Head(events).sid \in Sessions /\ "leave" \in Handshake /\ "stop_recording" \in Handshake
    BY HeadTypes DEF ListenerSignal, Handshake
  <1>2. FrameTypes'
    BY <1>1, WokenFrames, FrameFields DEF ListenerSignal, Waiting, TypeOK, FrameTypes
  <1>3. SetTypes'
    BY <1>1 DEF ListenerSignal, TypeOK, SetTypes
  <1>4. StreamTypes'
    BY <1>1, HeadTypes DEF ListenerSignal, TypeOK, StreamTypes, Consume
  <1>5. RowTypes' /\ FileTypes' /\ ProcessTypes'
    BY UnchangedTypes DEF ListenerSignal
  <1> QED BY <1>2, <1>3, <1>4, <1>5 DEF TypeOK

(* The listener takes up a transition. *)
LEMMA ListenerReactTypes ==
  ASSUME TypeOK, ListenerReact
  PROVE  TypeOK'
  <1>1. Head(events).sid \in Sessions
    BY HeadTypes DEF ListenerReact
  <1>2. FrameTypes'
    BY <1>1, ActionFrames, ProcTypes, GotoTypes DEF ListenerReact, Reaction, Wanted
  <1>3. StreamTypes'
    BY <1>1, HeadTypes DEF ListenerReact, TypeOK, StreamTypes, Consume
  <1>4. RowTypes' /\ FileTypes' /\ SetTypes' /\ ProcessTypes'
    BY UnchangedTypes DEF ListenerReact
  <1> QED BY <1>2, <1>3, <1>4 DEF TypeOK

(* The listener drops an event. *)
LEMMA ListenerIgnoreTypes ==
  ASSUME TypeOK, ListenerIgnore
  PROVE  TypeOK'
  <1>1. Head(events).sid \in Sessions
    BY HeadTypes DEF ListenerIgnore
  <1>2. SetTypes'
    BY <1>1 DEF ListenerIgnore, TypeOK, SetTypes
  <1>3. StreamTypes'
    BY <1>1, HeadTypes DEF ListenerIgnore, TypeOK, StreamTypes, Consume
  <1>4. RowTypes' /\ FileTypes' /\ FrameTypes' /\ ProcessTypes'
    BY UnchangedTypes DEF ListenerIgnore
  <1> QED BY <1>2, <1>3, <1>4 DEF TypeOK

(* A handler of the listener raises. *)
LEMMA ListenerFailTypes ==
  ASSUME TypeOK, ListenerFail
  PROVE  TypeOK'
  <1>1. FrameTypes'
    BY RestingFrames, ProcTypes, GotoTypes, UnchangedTypes DEF ListenerFail, Finish, TypeOK
  <1>2. StreamTypes'
    BY HeadTypes, UnchangedTypes DEF ListenerFail, TypeOK, StreamTypes, Consume
  <1>3. ProcessTypes'
    BY DEF ListenerFail, TypeOK, ProcessTypes, workerVars
  <1>4. RowTypes' /\ FileTypes' /\ SetTypes'
    BY UnchangedTypes DEF ListenerFail
  <1> QED BY <1>1, <1>2, <1>3, <1>4 DEF TypeOK

(* A join job fires. *)
LEMMA FireJoinTypes ==
  ASSUME TypeOK, NEW s \in Sessions, FireJoin(s)
  PROVE  TypeOK'
  <1>1. FrameTypes'
    BY ActionFrames, Actions, ProcTypes DEF FireJoin, TypeOK, FrameTypes
  <1>2. SetTypes'
    BY DEF FireJoin, TypeOK, SetTypes
  <1>3. RowTypes' /\ FileTypes' /\ StreamTypes' /\ ProcessTypes'
    BY UnchangedTypes DEF FireJoin
  <1> QED BY <1>1, <1>2, <1>3 DEF TypeOK

(* The followup job selects its rows. *)
LEMMA FollowupSelectTypes ==
  ASSUME TypeOK, FollowupSelect
  PROVE  TypeOK'
  <1>1. FrameTypes'
    BY RestingFrames, ProcTypes, GotoTypes DEF FollowupSelect
  <1>2. SetTypes'
    BY DEF FollowupSelect, TypeOK, SetTypes
  <1>3. RowTypes' /\ FileTypes' /\ StreamTypes' /\ ProcessTypes'
    BY UnchangedTypes DEF FollowupSelect
  <1> QED BY <1>1, <1>2, <1>3 DEF TypeOK

(* The followup job resolves one of them. *)
LEMMA FollowupResolveTypes ==
  ASSUME TypeOK, NEW s \in Sessions, FollowupResolve(s)
  PROVE  TypeOK'
  <1>1. FileTypes'
    BY DEF FollowupResolve, TypeOK, FileTypes, Unlink, fileVars
  <1>2. FrameTypes'
    BY ActionFrames, ExpireFrames, Actions, ProcTypes, GotoTypes DEF FollowupResolve
  <1>3. SetTypes'
    BY DEF FollowupResolve, TypeOK, SetTypes
  <1>4. RowTypes' /\ StreamTypes' /\ ProcessTypes'
    BY UnchangedTypes DEF FollowupResolve
  <1> QED BY <1>1, <1>2, <1>3, <1>4 DEF TypeOK

(* The sweeper removes expired files. *)
LEMMA SweepTypes ==
  ASSUME TypeOK, Sweep
  PROVE  TypeOK'
  <1>1. RowTypes'
    BY DEF Sweep, TypeOK, RowTypes
  <1>2. FileTypes'
    BY DEF Sweep, TypeOK, FileTypes
  <1>3. ProcessTypes'
    BY DEF Sweep, TypeOK, ProcessTypes, workerVars
  <1>4. FrameTypes' /\ SetTypes' /\ StreamTypes'
    BY UnchangedTypes DEF Sweep, gatewayVars
  <1> QED BY <1>1, <1>2, <1>3, <1>4 DEF TypeOK

(* The gateway restarts, and loses a prefix of the events. *)
LEMMA GatewayRestartTypes ==
  ASSUME TypeOK, GatewayRestart
  PROVE  TypeOK'
  <1>1. FileTypes'
    BY DEF GatewayRestart, TypeOK, FileTypes
  <1>2. FrameTypes'
    BY RestingFrames DEF GatewayRestart, FrameTypes
  <1>3. SetTypes'
    BY DEF GatewayRestart, Restored, TypeOK, SetTypes
  <1>4. StreamTypes'
    <2> DEFINE Entries == [sid : Sessions, ev : Event]
    <2>1. events \in Seq(Entries)
      BY DEF TypeOK, StreamTypes
    <2>2. PICK n \in 0..10 : events' = SubSeq(events, n + 1, Len(events))
      BY DEF GatewayRestart
    <2>3. \A i \in (n + 1)..Len(events) : events[i] \in Entries
      <3> HIDE DEF Entries
      <3> QED BY <2>1, ElementOfSeq, LenProperties
    <2>4. events' \in Seq(Entries)
      BY <2>1, <2>2, <2>3, SubSeqProperties
    <2> QED BY <2>4 DEF GatewayRestart, TypeOK, StreamTypes
  <1>5. ProcessTypes'
    BY DEF GatewayRestart, TypeOK, ProcessTypes, WorkerState, Alive
  <1>6. RowTypes'
    BY UnchangedTypes DEF GatewayRestart
  <1> QED BY <1>1, <1>2, <1>3, <1>4, <1>5, <1>6 DEF TypeOK

(* The worker is in the call. *)
LEMMA JoinTypes ==
  ASSUME TypeOK, NEW s \in Sessions, Join(s)
  PROVE  TypeOK'
  <1>1. StreamTypes'
    BY EmitTypes DEF Join, TypeOK, StreamTypes, Event
  <1>2. ProcessTypes'
    BY DEF Join, TypeOK, ProcessTypes, Become, WorkerState, Alive
  <1>3. RowTypes' /\ FileTypes' /\ FrameTypes' /\ SetTypes'
    BY UnchangedTypes DEF Join, gatewayVars
  <1> QED BY <1>1, <1>2, <1>3 DEF TypeOK

(* The worker fails to join and exits. *)
LEMMA JoinFailTypes ==
  ASSUME TypeOK, NEW s \in Sessions, JoinFail(s)
  PROVE  TypeOK'
  <1>1. StreamTypes'
    BY EmitTypes DEF JoinFail, TypeOK, StreamTypes, Event
  <1>2. ProcessTypes'
    BY DEF JoinFail, TypeOK, ProcessTypes, Become, WorkerState, Alive
  <1>3. RowTypes' /\ FileTypes' /\ FrameTypes' /\ SetTypes'
    BY UnchangedTypes DEF JoinFail, gatewayVars
  <1> QED BY <1>1, <1>2, <1>3 DEF TypeOK

(* The provider reports something. *)
LEMMA WatchTypes ==
  ASSUME TypeOK, NEW s \in Sessions, NEW ev \in ProviderEvents, Watch(s, ev)
  PROVE  TypeOK'
  <1>1. StreamTypes'
    BY EmitTypes, SettingsAssumption DEF Watch, TypeOK, StreamTypes, Event
  <1>2. ProcessTypes'
    BY DEF Watch, Unreported, TypeOK, ProcessTypes
  <1>3. RowTypes' /\ FileTypes' /\ FrameTypes' /\ SetTypes'
    BY UnchangedTypes DEF Watch, gatewayVars
  <1> QED BY <1>1, <1>2, <1>3 DEF TypeOK

(* A worker takes the next command. *)
LEMMA TakeCommandTypes ==
  ASSUME TypeOK, NEW s \in Sessions, TakeCommand(s)
  PROVE  TypeOK'
  <1>1. StreamTypes'
    BY HeadTypes DEF TakeCommand, TypeOK, StreamTypes
  <1>2. ProcessTypes'
    BY HeadTypes DEF TakeCommand, TypeOK, ProcessTypes, WorkerState, Alive, Handshake
  <1>3. RowTypes' /\ FileTypes' /\ FrameTypes' /\ SetTypes'
    BY UnchangedTypes DEF TakeCommand, gatewayVars
  <1> QED BY <1>1, <1>2, <1>3 DEF TypeOK

(* The worker writes the wav file and answers. *)
LEMMA StopCaptureTypes ==
  ASSUME TypeOK, NEW s \in Sessions, StopCapture(s)
  PROVE  TypeOK'
  <1>1. FileTypes'
    BY DEF StopCapture, Finalize, TypeOK, FileTypes
  <1>2. StreamTypes'
    BY EmitTypes DEF StopCapture, TypeOK, StreamTypes, Event
  <1>3. ProcessTypes'
    BY DEF StopCapture, TypeOK, ProcessTypes, Become, WorkerState, Alive
  <1>4. RowTypes' /\ FrameTypes' /\ SetTypes'
    BY UnchangedTypes DEF StopCapture, gatewayVars
  <1> QED BY <1>1, <1>2, <1>3, <1>4 DEF TypeOK

(* The worker leaves and exits. *)
LEMMA LeaveTypes ==
  ASSUME TypeOK, NEW s \in Sessions, Leave(s)
  PROVE  TypeOK'
  <1>1. StreamTypes'
    BY EmitTypes DEF Leave, TypeOK, StreamTypes, Event
  <1>2. ProcessTypes'
    BY DEF Leave, TypeOK, ProcessTypes, Become, WorkerState, Alive
  <1>3. RowTypes' /\ FileTypes' /\ FrameTypes' /\ SetTypes'
    BY UnchangedTypes DEF Leave, gatewayVars
  <1> QED BY <1>1, <1>2, <1>3 DEF TypeOK

(* A worker dies. *)
LEMMA WorkerCrashTypes ==
  ASSUME TypeOK, NEW s \in Sessions, WorkerCrash(s)
  PROVE  TypeOK'
  <1>1. FileTypes'
    BY DEF WorkerCrash, TypeOK, FileTypes, Written
  <1>2. ProcessTypes'
    BY DEF WorkerCrash, TypeOK, ProcessTypes, Become, WorkerState, Alive
  <1>3. RowTypes' /\ FrameTypes' /\ SetTypes' /\ StreamTypes'
    BY UnchangedTypes DEF WorkerCrash, gatewayVars
  <1> QED BY <1>1, <1>2, <1>3 DEF TypeOK

(* The transcriber takes a job. *)
LEMMA TakeJobTypes ==
  ASSUME TypeOK, TakeJob
  PROVE  TypeOK'
  <1>1. StreamTypes'
    BY HeadTypes DEF TakeJob, TypeOK, StreamTypes
  <1>2. ProcessTypes'
    BY HeadTypes DEF TakeJob, TypeOK, ProcessTypes, Job, workerVars
  <1>3. RowTypes' /\ FileTypes' /\ FrameTypes' /\ SetTypes'
    BY UnchangedTypes DEF TakeJob, gatewayVars
  <1> QED BY <1>1, <1>2, <1>3 DEF TypeOK

(* The transcriber starts, or answers from the file. *)
LEMMA StartJobTypes ==
  ASSUME TypeOK, StartJob
  PROVE  TypeOK'
  <1>1. transcriber.sid \in Sessions
    BY Working DEF StartJob
  <1>2. StreamTypes'
    BY <1>1, EmitTypes DEF StartJob, TypeOK, StreamTypes, Event
  <1>3. ProcessTypes'
    BY <1>1 DEF StartJob, TypeOK, ProcessTypes, Job, workerVars
  <1>4. RowTypes' /\ FileTypes' /\ FrameTypes' /\ SetTypes'
    BY UnchangedTypes DEF StartJob, gatewayVars
  <1> QED BY <1>2, <1>3, <1>4 DEF TypeOK

(* The transcriber finds the audio. *)
LEMMA LoadAudioTypes ==
  ASSUME TypeOK, LoadAudio
  PROVE  TypeOK'
  <1>1. transcriber.sid \in Sessions
    BY Working DEF LoadAudio
  <1>2. ProcessTypes'
    BY <1>1 DEF LoadAudio, TypeOK, ProcessTypes, Job, workerVars
  <1>3. RowTypes' /\ FileTypes' /\ FrameTypes' /\ SetTypes' /\ StreamTypes'
    BY UnchangedTypes DEF LoadAudio, gatewayVars
  <1> QED BY <1>2, <1>3 DEF TypeOK

(* The transcriber writes transcript.txt. *)
LEMMA WriteTranscriptTypes ==
  ASSUME TypeOK, WriteTranscript
  PROVE  TypeOK'
  <1>1. transcriber.sid \in Sessions
    BY Working DEF WriteTranscript
  <1>2. FileTypes'
    BY <1>1 DEF WriteTranscript, TypeOK, FileTypes
  <1>3. StreamTypes'
    BY <1>1, EmitTypes DEF WriteTranscript, TypeOK, StreamTypes, Event
  <1>4. ProcessTypes'
    BY <1>1 DEF WriteTranscript, TypeOK, ProcessTypes, workerVars
  <1>5. RowTypes' /\ FrameTypes' /\ SetTypes'
    BY UnchangedTypes DEF WriteTranscript, gatewayVars
  <1> QED BY <1>2, <1>3, <1>4, <1>5 DEF TypeOK

(* The transcription fails. *)
LEMMA TranscriptionFailTypes ==
  ASSUME TypeOK, TranscriptionFail
  PROVE  TypeOK'
  <1>1. transcriber.sid \in Sessions
    BY Working DEF TranscriptionFail
  <1>2. StreamTypes'
    BY <1>1, EmitTypes DEF TranscriptionFail, TypeOK, StreamTypes, Event
  <1>3. ProcessTypes'
    BY <1>1 DEF TranscriptionFail, TypeOK, ProcessTypes, workerVars
  <1>4. RowTypes' /\ FileTypes' /\ FrameTypes' /\ SetTypes'
    BY UnchangedTypes DEF TranscriptionFail, gatewayVars
  <1> QED BY <1>2, <1>3, <1>4 DEF TypeOK

(* The transcriber dies with its job. *)
LEMMA TranscriberCrashTypes ==
  ASSUME TypeOK, TranscriberCrash
  PROVE  TypeOK'
  <1>1. transcriber.sid \in Sessions
    BY Working DEF TranscriberCrash
  <1>2. FileTypes'
    BY <1>1 DEF TranscriberCrash, TypeOK, FileTypes
  <1>3. ProcessTypes'
    BY <1>1 DEF TranscriberCrash, TypeOK, ProcessTypes, workerVars
  <1>4. RowTypes' /\ FrameTypes' /\ SetTypes' /\ StreamTypes'
    BY UnchangedTypes DEF TranscriberCrash, gatewayVars
  <1> QED BY <1>2, <1>3, <1>4 DEF TypeOK

-----------------------------------------------------------------------------
(* An empty database, empty streams and no processes are typed. *)
LEMMA InitTypes == Init => TypeOK
  BY RestingFrames DEF Init, TypeOK, RowTypes, FileTypes, FrameTypes, SetTypes,
     StreamTypes, ProcessTypes, WorkerState

(* Every request keeps the types. *)
LEMMA RequestTypes ==
  ASSUME TypeOK, NEW p \in Procs, NEW s \in Sessions, Request(p, s)
  PROVE  TypeOK'
  BY CreateCheckTypes, RequestTransitionTypes, RequestSendTypes, RequestCancelTypes,
     RequestDeleteTypes, RequestRetainTypes DEF Request

(* Every resumed coroutine keeps the types. *)
LEMMA ResumeTypes ==
  ASSUME TypeOK, NEW p \in Procs, Resume(p)
  PROVE  TypeOK'
  BY CreateInsertTypes, CreateArmTypes, PublishTypes, LookupTypes, TimeoutTypes, ReapTypes,
     ExpireCommitTypes, ReloadTypes, CommitTransitionTypes, PublishJobTypes, SpawnTypes
  DEF Resume

(* Every step of a worker keeps the types. *)
LEMMA WorkerStepTypes ==
  ASSUME TypeOK, NEW s \in Sessions, WorkerStep(s)
  PROVE  TypeOK'
  BY JoinTypes, JoinFailTypes, TakeCommandTypes, StopCaptureTypes, LeaveTypes DEF WorkerStep

(* Every step of the transcriber keeps the types. *)
LEMMA TranscriberStepTypes ==
  ASSUME TypeOK, TranscriberStep
  PROVE  TypeOK'
  BY TakeJobTypes, StartJobTypes, LoadAudioTypes, WriteTranscriptTypes, TranscriptionFailTypes
  DEF TranscriberStep

(* Every step of the system keeps the types: TypeOK is inductive. *)
LEMMA StepTypes ==
  ASSUME TypeOK, [Next]_vars
  PROVE  TypeOK'
  <1>1. ASSUME NEW p \in Slots, NEW s \in Sessions, Request(p, s)
        PROVE  TypeOK'
    BY <1>1, RequestTypes, ProcTypes
  <1>2. ASSUME NEW p \in Procs, Resume(p)
        PROVE  TypeOK'
    BY <1>2, ResumeTypes
  <1>3. CASE ListenerStep
    BY <1>3, ListenerReactTypes, ListenerSignalTypes, ListenerIgnoreTypes DEF ListenerStep
  <1>4. ASSUME NEW s \in Sessions, FireJoin(s)
        PROVE  TypeOK'
    BY <1>4, FireJoinTypes
  <1>5. CASE FollowupStep
    BY <1>5, FollowupSelectTypes, FollowupResolveTypes DEF FollowupStep
  <1>6. CASE Sweep
    BY <1>6, SweepTypes
  <1>7. ASSUME NEW s \in Sessions, WorkerStep(s)
        PROVE  TypeOK'
    BY <1>7, WorkerStepTypes
  <1>8. ASSUME NEW s \in Sessions, NEW ev \in ProviderEvents, Watch(s, ev)
        PROVE  TypeOK'
    BY <1>8, WatchTypes
  <1>9. CASE TranscriberStep
    BY <1>9, TranscriberStepTypes
  <1>10. CASE Fault
    BY <1>10, GatewayRestartTypes, ListenerFailTypes, WorkerCrashTypes, TranscriberCrashTypes DEF Fault
  <1>11. CASE UNCHANGED vars
    BY <1>11, UnchangedTypes DEF vars, gatewayVars, TypeOK
  <1> QED BY <1>1, <1>2, <1>3, <1>4, <1>5, <1>6, <1>7, <1>8, <1>9, <1>10, <1>11 DEF Next

(* Every reachable state is typed: in particular a coroutine that is about to
   commit a status always holds a transition of session_fsm.py and a session,
   and a worker waits for, or answers, commands of existing sessions only. *)
THEOREM TypeCorrect == Spec => []TypeOK
  BY InitTypes, StepTypes, PTL DEF Spec
=============================================================================
