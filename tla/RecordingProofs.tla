-------------------------- MODULE RecordingProofs --------------------------
(***************************************************************************)
(* What the worker leaves behind, for every value of the constants: any    *)
(* number of sessions and of concurrent requests, any events of the        *)
(* provider, any number of crashes.                                        *)
(*                                                                         *)
(* First the file: a session past its capture has one.  The invariant is   *)
(* AudioInv of Recorder.  No step takes a file's history back to "none"    *)
(* (AudioLasts), so a conjunct about something a step leaves alone         *)
(* survives it (Kept); what remains is one lemma per action for the        *)
(* statuses, frames, Events and stream entries it writes.                  *)
(*                                                                         *)
(* Then the visit: Recorder implements Recording, so the bot enters the    *)
(* call of a session once at most.  Nothing in the code remembers that a   *)
(* session has been joined, so the argument follows who may still start    *)
(* it: the coroutine that is creating it, its join job, or the coroutine   *)
(* that is joining it.  Those are never two, and once a worker has been    *)
(* spawned there are none.                                                 *)
(***************************************************************************)
EXTENDS Promises, RecorderTypes

AudioLasts == \A s \in Sessions : audio[s] # "none" => audio'[s] # "none"

(* From where the actions that lead past the capture apply. *)
LEMMA Sources ==
  ASSUME NEW st
  PROVE  /\ Applies(st, "decline_leave") => st = "capture_stopped"
         /\ Applies(st, "leave") => st \in {"capture_stopped", "in_call"}
         /\ Applies(st, "confirm_transcribe") => st = "recorded"
         /\ Applies(st, "decline_transcribe") => st = "recorded"
         /\ Applies(st, "transcribing") => st = "transcription_queued"
         /\ Applies(st, "transcript_ready") => st = "transcribing"
         /\ Applies(st, "await_audio_disposal") => st = "transcript_ready"
  BY DEF Applies, Transitions

(* A late action applies only to a session that is past its capture already. *)
LEMMA LateSources ==
  ASSUME NEW st, NEW act \in Late, Applies(st, act)
  PROVE  st \in PostCapture
  BY Sources DEF Late, PostCapture

(* Only a late action, or stop_recording, leads past the capture. *)
LEMMA PostCaptureTargets ==
  ASSUME NEW act \in Action, To(act) \in PostCapture
  PROVE  act \in Late \cup {"stop_recording"}
  BY Actions, Targets DEF Late, PostCapture

(* Whoever holds a late action, or commits stop_recording, holds a session. *)
LEMMA LateHolds ==
  ASSUME TypeOK, NEW p \in Procs,
         frame[p].act \in Late \/ (frame[p].act = "stop_recording" /\ frame[p].pc = "commit")
  PROVE  frame[p].sid \in Sessions
  <1>1. frame[p] \in Suspended
    BY DEF TypeOK, FrameTypes
  <1> QED BY <1>1 DEF Suspended, Frame, IdleFrame, LoopFrame, EndedFrame, Late, Mode

(* Every entry of session.events names a session. *)
LEMMA EntryHolds ==
  ASSUME TypeOK, NEW i \in DOMAIN events
  PROVE  events[i].sid \in Sessions
  <1>1. events \in Seq([sid : Sessions, ev : Event])
    BY DEF TypeOK, StreamTypes
  <1>2. i \in 1..Len(events)
    BY <1>1, LenProperties
  <1>3. events[i] \in [sid : Sessions, ev : Event]
    BY <1>1, <1>2, ElementOfSeq
  <1> QED BY <1>3

(* A conjunct of AudioInv survives a step that does not touch its subject. *)
LEMMA Kept ==
  ASSUME TypeOK, AudioInv, AudioLasts
  PROVE  /\ UNCHANGED status => AudioBacked'
         /\ UNCHANGED frame => FramesBacked'
         /\ UNCHANGED signal => SignalsBacked'
         /\ UNCHANGED events => AnswersBacked'
  <1>1. AudioBacked /\ FramesBacked /\ SignalsBacked /\ AnswersBacked
    BY DEF AudioInv
  <1>2. UNCHANGED status => AudioBacked'
    BY <1>1 DEF AudioLasts, AudioBacked
  <1>3. UNCHANGED frame => FramesBacked'
    BY <1>1, LateHolds DEF AudioLasts, FramesBacked, Backed
  <1>4. UNCHANGED signal => SignalsBacked'
    BY <1>1 DEF AudioLasts, SignalsBacked
  <1>5. UNCHANGED events => AnswersBacked'
    <2> SUFFICES ASSUME UNCHANGED events, NEW i \in DOMAIN events,
                        events[i].ev = "capture_stopped"
                 PROVE  audio'[events[i].sid] # "none"
      BY DEF AnswersBacked
    <2>1. events[i].sid \in Sessions
      BY EntryHolds
    <2> QED BY <1>1, <2>1 DEF AudioLasts, AnswersBacked
  <1> QED BY <1>2, <1>3, <1>4, <1>5
(* A coroutine that goes to a backed frame. *)
LEMMA GotoBacked ==
  ASSUME TypeOK, AudioInv, AudioLasts, NEW p \in Procs, NEW f, Goto(p, f), Backed(f)'
  PROVE  FramesBacked'
  <1>1. \A q \in Procs : Backed(frame[q])'
    <2> TAKE q \in Procs
    <2>1. CASE q = p
      BY <2>1 DEF Goto, TypeOK, FrameTypes, Backed
    <2>2. CASE q # p
      BY <2>2, LateHolds DEF Goto, TypeOK, FrameTypes, Backed, AudioInv, FramesBacked, AudioLasts
    <2> QED BY <2>1, <2>2
  <1> QED BY <1>1 DEF FramesBacked

(* Frames at which nobody has claimed anything about the audio yet. *)
LEMMA NeutralFrames ==
  /\ Backed(IdleFrame)' /\ Backed(LoopFrame)' /\ Backed(EndedFrame)'
  /\ \A s \in Sessions, x \in Mode \cup {"retain_audio", "none", "start_join", "delete_audio",
                                        "cancel", "fail", "waiting_room", "recording"} :
       \A pc : Backed(Frame(pc, x, s))'
  BY DEF Backed, IdleFrame, LoopFrame, EndedFrame, Frame, Mode, Late

(* A file that is left alone lasts. *)
LEMMA AudioUntouched == UNCHANGED audio => AudioLasts
  BY DEF AudioLasts

(* Unlinking a file does not make its capture unwritten. *)
LEMMA UnlinkLasts ==
  ASSUME TypeOK, NEW s \in Sessions, Unlink(s)
  PROVE  AudioLasts
  BY DEF Unlink, AudioLasts, TypeOK, FileTypes

(* Emitting anything but the worker's answer to a stop. *)
LEMMA EmitBacked ==
  ASSUME TypeOK, AudioInv, AudioLasts, NEW s \in Sessions, NEW ev \in Event, Emit(ev, s),
         ev = "capture_stopped" => audio'[s] # "none"
  PROVE  AnswersBacked'
  <1>1. events \in Seq([sid : Sessions, ev : Event])
    BY DEF TypeOK, StreamTypes
  <1>2. /\ Len(events') = Len(events) + 1
        /\ events'[Len(events) + 1] = [sid |-> s, ev |-> ev]
        /\ \A i \in 1..Len(events) : events'[i] = events[i]
        /\ DOMAIN events = 1..Len(events)
        /\ DOMAIN events' = 1..(Len(events) + 1)
    BY <1>1 DEF Emit
  <1>3. ASSUME NEW i \in DOMAIN events', events'[i].ev = "capture_stopped"
        PROVE  audio'[events'[i].sid] # "none"
    <2>1. Len(events) \in Nat
      BY <1>1, LenProperties
    <2>2. CASE i \in 1..Len(events)
      BY <1>2, <1>3, <2>2, EntryHolds DEF AudioInv, AnswersBacked, AudioLasts
    <2>3. CASE i = Len(events) + 1
      BY <1>2, <1>3, <2>3
    <2> QED BY <1>2, <2>1, <2>2, <2>3
  <1> QED BY <1>3 DEF AnswersBacked

(* Taking entries from the front of the stream leaves backed ones. *)
LEMMA SuffixBacked ==
  ASSUME TypeOK, AudioInv, AudioLasts, NEW n \in Nat, n <= Len(events),
         events' = SubSeq(events, n + 1, Len(events))
  PROVE  AnswersBacked'
  <1>1. Len(events) \in Nat /\ DOMAIN events = 1..Len(events)
    BY LenProperties DEF TypeOK, StreamTypes
  <1>2. /\ DOMAIN events' = 1..(Len(events) - n)
        /\ \A i \in 1..(Len(events) - n) : events'[i] = events[i + n]
    BY <1>1
  <1>3. ASSUME NEW i \in DOMAIN events', events'[i].ev = "capture_stopped"
        PROVE  audio'[events'[i].sid] # "none"
    <2>1. i + n \in DOMAIN events /\ events'[i] = events[i + n]
      BY <1>1, <1>2
    <2> QED BY <1>3, <2>1, EntryHolds DEF AudioInv, AnswersBacked, AudioLasts
  <1> QED BY <1>3 DEF AnswersBacked

(* The listener takes one entry. *)
LEMMA ConsumeBacked ==
  ASSUME TypeOK, AudioInv, AudioLasts, events # <<>>, Consume
  PROVE  AnswersBacked'
  <1>1. events \in Seq([sid : Sessions, ev : Event]) /\ Len(events) \in Nat
    BY LenProperties DEF TypeOK, StreamTypes
  <1>2. 1 <= Len(events)
    BY <1>1
  <1>3. events' = SubSeq(events, 1 + 1, Len(events))
    BY <1>1, <1>2 DEF Consume
  <1> QED BY <1>2, <1>3, SuffixBacked

(* The first entry is backed, as every entry is. *)
LEMMA HeadBacked ==
  ASSUME TypeOK, AudioInv, events # <<>>, Head(events).ev = "capture_stopped"
  PROVE  audio[Head(events).sid] # "none"
  <1>1. events \in Seq([sid : Sessions, ev : Event]) /\ Len(events) \in Nat
    BY LenProperties DEF TypeOK, StreamTypes
  <1>2. 1 \in DOMAIN events /\ Head(events) = events[1]
    BY <1>1
  <1> QED BY <1>2 DEF AudioInv, AnswersBacked

-----------------------------------------------------------------------------
(* The requests.  Leaving, declining and transcribing are backed by the status
   they read; everything else claims nothing. *)
LEMMA RequestBacked ==
  ASSUME TypeOK, AudioInv, NEW p \in Procs, NEW s \in Sessions, Request(p, s)
  PROVE  AudioInv'
  <1> USE DEF AudioInv
  <1>1. ASSUME NEW mode \in CreateModes, CreateCheck(p, s, mode)
        PROVE  AudioInv'
    <2>1. AudioLasts /\ AudioBacked' /\ SignalsBacked' /\ AnswersBacked'
      BY <1>1, AudioUntouched, Kept DEF CreateCheck, rowVars, fileVars, streamVars
    <2>2. mode \in Mode /\ Backed(Frame("insert", mode, s))'
      BY NeutralFrames, SettingsAssumption DEF Mode
    <2>3. FramesBacked'
      BY <1>1, <2>1, <2>2, GotoBacked DEF CreateCheck
    <2> QED BY <2>1, <2>3
  <1>2. ASSUME NEW act \in Action, RequestTransition(p, s, act)
        PROVE  AudioInv'
    <2>1. AudioLasts /\ AudioBacked' /\ SignalsBacked' /\ AnswersBacked'
      BY <1>2, AudioUntouched, Kept DEF RequestTransition, rowVars, fileVars, streamVars
    <2>2. audio[s] # "none"
      BY <1>2, LateSources DEF RequestTransition, Late, AudioBacked
    <2>3. Backed(Frame("commit", act, s))'
      BY <2>1, <2>2 DEF Backed, Frame, AudioLasts
    <2>4. FramesBacked'
      BY <1>2, <2>1, <2>3, GotoBacked DEF RequestTransition
    <2> QED BY <2>1, <2>4
  <1>3. ASSUME NEW act \in Action, RequestSend(p, s, act)
        PROVE  AudioInv'
    <2>1. AudioLasts /\ AudioBacked' /\ AnswersBacked'
      BY <1>3, AudioUntouched, Kept DEF RequestSend, rowVars, fileVars, streamVars
    <2>2. SignalsBacked'
      BY <1>3, <2>1 DEF RequestSend, SignalsBacked, AudioLasts, TypeOK, SetTypes, fileVars
    <2>3. act = "leave" => audio[s] # "none"
      BY <1>3, LateSources DEF RequestSend, Late, AudioBacked
    <2>4. ASSUME NEW q \in Procs
          PROVE  Backed(frame[q])'
      <3>1. CASE frame'[q] = Frame("publish", act, s) /\ q = p
        BY <1>3, <2>1, <2>3, <3>1 DEF Backed, Frame, AudioLasts, RequestSend, Handshake, Late
      <3>2. CASE frame'[q] = Frame("orphan", act, s) /\ frame[q] = Frame("await", act, s)
        BY <2>1, <2>3, <1>3, <3>2 DEF Backed, Frame, AudioLasts, RequestSend, Handshake, Late
      <3>3. CASE frame'[q] = frame[q]
        BY <2>1, <3>3, LateHolds DEF Backed, AudioLasts, FramesBacked
      <3> QED BY <1>3, <3>1, <3>2, <3>3 DEF RequestSend, Waiting
    <2> QED BY <2>1, <2>2, <2>4 DEF FramesBacked
  <1>4. CASE RequestCancel(p, s)
    <2>1. AudioLasts /\ AudioBacked' /\ SignalsBacked' /\ AnswersBacked'
      BY <1>4, AudioUntouched, Kept DEF RequestCancel, rowVars, fileVars, streamVars
    <2>2. Backed(Frame("commit", "cancel", s))'
      BY NeutralFrames
    <2>3. FramesBacked'
      BY <1>4, <2>1, <2>2, GotoBacked DEF RequestCancel
    <2> QED BY <2>1, <2>3
  <1>5. CASE RequestDelete(p, s)
    <2>1. AudioLasts
      BY <1>5, UnlinkLasts DEF RequestDelete
    <2>2. AudioBacked' /\ SignalsBacked' /\ AnswersBacked'
      BY <1>5, <2>1, Kept DEF RequestDelete, rowVars, streamVars
    <2>3. Backed(Frame("commit", "delete_audio", s))'
      BY NeutralFrames
    <2>4. FramesBacked'
      <3>1. Goto(p, Frame("commit", "delete_audio", s)) \/ UNCHANGED frame
        BY <1>5 DEF RequestDelete, Goto, TypeOK, FrameTypes
      <3> QED BY <2>1, <2>3, <3>1, GotoBacked, Kept
    <2> QED BY <2>2, <2>4
  <1>6. CASE RequestRetain(p, s)
    <2>1. AudioLasts /\ AudioBacked' /\ SignalsBacked' /\ AnswersBacked'
      BY <1>6, AudioUntouched, Kept DEF RequestRetain, rowVars, fileVars, streamVars
    <2>2. /\ Backed(Frame("expire", "retain_audio", s))'
          /\ Backed(Frame("expire", "none", s))'
      BY NeutralFrames
    <2>3. FramesBacked'
      BY <1>6, <2>1, <2>2, GotoBacked DEF RequestRetain
    <2> QED BY <2>1, <2>3
  <1> QED BY <1>1, <1>2, <1>3, <1>4, <1>5, <1>6 DEF Request

(* What a suspended coroutine does next. *)
LEMMA CreateInsertBacked ==
  ASSUME TypeOK, AudioInv, NEW p \in Procs, CreateInsert(p)
  PROVE  AudioInv'
  <1>1. AudioLasts /\ SignalsBacked' /\ AnswersBacked'
    BY AudioUntouched, Kept DEF CreateInsert, fileVars, streamVars
  <1>2. PICK s \in Sessions, mode \in Mode : frame[p].sid = s /\ frame[p].act = mode
    BY Holding DEF CreateInsert, At
  <1>3. AudioBacked'
    BY <1>1, <1>2 DEF CreateInsert, AudioInv, AudioBacked, AudioLasts, PostCapture, TypeOK, RowTypes
  <1>4. Backed(Frame("commit", "start_join", s))' /\ Backed(Frame("arm", mode, s))'
    BY NeutralFrames
  <1>5. FramesBacked'
    BY <1>1, <1>2, <1>4, GotoBacked DEF CreateInsert
  <1> QED BY <1>1, <1>3, <1>5 DEF AudioInv

(* Arming a join job claims nothing. *)
LEMMA CreateArmBacked ==
  ASSUME TypeOK, AudioInv, NEW p \in Procs, CreateArm(p)
  PROVE  AudioInv'
  <1>1. AudioLasts /\ AudioBacked' /\ SignalsBacked' /\ AnswersBacked'
    BY AudioUntouched, Kept DEF CreateArm, rowVars, fileVars, streamVars
  <1>2. FramesBacked'
    BY <1>1, NeutralFrames, GotoBacked DEF CreateArm, Finish
  <1> QED BY <1>1, <1>2 DEF AudioInv

(* A command added to the stream claims nothing. *)
LEMMA PublishBacked ==
  ASSUME TypeOK, AudioInv, NEW p \in Procs, Publish(p)
  PROVE  AudioInv'
  <1>1. AudioLasts /\ AudioBacked' /\ SignalsBacked' /\ AnswersBacked'
    BY AudioUntouched, Kept DEF Publish, rowVars, fileVars
  <1>2. PICK s \in Sessions, act \in Handshake : frame[p].sid = s /\ frame[p].act = act
    BY Holding DEF Publish, At
  <1>3. act = "leave" => audio[s] # "none"
    BY <1>2 DEF AudioInv, FramesBacked, Backed, Late
  <1>4. Backed(Frame("lookup", act, s))'
    BY <1>1, <1>3 DEF Backed, Frame, AudioLasts, Handshake, Late
  <1>5. FramesBacked'
    BY <1>1, <1>2, <1>4, GotoBacked DEF Publish
  <1> QED BY <1>1, <1>5 DEF AudioInv

(* A waiter goes on only for a set Event, which is set only by an answer. *)
LEMMA LookupBacked ==
  ASSUME TypeOK, AudioInv, NEW p \in Procs, Lookup(p)
  PROVE  AudioInv'
  <1>1. AudioLasts /\ AudioBacked' /\ SignalsBacked' /\ AnswersBacked'
    BY AudioUntouched, Kept DEF Lookup, rowVars, fileVars, streamVars
  <1>2. PICK s \in Sessions, act \in Handshake : frame[p].sid = s /\ frame[p].act = act
    BY Holding DEF Lookup, At
  <1>3. act = "leave" => audio[s] # "none"
    BY <1>2 DEF AudioInv, FramesBacked, Backed, Late
  <1>4. CASE act \in signal[s]
    <2>1. audio[s] # "none"
      BY <1>3, <1>4 DEF AudioInv, SignalsBacked, Handshake
    <2>2. Backed(Woken(act, s))'
      BY <1>1, <2>1 DEF Backed, Woken, Frame, AudioLasts
    <2>3. Goto(p, Woken(act, s))
      BY <1>2, <1>4 DEF Lookup
    <2>4. FramesBacked'
      BY <1>1, <2>2, <2>3, GotoBacked
    <2> QED BY <1>1, <2>4 DEF AudioInv
  <1>5. CASE act \notin signal[s]
    <2>1. Backed(Frame("await", act, s))'
      BY <1>1, <1>3 DEF Backed, Frame, AudioLasts, Handshake, Late
    <2>2. FramesBacked'
      BY <1>1, <1>2, <1>5, <2>1, GotoBacked DEF Lookup
    <2> QED BY <1>1, <2>2 DEF AudioInv
  <1> QED BY <1>4, <1>5

(* A request that gives up claims nothing. *)
LEMMA TimeoutBacked ==
  ASSUME TypeOK, AudioInv, NEW p \in Procs, Timeout(p)
  PROVE  AudioInv'
  <1>1. AudioLasts /\ AudioBacked' /\ SignalsBacked' /\ AnswersBacked'
    BY AudioUntouched, Kept DEF Timeout, rowVars, fileVars, streamVars
  <1>2. FramesBacked'
    BY <1>1, NeutralFrames, GotoBacked DEF Timeout, Finish
  <1> QED BY <1>1, <1>2 DEF AudioInv

(* Who stops the process of a session was woken by "left": it leaves a
   session it read as past its capture. *)
LEMMA ReapBacked ==
  ASSUME TypeOK, AudioInv, NEW p \in Procs, Reap(p)
  PROVE  AudioInv'
  <1>1. AudioLasts /\ AudioBacked' /\ SignalsBacked' /\ AnswersBacked'
    BY AudioUntouched, Kept DEF Reap, rowVars, fileVars, streamVars
  <1>2. PICK s \in Sessions : frame[p].sid = s
    BY Holding DEF Reap, At
  <1>3. audio[s] # "none"
    BY <1>2, Holding DEF Reap, At, AudioInv, FramesBacked, Backed, Late
  <1>4. Backed(Frame("commit", "leave", s))'
    BY <1>1, <1>3 DEF Backed, Frame, AudioLasts
  <1>5. FramesBacked'
    BY <1>1, <1>2, <1>4, GotoBacked DEF Reap
  <1> QED BY <1>1, <1>5 DEF AudioInv

(* Storing an expiry claims nothing; retain_audio is no late action. *)
LEMMA ExpireCommitBacked ==
  ASSUME TypeOK, AudioInv, NEW p \in Procs, ExpireCommit(p)
  PROVE  AudioInv'
  <1>1. AudioLasts /\ AudioBacked' /\ SignalsBacked' /\ AnswersBacked'
    BY AudioUntouched, Kept DEF ExpireCommit, fileVars, streamVars
  <1>2. PICK s \in Sessions, act \in {"retain_audio", "none"} : frame[p].sid = s /\ frame[p].act = act
    BY Holding DEF ExpireCommit, At
  <1>3. /\ Backed(Frame("reload", "retain_audio", s))'
        /\ Backed(Frame("commit", act, s))'
        /\ Backed(IdleFrame)'
    BY NeutralFrames
  <1>4. FramesBacked'
    BY <1>1, <1>2, <1>3, GotoBacked DEF ExpireCommit
  <1> QED BY <1>1, <1>4 DEF AudioInv

(* A second transition is judged by the refreshed row, which is backed. *)
LEMMA ReloadBacked ==
  ASSUME TypeOK, AudioInv, NEW p \in Procs, Reload(p)
  PROVE  AudioInv'
  <1>1. AudioLasts /\ AudioBacked' /\ SignalsBacked' /\ AnswersBacked'
    BY AudioUntouched, Kept DEF Reload, rowVars, fileVars, streamVars
  <1>2. PICK s \in Sessions, act \in {"retain_audio", "await_audio_disposal"} :
          frame[p].sid = s /\ frame[p].act = act
    BY Holding DEF Reload, At
  <1>3. act = "await_audio_disposal" => audio[s] # "none"
    BY <1>2 DEF AudioInv, FramesBacked, Backed, Late
  <1>4. Backed(Frame("commit", act, s))' /\ Backed(IdleFrame)'
    BY <1>1, <1>3, NeutralFrames DEF Backed, Frame, AudioLasts, Late
  <1>5. FramesBacked'
    BY <1>1, <1>2, <1>4, GotoBacked DEF Reload
  <1> QED BY <1>1, <1>5 DEF AudioInv

(* The UPDATE: only a backed coroutine leads past the capture, whatever the
   row says by the time it commits. *)
LEMMA CommitTransitionBacked ==
  ASSUME TypeOK, AudioInv, NEW p \in Procs, CommitTransition(p)
  PROVE  AudioInv'
  <1>1. AudioLasts /\ SignalsBacked' /\ AnswersBacked'
    BY AudioUntouched, Kept DEF CommitTransition, fileVars, streamVars
  <1>2. PICK s \in Sessions, act \in Action : frame[p].sid = s /\ frame[p].act = act
    BY Holding DEF CommitTransition, At
  <1>3. act \in Late \cup {"stop_recording"} => audio[s] # "none"
    BY <1>2 DEF CommitTransition, At, AudioInv, FramesBacked, Backed
  <1>4. AudioBacked'
    <2>1. status' = [status EXCEPT ![s] = To(act)]
      BY <1>2 DEF CommitTransition
    <2>2. To(act) \in PostCapture => audio[s] # "none"
      BY <1>3, PostCaptureTargets
    <2> QED BY <1>1, <2>1, <2>2 DEF AudioInv, AudioBacked, AudioLasts, TypeOK, RowTypes
  <1>5. PICK f : f = Continue(p, act, s) /\ Goto(p, f)
    BY <1>2 DEF CommitTransition
  <1>6. Backed(f)'
    <2>1. /\ act = "start_join" => Backed(Frame("spawn", act, s))'
          /\ act = "confirm_transcribe" => Backed(Frame("publish_job", act, s))'
          /\ act = "transcript_ready" => Backed(Frame("reload", "await_audio_disposal", s))'
      BY <1>1, <1>3 DEF Backed, Frame, AudioLasts, Late
    <2>2. Backed(IdleFrame)' /\ Backed(LoopFrame)'
      BY NeutralFrames
    <2> QED BY <1>5, <2>1, <2>2 DEF Continue, Rest
  <1>7. FramesBacked'
    BY <1>1, <1>5, <1>6, GotoBacked
  <1> QED BY <1>1, <1>4, <1>7 DEF AudioInv

(* Publishing a job claims nothing. *)
LEMMA PublishJobBacked ==
  ASSUME TypeOK, AudioInv, NEW p \in Procs, PublishJob(p)
  PROVE  AudioInv'
  <1>1. AudioLasts /\ AudioBacked' /\ SignalsBacked' /\ AnswersBacked'
    BY AudioUntouched, Kept DEF PublishJob, rowVars, fileVars
  <1>2. FramesBacked'
    BY <1>1, NeutralFrames, GotoBacked DEF PublishJob, Finish
  <1> QED BY <1>1, <1>2 DEF AudioInv

(* A coroutine whose Event is replaced keeps what it holds, except its place. *)
LEMMA SpawnBacked ==
  ASSUME TypeOK, AudioInv, NEW p \in Procs, Spawn(p)
  PROVE  AudioInv'
  <1>1. AudioLasts /\ AudioBacked' /\ AnswersBacked'
    BY AudioUntouched, Kept DEF Spawn, rowVars, fileVars, streamVars
  <1>2. PICK s \in Sessions : frame[p].sid = s
    BY Holding DEF Spawn, At
  <1>3. SignalsBacked'
    BY <1>1, <1>2 DEF Spawn, AudioInv, SignalsBacked, AudioLasts, TypeOK, SetTypes
  <1>4. ASSUME NEW q \in Procs
        PROVE  Backed(frame[q])'
    <2>1. CASE frame'[q] = IdleFrame
      BY <2>1 DEF Backed, IdleFrame, Frame, Late
    <2>2. CASE At(q, "await") /\ frame'[q] = [frame[q] EXCEPT !.pc = "orphan"]
      <3>1. frame[q] \in [pc : {"await"}, act : Handshake, sid : Sessions]
        BY <2>2 DEF TypeOK, FrameTypes, Suspended, At, Frame, IdleFrame, LoopFrame, EndedFrame
      <3>2. PICK t \in Sessions, act \in Handshake :
              frame'[q] = Frame("orphan", act, t) /\ frame[q] = Frame("await", act, t)
        BY <2>2, <3>1 DEF Frame
      <3>3. act = "leave" => audio[t] # "none"
        BY <3>2 DEF AudioInv, FramesBacked, Backed, Late, Frame
      <3> QED BY <1>1, <3>2, <3>3 DEF Backed, Frame, AudioLasts, Handshake, Late
    <2>3. CASE frame'[q] = frame[q]
      BY <1>1, <2>3, LateHolds DEF Backed, AudioLasts, AudioInv, FramesBacked
    <2> QED BY <2>1, <2>2, <2>3 DEF Spawn
  <1>5. FramesBacked'
    BY <1>4 DEF FramesBacked
  <1> QED BY <1>1, <1>3, <1>5 DEF AudioInv

(* Every resumed coroutine keeps the agreement. *)
LEMMA ResumeBacked ==
  ASSUME TypeOK, AudioInv, NEW p \in Procs, Resume(p)
  PROVE  AudioInv'
  BY CreateInsertBacked, CreateArmBacked, PublishBacked, LookupBacked, TimeoutBacked, ReapBacked,
     ExpireCommitBacked, ReloadBacked, CommitTransitionBacked, PublishJobBacked, SpawnBacked
  DEF Resume

-----------------------------------------------------------------------------
(* The listener: an answer in the stream is backed, and so are the Event it
   sets and the coroutines it wakes. *)
LEMMA ListenerSignalBacked ==
  ASSUME TypeOK, AudioInv, ListenerSignal
  PROVE  AudioInv'
  <1>1. AudioLasts /\ AudioBacked'
    BY AudioUntouched, Kept DEF ListenerSignal, rowVars, fileVars
  <1>2. AnswersBacked'
    BY <1>1, ConsumeBacked DEF ListenerSignal
  <1>3. PICK s \in Sessions, act \in Handshake :
          /\ Head(events).sid = s
          /\ act = IF Head(events).ev = "left" THEN "leave" ELSE "stop_recording"
    BY HeadTypes DEF ListenerSignal, Handshake
  <1>4. act = "stop_recording" => audio[s] # "none"
    BY <1>3, HeadBacked DEF ListenerSignal
  <1>5. SignalsBacked'
    BY <1>1, <1>3, <1>4 DEF ListenerSignal, AudioInv, SignalsBacked, AudioLasts, TypeOK, SetTypes
  <1>6. ASSUME NEW q \in Procs
        PROVE  Backed(frame[q])'
    <2>1. CASE frame[q] = Frame("await", act, s) /\ frame'[q] = Woken(act, s)
      <3>1. audio[s] # "none"
        BY <1>4, <2>1 DEF AudioInv, FramesBacked, Backed, Frame, Late, Handshake
      <3> QED BY <1>1, <2>1, <3>1 DEF Backed, Woken, Frame, AudioLasts
    <2>2. CASE frame'[q] = frame[q]
      BY <1>1, <2>2, LateHolds DEF Backed, AudioLasts, AudioInv, FramesBacked
    <2> QED BY <1>3, FrameFields, <2>1, <2>2 DEF ListenerSignal, Waiting
  <1>7. FramesBacked'
    BY <1>6 DEF FramesBacked
  <1> QED BY <1>1, <1>2, <1>5, <1>7 DEF AudioInv

(* Its own transitions apply to the status it has read; none is stop_recording. *)
LEMMA ListenerReactBacked ==
  ASSUME TypeOK, AudioInv, ListenerReact
  PROVE  AudioInv'
  <1>1. AudioLasts /\ AudioBacked' /\ SignalsBacked'
    BY AudioUntouched, Kept DEF ListenerReact, rowVars, fileVars
  <1>2. AnswersBacked'
    BY <1>1, ConsumeBacked DEF ListenerReact
  <1>3. PICK s \in Sessions, act \in Action :
          /\ Head(events).sid = s
          /\ act \in Reaction(Head(events).ev, status[s])
          /\ Goto(Listener, Frame("commit", act, s))
    BY HeadTypes DEF ListenerReact, Reaction, Wanted
  <1>4. Applies(status[s], act) /\ act # "stop_recording"
    BY <1>3 DEF Reaction, Wanted
  <1>5. act \in Late => audio[s] # "none"
    BY <1>4, LateSources DEF AudioInv, AudioBacked
  <1>6. Backed(Frame("commit", act, s))'
    BY <1>1, <1>4, <1>5 DEF Backed, Frame, AudioLasts
  <1>7. FramesBacked'
    BY <1>1, <1>3, <1>6, ProcTypes, GotoBacked
  <1> QED BY <1>1, <1>2, <1>7 DEF AudioInv

(* A dropped event takes its claim with it. *)
LEMMA ListenerIgnoreBacked ==
  ASSUME TypeOK, AudioInv, ListenerIgnore
  PROVE  AudioInv'
  <1>1. AudioLasts /\ AudioBacked' /\ SignalsBacked' /\ FramesBacked'
    BY AudioUntouched, Kept DEF ListenerIgnore, rowVars, fileVars
  <1>2. AnswersBacked'
    BY <1>1, ConsumeBacked DEF ListenerIgnore
  <1> QED BY <1>1, <1>2 DEF AudioInv

(* Nor does an event whose handler raises. *)
LEMMA ListenerFailBacked ==
  ASSUME TypeOK, AudioInv, ListenerFail
  PROVE  AudioInv'
  <1>1. AudioLasts /\ AudioBacked' /\ SignalsBacked'
    BY AudioUntouched, Kept DEF ListenerFail, rowVars, fileVars
  <1>2. Goto(Listener, IdleFrame) \/ Goto(Listener, EndedFrame) \/ UNCHANGED frame
    BY DEF ListenerFail, Finish
  <1>3. FramesBacked'
    BY <1>1, <1>2, NeutralFrames, ProcTypes, GotoBacked, Kept
  <1>4. AnswersBacked'
    BY <1>1, ConsumeBacked, Kept DEF ListenerFail
  <1> QED BY <1>1, <1>3, <1>4 DEF AudioInv

-----------------------------------------------------------------------------
(* The jobs of the scheduler and the restart of the gateway. *)
LEMMA FireJoinBacked ==
  ASSUME TypeOK, AudioInv, NEW s \in Sessions, FireJoin(s)
  PROVE  AudioInv'
  <1>1. AudioLasts /\ AudioBacked' /\ SignalsBacked' /\ AnswersBacked'
    BY AudioUntouched, Kept DEF FireJoin, rowVars, fileVars, streamVars
  <1>2. Goto(s, Frame("commit", "start_join", s)) \/ UNCHANGED frame
    BY ProcTypes DEF FireJoin, Goto, TypeOK, FrameTypes
  <1>3. FramesBacked'
    BY <1>1, <1>2, NeutralFrames, ProcTypes, GotoBacked, Kept
  <1> QED BY <1>1, <1>3 DEF AudioInv

(* Selecting rows claims nothing. *)
LEMMA FollowupSelectBacked ==
  ASSUME TypeOK, AudioInv, FollowupSelect
  PROVE  AudioInv'
  <1>1. AudioLasts /\ AudioBacked' /\ SignalsBacked' /\ AnswersBacked'
    BY AudioUntouched, Kept DEF FollowupSelect, rowVars, fileVars, streamVars
  <1>2. FramesBacked'
    BY <1>1, NeutralFrames, ProcTypes, GotoBacked DEF FollowupSelect
  <1> QED BY <1>1, <1>2 DEF AudioInv

(* A record resolved by the followup goes to delete_audio or retain_audio.
   *)
LEMMA FollowupResolveBacked ==
  ASSUME TypeOK, AudioInv, NEW s \in Sessions, FollowupResolve(s)
  PROVE  AudioInv'
  <1>1. AudioLasts
    BY UnlinkLasts, AudioUntouched DEF FollowupResolve
  <1>2. AudioBacked' /\ SignalsBacked' /\ AnswersBacked'
    BY <1>1, Kept DEF FollowupResolve, rowVars, streamVars
  <1>3. FramesBacked'
    BY <1>1, NeutralFrames, ProcTypes, GotoBacked DEF FollowupResolve
  <1> QED BY <1>2, <1>3 DEF AudioInv

(* A swept file has been written all the same. *)
LEMMA SweepBacked ==
  ASSUME TypeOK, AudioInv, Sweep
  PROVE  AudioInv'
  <1>1. AudioLasts
    BY DEF Sweep, AudioLasts
  <1> QED BY <1>1, Kept DEF Sweep, AudioInv, gatewayVars, streamVars

(* A restart forgets claims and makes none. *)
LEMMA GatewayRestartBacked ==
  ASSUME TypeOK, AudioInv, GatewayRestart
  PROVE  AudioInv'
  <1>1. AudioLasts /\ AudioBacked'
    BY Kept DEF GatewayRestart, AudioLasts, AudioInv, AudioBacked, rowVars
  <1>2. FramesBacked' /\ SignalsBacked'
    BY NeutralFrames DEF GatewayRestart, FramesBacked, SignalsBacked
  <1>3. AnswersBacked'
    <2>1. PICK n \in 0..10 : n <= Len(events) /\ events' = SubSeq(events, n + 1, Len(events))
      BY DEF GatewayRestart
    <2> QED BY <1>1, <2>1, SuffixBacked
  <1> QED BY <1>1, <1>2, <1>3 DEF AudioInv

-----------------------------------------------------------------------------
(* The worker answers a stop after the file is written; the transcriber has
   no part in it. *)
LEMMA StopCaptureBacked ==
  ASSUME TypeOK, AudioInv, NEW s \in Sessions, StopCapture(s)
  PROVE  AudioInv'
  <1>1. AudioLasts /\ audio'[s] # "none"
    BY DEF StopCapture, Finalize, AudioLasts, TypeOK, FileTypes
  <1>2. AudioBacked' /\ FramesBacked' /\ SignalsBacked'
    BY <1>1, Kept DEF StopCapture, rowVars, gatewayVars
  <1>3. AnswersBacked'
    BY <1>1, EmitBacked DEF StopCapture, Event
  <1> QED BY <1>2, <1>3 DEF AudioInv

(* Of the steps of a worker, only the answer to a stop claims a capture. *)
LEMMA WorkerStepBacked ==
  ASSUME TypeOK, AudioInv, NEW s \in Sessions, WorkerStep(s)
  PROVE  AudioInv'
  <1>1. ASSUME UNCHANGED <<rowVars, fileVars, gatewayVars>>,
               \/ UNCHANGED events
               \/ \E ev \in Event \ {"capture_stopped"} : Emit(ev, s)
        PROVE  AudioInv'
    <2>1. AudioLasts /\ AudioBacked' /\ FramesBacked' /\ SignalsBacked'
      BY <1>1, AudioUntouched, Kept DEF rowVars, fileVars, gatewayVars
    <2>2. AnswersBacked'
      BY <1>1, <2>1, EmitBacked, Kept
    <2> QED BY <2>1, <2>2 DEF AudioInv
  <1> QED BY <1>1, StopCaptureBacked
          DEF WorkerStep, Join, JoinFail, TakeCommand, Leave, Event

(* The provider cannot report a stopped capture. *)
LEMMA WatchBacked ==
  ASSUME TypeOK, AudioInv, NEW s \in Sessions, NEW ev \in ProviderEvents, Watch(s, ev)
  PROVE  AudioInv'
  <1>1. AudioLasts /\ AudioBacked' /\ FramesBacked' /\ SignalsBacked'
    BY AudioUntouched, Kept DEF Watch, rowVars, fileVars, gatewayVars
  <1>2. ev \in Event /\ ev # "capture_stopped"
    BY SettingsAssumption DEF Event
  <1>3. AnswersBacked'
    BY <1>1, <1>2, EmitBacked DEF Watch
  <1> QED BY <1>1, <1>3 DEF AudioInv

(* A worker that dies may have written the file, and answers nobody. *)
LEMMA WorkerCrashBacked ==
  ASSUME TypeOK, AudioInv, NEW s \in Sessions, WorkerCrash(s)
  PROVE  AudioInv'
  <1>1. AudioLasts
    BY DEF WorkerCrash, AudioLasts
  <1> QED BY <1>1, Kept DEF WorkerCrash, AudioInv, rowVars, gatewayVars, streamVars

(* The transcriber does not touch the audio, nor answer a stop. *)
LEMMA TranscriberBacked ==
  ASSUME TypeOK, AudioInv, TranscriberStep \/ TranscriberCrash
  PROVE  AudioInv'
  <1>1. UNCHANGED <<rowVars, audio, gatewayVars>>
    BY DEF TranscriberStep, TakeJob, StartJob, LoadAudio, WriteTranscript, TranscriptionFail,
           TranscriberCrash, fileVars
  <1>2. AudioLasts /\ AudioBacked' /\ FramesBacked' /\ SignalsBacked'
    BY <1>1, AudioUntouched, Kept DEF rowVars, gatewayVars
  <1>3. \/ UNCHANGED events
        \/ \E s \in Sessions, ev \in Event \ {"capture_stopped"} : Emit(ev, s)
    BY Working DEF TranscriberStep, TakeJob, StartJob, LoadAudio, WriteTranscript,
                   TranscriptionFail, TranscriberCrash, streamVars, Event
  <1>4. AnswersBacked'
    BY <1>2, <1>3, EmitBacked, Kept
  <1> QED BY <1>2, <1>4 DEF AudioInv

-----------------------------------------------------------------------------
(* Nothing is past its capture in an empty database. *)
LEMMA InitBacked == Init => AudioInv
  BY DEF Init, AudioInv, AudioBacked, FramesBacked, SignalsBacked, AnswersBacked,
         Backed, IdleFrame, Frame, Late, PostCapture

(* Every step of the system keeps the agreement: AudioInv is inductive. *)
LEMMA StepBacked ==
  ASSUME TypeOK, AudioInv, [Next]_vars
  PROVE  AudioInv'
  <1>1. ASSUME NEW p \in Slots, NEW s \in Sessions, Request(p, s)
        PROVE  AudioInv'
    BY <1>1, RequestBacked, ProcTypes
  <1>2. ASSUME NEW p \in Procs, Resume(p)
        PROVE  AudioInv'
    BY <1>2, ResumeBacked
  <1>3. CASE ListenerStep
    BY <1>3, ListenerReactBacked, ListenerSignalBacked, ListenerIgnoreBacked DEF ListenerStep
  <1>4. ASSUME NEW s \in Sessions, FireJoin(s)
        PROVE  AudioInv'
    BY <1>4, FireJoinBacked
  <1>5. CASE FollowupStep
    BY <1>5, FollowupSelectBacked, FollowupResolveBacked DEF FollowupStep
  <1>6. CASE Sweep
    BY <1>6, SweepBacked
  <1>7. ASSUME NEW s \in Sessions, WorkerStep(s)
        PROVE  AudioInv'
    BY <1>7, WorkerStepBacked
  <1>8. ASSUME NEW s \in Sessions, NEW ev \in ProviderEvents, Watch(s, ev)
        PROVE  AudioInv'
    BY <1>8, WatchBacked
  <1>9. CASE TranscriberStep
    BY <1>9, TranscriberBacked
  <1>10. CASE Fault
    BY <1>10, GatewayRestartBacked, ListenerFailBacked, WorkerCrashBacked, TranscriberBacked DEF Fault
  <1>11. CASE UNCHANGED vars
    BY <1>11, AudioUntouched, Kept DEF vars, rowVars, fileVars, gatewayVars, streamVars, AudioInv
  <1> QED BY <1>1, <1>2, <1>3, <1>4, <1>5, <1>6, <1>7, <1>8, <1>9, <1>10, <1>11 DEF Next

(* Rows, coroutines, Events and stream entries always agree about which
   captures have been written. *)
THEOREM AudioAgreed == Spec => []AudioInv
  BY InitTypes, StepTypes, InitBacked, StepBacked, PTL DEF Spec

(* No session is ever past its capture without a wav file having been written
   for it, however requests, listener, jobs and crashes interleave. *)
THEOREM AudioIsBacked == Spec => []AudioBacked
  <1>1. AudioInv => AudioBacked
    BY DEF AudioInv
  <1> QED BY <1>1, AudioAgreed, PTL

-----------------------------------------------------------------------------
(* The coroutine that still has to create, arm or spawn session s. *)
Starts(f) == f.pc \in {"insert", "arm"} \/ f.act = "start_join"
Starter(p, s) == frame[p].sid = s /\ Starts(frame[p])

(* One of them at most, counting the job. *)
OneStarter ==
  /\ \A s \in Sessions : \A p, q \in Procs : Starter(p, s) /\ Starter(q, s) => p = q
  /\ \A s \in armed : \A p \in Procs : ~Starter(p, s)

(* Whoever is still to start a session finds it without a worker. *)
StartsFresh ==
  \A s \in Sessions :
    s \in armed \/ (\E p \in Procs : Starter(p, s)) => worker[s] = "none"

(* What has been spawned, or is about to be, is never scheduled again: no
   restart arms it. *)
Unstarted == {"absent", "scheduled"}
StaysStarted ==
  /\ \A p \in Procs : frame[p].act # "schedule"
  /\ \A p \in Procs : /\ At(p, "arm") => status[frame[p].sid] # "absent"
                      /\ At(p, "spawn") => status[frame[p].sid] \notin Unstarted
  /\ \A s \in Sessions : worker[s] # "none" => status[s] \notin Unstarted
  /\ \A s \in armed : status[s] # "absent"

VisitInv == OneStarter /\ StartsFresh /\ StaysStarted

-----------------------------------------------------------------------------
(* A frame that starts nothing. *)
Harmless(f) == ~Starts(f) /\ f.pc # "spawn" /\ f.act # "schedule"

(* Most actions start nothing: what they put in a frame is harmless, they arm
   and spawn nothing, and no status goes back. *)
LEMMA Keeps ==
  ASSUME TypeOK, VisitInv,
         \A p \in Procs : frame'[p] = frame[p] \/ Harmless(frame'[p]),
         armed' \subseteq armed,
         \A s \in Sessions : worker'[s] = "none" <=> worker[s] = "none",
         \A s \in Sessions : status'[s] = status[s] \/ status'[s] \notin Unstarted
  PROVE  VisitInv'
  <1>1. \A p \in Procs : frame[p].sid \in Sessions \cup {NoSession}
    BY DEF TypeOK, FrameTypes, Suspended, IdleFrame, LoopFrame, EndedFrame, Frame
  <1>2. ASSUME NEW p \in Procs, NEW s, Starter(p, s)'
        PROVE  Starter(p, s) /\ frame'[p] = frame[p]
    BY <1>2 DEF Starter, Harmless
  <1>3. OneStarter'
    BY <1>2 DEF VisitInv, OneStarter
  <1>4. StartsFresh'
    BY <1>2 DEF VisitInv, StartsFresh
  <1>5. \A p \in Procs : frame'[p].act # "schedule"
    BY DEF Harmless, VisitInv, StaysStarted
  <1>6. ASSUME NEW p \in Procs
        PROVE  /\ At(p, "arm")' => status'[frame'[p].sid] # "absent"
               /\ At(p, "spawn")' => status'[frame'[p].sid] \notin Unstarted
    <2>1. At(p, "arm")' \/ At(p, "spawn")' => frame'[p] = frame[p]
      BY DEF Harmless, Starts, At
    <2>2. At(p, "arm") \/ At(p, "spawn") => frame[p].sid \in Sessions
      BY DEF At, TypeOK, FrameTypes, Suspended, IdleFrame, LoopFrame, EndedFrame, Frame
    <2> QED BY <2>1, <2>2 DEF VisitInv, StaysStarted, At, Unstarted
  <1>7. \A s \in Sessions : worker'[s] # "none" => status'[s] \notin Unstarted
    BY DEF VisitInv, StaysStarted
  <1>8. \A s \in armed' : status'[s] # "absent"
    BY DEF VisitInv, StaysStarted, Unstarted, TypeOK, SetTypes
  <1> QED BY <1>3, <1>4, <1>5, <1>6, <1>7, <1>8 DEF VisitInv, StaysStarted

(* The frames of the requests, the listener and the jobs are harmless. *)
LEMMA HarmlessFrames ==
  /\ Harmless(IdleFrame) /\ Harmless(LoopFrame) /\ Harmless(EndedFrame)
  /\ \A s, act : \A pc \in {"publish", "lookup", "await", "orphan", "reap", "expire", "reload",
                            "commit", "publish_job"} :
       act \notin {"start_join", "schedule"} => Harmless(Frame(pc, act, s))
  BY DEF Harmless, Starts, IdleFrame, LoopFrame, EndedFrame, Frame

(* One coroutine goes to a harmless frame, and no row or process changes. *)
LEMMA KeepsGoto ==
  ASSUME TypeOK, VisitInv, NEW p \in Procs, NEW f, Goto(p, f), Harmless(f),
         UNCHANGED <<status, worker>>, armed' \subseteq armed
  PROVE  VisitInv'
  <1>1. \A q \in Procs : frame'[q] = frame[q] \/ Harmless(frame'[q])
    BY DEF Goto, TypeOK, FrameTypes
  <1> QED BY <1>1, Keeps

(* No coroutine moves, and no row. *)
LEMMA KeepsStill ==
  ASSUME TypeOK, VisitInv, UNCHANGED <<frame, armed, status>>,
         \A s \in Sessions : worker'[s] = "none" <=> worker[s] = "none"
  PROVE  VisitInv'
  BY Keeps

(* What is done to a process that exists keeps it in existence. *)
LEMMA Spawned ==
  ASSUME TypeOK, NEW s \in Sessions, NEW w, w # "none", worker[s] # "none",
         worker' = [worker EXCEPT ![s] = w]
  PROVE  \A t \in Sessions : worker'[t] = "none" <=> worker[t] = "none"
  BY DEF TypeOK, ProcessTypes

-----------------------------------------------------------------------------
(* create_session. *)
LEMMA CreateCheckVisits ==
  ASSUME TypeOK, VisitInv, NEW p \in Procs, NEW s \in Sessions, NEW mode \in CreateModes,
         CreateCheck(p, s, mode)
  PROVE  VisitInv'
  <1>1. /\ frame' = [frame EXCEPT ![p] = Frame("insert", mode, s)]
        /\ status[s] = "absent" /\ UNCHANGED <<status, worker, armed>>
        /\ \A q \in Procs : frame[q].sid # s
    BY DEF CreateCheck, Goto, InFlight, rowVars, workerVars
  <1>2. mode \in Mode
    BY SettingsAssumption DEF Mode
  <1>3. /\ frame'[p] = Frame("insert", mode, s)
        /\ \A q \in Procs \ {p} : frame'[q] = frame[q]
    BY <1>1 DEF TypeOK, FrameTypes
  <1>4. frame'[p].pc = "insert" /\ frame'[p].sid = s /\ frame'[p].act \in Mode
    BY <1>2, <1>3 DEF Frame
  <1>5. worker[s] = "none" /\ s \notin armed
    BY <1>1 DEF VisitInv, StaysStarted, Unstarted
  <1>6. \A q \in Procs, t \in Sessions :
          Starter(q, t)' => \/ q = p /\ t = s
                            \/ q # p /\ t # s /\ Starter(q, t)
    BY <1>1, <1>3, <1>4 DEF Starter
  <1>7. OneStarter'
    <2>1. \A t \in Sessions : \A q, r \in Procs : Starter(q, t)' /\ Starter(r, t)' => q = r
      BY <1>6 DEF VisitInv, OneStarter
    <2>2. \A t \in armed' : \A q \in Procs : ~Starter(q, t)'
      BY <1>1, <1>5, <1>6 DEF VisitInv, OneStarter, TypeOK, SetTypes
    <2> QED BY <2>1, <2>2 DEF OneStarter
  <1>8. StartsFresh'
    BY <1>1, <1>5, <1>6 DEF VisitInv, StartsFresh
  <1>9. StaysStarted'
    BY <1>1, <1>3, <1>4 DEF VisitInv, StaysStarted, At, Mode
  <1> QED BY <1>7, <1>8, <1>9 DEF VisitInv

(* A starter goes on as a starter of the same session, or not as one. *)
LEMMA GoesOn ==
  ASSUME TypeOK, VisitInv, NEW p \in Procs, NEW f, Goto(p, f), f.sid = frame[p].sid,
         Starts(frame[p]), frame[p].sid \in Sessions, f.act # "schedule",
         UNCHANGED <<worker, armed>>,
         f.pc = "arm" => status'[f.sid] # "absent",
         f.pc = "spawn" => status'[f.sid] \notin Unstarted,
         \A s \in Sessions : status'[s] = status[s] \/ (s = frame[p].sid /\ status'[s] # "absent"),
         ~At(p, "spawn")
  PROVE  VisitInv'
  <1> PICK s : s = frame[p].sid
    OBVIOUS
  <1>1. frame'[p] = f /\ \A q \in Procs \ {p} : frame'[q] = frame[q]
    BY DEF Goto, TypeOK, FrameTypes
  <1>2. Starter(p, s) /\ worker[s] = "none" /\ s \notin armed
    BY DEF VisitInv, OneStarter, StartsFresh, Starter
  <1>3. \A q \in Procs, t \in Sessions : Starter(q, t)' => Starter(q, t)
    BY <1>1, <1>2 DEF Starter
  <1>4. OneStarter'
    BY <1>3 DEF VisitInv, OneStarter, TypeOK, SetTypes
  <1>5. StartsFresh'
    BY <1>3 DEF VisitInv, StartsFresh
  <1>6. \A q \in Procs : frame'[q].act # "schedule"
    BY <1>1 DEF VisitInv, StaysStarted
  <1>7. ASSUME NEW q \in Procs
        PROVE  /\ At(q, "arm")' => status'[frame'[q].sid] # "absent"
               /\ At(q, "spawn")' => status'[frame'[q].sid] \notin Unstarted
    <2>1. CASE q = p
      BY <1>1, <2>1 DEF At
    <2>2. CASE q # p
      <3>1. frame'[q] = frame[q] /\ frame[q] \in Suspended
        BY <1>1, <2>2 DEF TypeOK, FrameTypes
      <3>2. At(q, "arm") \/ At(q, "spawn") => Starts(frame[q]) /\ frame[q].sid \in Sessions
        BY <3>1 DEF At, Starts, Suspended, IdleFrame, LoopFrame, EndedFrame, Frame
      <3>3. At(q, "arm") \/ At(q, "spawn") => frame[q].sid # s
        BY <1>2, <2>2, <3>2 DEF VisitInv, OneStarter, Starter
      <3> QED BY <3>1, <3>2, <3>3 DEF VisitInv, StaysStarted, At
    <2> QED BY <2>1, <2>2
  <1>8. \A t \in Sessions : worker'[t] # "none" => status'[t] \notin Unstarted
    BY <1>2 DEF VisitInv, StaysStarted
  <1>9. \A t \in armed' : status'[t] # "absent"
    BY <1>2 DEF VisitInv, StaysStarted, TypeOK, SetTypes
  <1> QED BY <1>4, <1>5, <1>6, <1>7, <1>8, <1>9 DEF VisitInv, StaysStarted

(* The INSERT hands the session on to its commit, or to its arming. *)
LEMMA CreateInsertVisits ==
  ASSUME TypeOK, VisitInv, NEW p \in Procs, CreateInsert(p)
  PROVE  VisitInv'
  <1> PICK s : s = frame[p].sid
    OBVIOUS
  <1>1. s \in Sessions /\ frame[p].act \in Mode /\ Starts(frame[p])
    BY Holding DEF CreateInsert, At, Starts
  <1>2. PICK f : /\ Goto(p, f)
                 /\ f \in {Frame("commit", "start_join", s), Frame("arm", frame[p].act, s)}
    BY DEF CreateInsert
  <1>3. f.sid = s /\ f.act # "schedule" /\ f.pc # "spawn"
    BY <1>1, <1>2 DEF Frame, Mode
  <1>4. /\ UNCHANGED <<worker, armed>> /\ ~At(p, "spawn") /\ status'[s] # "absent"
        /\ \A t \in Sessions : status'[t] = status[t] \/ (t = s /\ status'[t] # "absent")
    BY <1>1 DEF CreateInsert, At, workerVars, TypeOK, RowTypes
  <1> QED BY <1>1, <1>2, <1>3, <1>4, GoesOn

(* Arming hands the session on to the job. *)
LEMMA CreateArmVisits ==
  ASSUME TypeOK, VisitInv, NEW p \in Procs, CreateArm(p)
  PROVE  VisitInv'
  <1> PICK s : s = frame[p].sid
    OBVIOUS
  <1>1. s \in Sessions /\ Starter(p, s) /\ status[s] # "absent"
    BY Holding DEF CreateArm, At, Starter, Starts, VisitInv, StaysStarted
  <1>2. /\ frame'[p] = IdleFrame /\ \A q \in Procs \ {p} : frame'[q] = frame[q]
        /\ UNCHANGED <<status, worker>> /\ armed' \subseteq armed \cup {s}
    BY DEF CreateArm, Finish, Goto, TypeOK, FrameTypes, rowVars, workerVars
  <1>3. \A q \in Procs, t \in Sessions : Starter(q, t)' => Starter(q, t) /\ q # p
    BY <1>2, HarmlessFrames DEF Starter, Harmless
  <1>4. \A q \in Procs : ~Starter(q, s)'
    BY <1>1, <1>3 DEF VisitInv, OneStarter
  <1>5. OneStarter'
    <2>1. \A t \in armed' : \A q \in Procs : ~Starter(q, t)'
      BY <1>1, <1>2, <1>3, <1>4 DEF VisitInv, OneStarter, TypeOK, SetTypes
    <2> QED BY <1>3, <2>1 DEF VisitInv, OneStarter
  <1>6. StartsFresh'
    BY <1>1, <1>2, <1>3 DEF VisitInv, StartsFresh
  <1>7. StaysStarted'
    <2>1. \A q \in Procs : /\ frame'[q].act # "schedule"
                           /\ At(q, "arm")' \/ At(q, "spawn")' => frame'[q] = frame[q]
      BY <1>2, HarmlessFrames DEF VisitInv, StaysStarted, Harmless, Starts, At
    <2> QED BY <1>1, <1>2, <2>1 DEF VisitInv, StaysStarted, At
  <1> QED BY <1>5, <1>6, <1>7 DEF VisitInv

(* The join job hands the session on to its coroutine. *)
LEMMA FireJoinVisits ==
  ASSUME TypeOK, VisitInv, NEW s \in Sessions, FireJoin(s)
  PROVE  VisitInv'
  <1> DEFINE f == Frame("commit", "start_join", s)
  <1>1. /\ s \in armed /\ armed' = armed \ {s} /\ UNCHANGED <<status, worker>>
        /\ frame'[s] = f \/ frame'[s] = frame[s]
        /\ \A q \in Procs \ {s} : frame'[q] = frame[q]
    BY ProcTypes DEF FireJoin, TypeOK, FrameTypes, rowVars, workerVars
  <1>2. f.sid = s /\ f.act # "schedule" /\ f.pc \notin {"arm", "spawn"}
    BY DEF Frame
  <1>3. /\ \A q \in Procs : ~Starter(q, s)
        /\ worker[s] = "none"
    BY <1>1 DEF VisitInv, OneStarter, StartsFresh
  <1>4. \A q \in Procs, t \in Sessions :
          Starter(q, t)' => Starter(q, t) \/ (q = s /\ t = s)
    BY <1>1, <1>2 DEF Starter
  <1>5. OneStarter'
    <2>1. \A t \in armed' : \A q \in Procs : ~Starter(q, t)'
      BY <1>1, <1>4 DEF VisitInv, OneStarter, TypeOK, SetTypes
    <2> QED BY <1>3, <1>4, <2>1 DEF VisitInv, OneStarter
  <1>6. StartsFresh'
    BY <1>1, <1>3, <1>4 DEF VisitInv, StartsFresh
  <1>7. StaysStarted'
    BY <1>1, <1>2 DEF VisitInv, StaysStarted, At
  <1> QED BY <1>5, <1>6, <1>7 DEF VisitInv

(* The process of a session is spawned by the last that could. *)
LEMMA SpawnVisits ==
  ASSUME TypeOK, VisitInv, NEW p \in Procs, Spawn(p)
  PROVE  VisitInv' /\ worker[frame[p].sid] = "none"
  <1> PICK s : s = frame[p].sid
    OBVIOUS
  <1>1. frame[p] \in Suspended /\ frame[p].pc = "spawn"
    BY DEF TypeOK, FrameTypes, Spawn, At
  <1>2. s \in Sessions /\ Starter(p, s)
    BY <1>1 DEF Suspended, IdleFrame, LoopFrame, EndedFrame, Frame, Starter, Starts
  <1>3. worker[s] = "none" /\ s \notin armed /\ status[s] \notin Unstarted
    BY <1>1, <1>2 DEF VisitInv, OneStarter, StartsFresh, StaysStarted, At
  <1>4. /\ worker' = [worker EXCEPT ![s] = "joining"]
        /\ UNCHANGED <<status, armed>>
    BY <1>3 DEF Spawn, Alive, rowVars
  <1>5. /\ frame'[p] = IdleFrame
        /\ \A q \in Procs \ {p} :
             \/ frame'[q] = frame[q]
             \/ frame[q].pc = "await" /\ frame'[q] = [frame[q] EXCEPT !.pc = "orphan"]
    BY DEF Spawn, At
  <1>6. \A q \in Procs \ {p} : \/ frame'[q] = frame[q]
                               \/ /\ frame'[q].pc = "orphan"
                                  /\ frame'[q].act = frame[q].act /\ frame'[q].sid = frame[q].sid
    <2> SUFFICES ASSUME NEW q \in Procs, frame[q].pc = "await",
                        frame'[q] = [frame[q] EXCEPT !.pc = "orphan"]
                 PROVE  /\ frame'[q].pc = "orphan"
                        /\ frame'[q].act = frame[q].act /\ frame'[q].sid = frame[q].sid
      BY <1>5
    <2>1. frame[q] \in [pc : {"publish", "lookup", "await", "orphan"}, act : Handshake, sid : Sessions]
      BY DEF TypeOK, FrameTypes, Suspended, IdleFrame, LoopFrame, EndedFrame, Frame
    <2> QED BY <2>1
  <1>7. \A q \in Procs, t \in Sessions : Starter(q, t)' => Starter(q, t) /\ q # p
    BY <1>5, <1>6, HarmlessFrames DEF Starter, Starts, Harmless
  <1>8. \A q \in Procs : ~Starter(q, s)'
    BY <1>2, <1>7 DEF VisitInv, OneStarter
  <1>9. OneStarter'
    BY <1>4, <1>7 DEF VisitInv, OneStarter, TypeOK, SetTypes
  <1>10. StartsFresh'
    BY <1>3, <1>4, <1>7, <1>8 DEF VisitInv, StartsFresh, TypeOK, ProcessTypes
  <1>11. StaysStarted'
    <2>1. \A q \in Procs : /\ frame'[q].act # "schedule"
                           /\ At(q, "arm")' \/ At(q, "spawn")' => frame'[q] = frame[q]
      BY <1>5, <1>6, HarmlessFrames DEF VisitInv, StaysStarted, Harmless, Starts, At
    <2> QED BY <1>3, <1>4, <2>1 DEF VisitInv, StaysStarted, At, TypeOK, ProcessTypes
  <1> QED BY <1>3, <1>9, <1>10, <1>11 DEF VisitInv

(* A commit: of start_join it hands the session on to the spawn, of any other
   action it starts nothing. *)
LEMMA CommitVisits ==
  ASSUME TypeOK, VisitInv, NEW p \in Procs, CommitTransition(p)
  PROVE  VisitInv'
  <1> PICK s, act : s = frame[p].sid /\ act = frame[p].act
    OBVIOUS
  <1>1. s \in Sessions /\ act \in Action /\ act # "schedule"
    BY Holding DEF CommitTransition, At, VisitInv, StaysStarted
  <1>2. To(act) \notin Unstarted
    BY <1>1, Actions, Targets DEF Unstarted
  <1>3. /\ status' = [status EXCEPT ![s] = To(act)]
        /\ Goto(p, Continue(p, act, s)) /\ At(p, "commit")
        /\ UNCHANGED <<worker, armed>>
    BY DEF CommitTransition, workerVars
  <1>4. status'[s] = To(act) /\ \A t \in Sessions : t # s => status'[t] = status[t]
    BY <1>1, <1>3 DEF TypeOK, RowTypes
  <1>5. CASE act = "start_join"
    <2>1. Continue(p, act, s) = Frame("spawn", act, s)
      BY <1>5 DEF Continue
    <2>2. /\ Frame("spawn", act, s).sid = s /\ Frame("spawn", act, s).act = act
          /\ Frame("spawn", act, s).pc = "spawn"
      BY DEF Frame
    <2>3. Starts(frame[p]) /\ ~At(p, "spawn")
      BY <1>3, <1>5 DEF Starts, At
    <2> HIDE DEF Frame
    <2> QED BY <1>1, <1>2, <1>3, <1>4, <2>1, <2>2, <2>3, GoesOn DEF Unstarted
  <1>6. CASE act # "start_join"
    <2>1. Harmless(Continue(p, act, s))
      BY <1>6, HarmlessFrames DEF Continue, Rest
    <2>2. \A q \in Procs : frame'[q] = frame[q] \/ Harmless(frame'[q])
      BY <1>3, <2>1 DEF Goto, TypeOK, FrameTypes
    <2> QED BY <1>2, <1>3, <1>4, <2>2, Keeps
  <1> QED BY <1>5, <1>6

(* A restart arms what is scheduled; nothing of it has a worker. *)
LEMMA GatewayRestartVisits ==
  ASSUME TypeOK, VisitInv, GatewayRestart
  PROVE  VisitInv'
  <1>1. /\ \A p \in Procs : frame'[p] = IdleFrame
        /\ UNCHANGED status
        /\ \A s \in armed' : s \in Sessions /\ status[s] = "scheduled"
    BY DEF GatewayRestart, Restored, rowVars
  <1>2. \A s \in Sessions : worker'[s] = "none" <=> worker[s] = "none"
    BY DEF GatewayRestart, Alive
  <1>3. \A p \in Procs, s \in Sessions : ~Starter(p, s)'
    BY <1>1, HarmlessFrames DEF Starter, Harmless
  <1>4. OneStarter'
    BY <1>1, <1>3 DEF OneStarter
  <1>5. StartsFresh'
    BY <1>1, <1>2, <1>3 DEF StartsFresh, VisitInv, StaysStarted, Unstarted
  <1>6. StaysStarted'
    BY <1>1, <1>2, HarmlessFrames DEF StaysStarted, VisitInv, Unstarted, Harmless, Starts, At
  <1> QED BY <1>4, <1>5, <1>6 DEF VisitInv

-----------------------------------------------------------------------------
(* The other requests start nothing. *)
LEMMA RequestVisits ==
  ASSUME TypeOK, VisitInv, NEW p \in Procs, NEW s \in Sessions, Request(p, s)
  PROVE  VisitInv'
  <1>1. ASSUME NEW mode \in CreateModes, CreateCheck(p, s, mode)
        PROVE  VisitInv'
    BY <1>1, CreateCheckVisits
  <1>2. ASSUME NEW act \in Action, RequestTransition(p, s, act)
        PROVE  VisitInv'
    <2>1. Goto(p, Frame("commit", act, s)) /\ act \notin {"start_join", "schedule"}
          /\ UNCHANGED <<status, worker, armed>>
      BY <1>2 DEF RequestTransition, rowVars, workerVars
    <2> QED BY <2>1, HarmlessFrames, KeepsGoto
  <1>3. ASSUME NEW act \in Action, RequestSend(p, s, act)
        PROVE  VisitInv'
    <2>1. act \notin {"start_join", "schedule"} /\ UNCHANGED <<status, worker, armed>>
      BY <1>3 DEF RequestSend, Handshake, rowVars, workerVars
    <2>2. \A q \in Procs : \/ frame'[q] = frame[q]
                           \/ frame'[q] \in {Frame("publish", act, s), Frame("orphan", act, s)}
      BY <1>3 DEF RequestSend
    <2> QED BY <2>1, <2>2, HarmlessFrames, Keeps
  <1>4. CASE RequestCancel(p, s)
    <2>1. Goto(p, Frame("commit", "cancel", s)) /\ UNCHANGED <<status, worker>>
          /\ armed' \subseteq armed
      BY <1>4 DEF RequestCancel, rowVars, workerVars
    <2> QED BY <2>1, HarmlessFrames, KeepsGoto
  <1>5. CASE RequestDelete(p, s)
    <2>1. \A q \in Procs : frame'[q] = frame[q] \/ frame'[q] = Frame("commit", "delete_audio", s)
      BY <1>5 DEF RequestDelete, TypeOK, FrameTypes
    <2>2. UNCHANGED <<status, worker, armed>>
      BY <1>5 DEF RequestDelete, rowVars, workerVars
    <2> QED BY <2>1, <2>2, HarmlessFrames, Keeps
  <1>6. CASE RequestRetain(p, s)
    <2>1. \E x \in {"retain_audio", "none"} : Goto(p, Frame("expire", x, s))
      BY <1>6 DEF RequestRetain
    <2>2. UNCHANGED <<status, worker, armed>>
      BY <1>6 DEF RequestRetain, rowVars, workerVars
    <2> QED BY <2>1, <2>2, HarmlessFrames, KeepsGoto
  <1> QED BY <1>1, <1>2, <1>3, <1>4, <1>5, <1>6 DEF Request

(* What a resumed coroutine goes on to is harmless, but for the coroutines
   above. *)
LEMMA ResumeVisits ==
  ASSUME TypeOK, VisitInv, NEW p \in Procs, Resume(p)
  PROVE  VisitInv'
  <1> PICK s, act : s = frame[p].sid /\ act = frame[p].act
    OBVIOUS
  <1>1. CASE Publish(p) \/ Lookup(p)
    <2>1. act \notin {"start_join", "schedule"} /\ UNCHANGED <<status, worker, armed>>
      BY <1>1, Holding DEF Publish, Lookup, At, Handshake, rowVars, workerVars
    <2>2. PICK f : /\ Goto(p, f)
                   /\ f \in {Frame("lookup", act, s), Frame("reap", act, s),
                             Frame("commit", act, s), Frame("await", act, s)}
      BY <1>1 DEF Publish, Lookup, Woken
    <2> QED BY <2>1, <2>2, HarmlessFrames, KeepsGoto
  <1>2. CASE Timeout(p)
    BY <1>2, HarmlessFrames, KeepsGoto DEF Timeout, Finish, rowVars, workerVars
  <1>3. CASE Reap(p)
    <2>1. s \in Sessions
      BY <1>3, Holding DEF Reap, At
    <2>2. Goto(p, Frame("commit", "leave", s)) /\ UNCHANGED <<status, armed>>
          /\ \A t \in Sessions : worker'[t] = "none" <=> worker[t] = "none"
      BY <1>3, <2>1 DEF Reap, rowVars, TypeOK, ProcessTypes, Alive
    <2>3. \A q \in Procs : frame'[q] = frame[q] \/ frame'[q] = Frame("commit", "leave", s)
      BY <2>2 DEF Goto, TypeOK, FrameTypes
    <2> QED BY <2>2, <2>3, HarmlessFrames, Keeps
  <1>4. CASE ExpireCommit(p)
    <2>1. act \in {"retain_audio", "none"} /\ UNCHANGED <<status, worker, armed>>
      BY <1>4, Holding DEF ExpireCommit, At, workerVars
    <2>2. PICK f : /\ Goto(p, f)
                   /\ f \in {Frame("reload", "retain_audio", s), IdleFrame, Frame("commit", act, s)}
      BY <1>4 DEF ExpireCommit
    <2> QED BY <2>1, <2>2, HarmlessFrames, KeepsGoto
  <1>5. CASE Reload(p)
    <2>1. act \in {"retain_audio", "await_audio_disposal"} /\ UNCHANGED <<status, worker, armed>>
      BY <1>5, Holding DEF Reload, At, rowVars, workerVars
    <2>2. PICK f : Goto(p, f) /\ f \in {IdleFrame, Frame("commit", act, s)}
      BY <1>5 DEF Reload
    <2> QED BY <2>1, <2>2, HarmlessFrames, KeepsGoto
  <1>6. CASE PublishJob(p)
    BY <1>6, HarmlessFrames, KeepsGoto DEF PublishJob, Finish, rowVars, workerVars
  <1> QED BY <1>1, <1>2, <1>3, <1>4, <1>5, <1>6, CreateInsertVisits, CreateArmVisits,
             CommitVisits, SpawnVisits DEF Resume

(* The listener starts nothing. *)
LEMMA ListenerVisits ==
  ASSUME TypeOK, VisitInv, ListenerStep \/ ListenerFail
  PROVE  VisitInv'
  <1>1. UNCHANGED <<status, armed, worker>>
    BY DEF ListenerStep, ListenerReact, ListenerSignal, ListenerIgnore, ListenerFail,
           rowVars, workerVars
  <1>2. \A q \in Procs : frame'[q] = frame[q] \/ Harmless(frame'[q])
    <2>1. CASE ListenerReact
      <3>1. PICK act \in Action : \E s :
              Goto(Listener, Frame("commit", act, s)) /\ act \notin {"start_join", "schedule"}
        BY <2>1 DEF ListenerReact, Reaction, Wanted
      <3> QED BY <3>1, HarmlessFrames DEF Goto, TypeOK, FrameTypes
    <2>2. CASE ListenerSignal
      <3>1. \A q \in Procs : \/ frame'[q] = frame[q]
                             \/ \E act \in Handshake : frame'[q] = Woken(act, frame[q].sid)
        BY <2>2 DEF ListenerSignal, Handshake
      <3> QED BY <3>1, HarmlessFrames DEF Woken, Handshake
    <2>3. CASE ListenerIgnore
      BY <2>3 DEF ListenerIgnore
    <2>4. CASE ListenerFail
      BY <2>4, HarmlessFrames DEF ListenerFail, Finish, Goto, TypeOK, FrameTypes
    <2> QED BY <2>1, <2>2, <2>3, <2>4 DEF ListenerStep
  <1> QED BY <1>1, <1>2, Keeps

(* Nor does the followup job. *)
LEMMA FollowupVisits ==
  ASSUME TypeOK, VisitInv, FollowupStep
  PROVE  VisitInv'
  <1>1. UNCHANGED <<status, armed, worker>>
    BY DEF FollowupStep, FollowupSelect, FollowupResolve, rowVars, workerVars
  <1>2. PICK s : \/ Goto(Followup, LoopFrame)
                 \/ Goto(Followup, Frame("commit", "delete_audio", s))
                 \/ Goto(Followup, Frame("expire", "retain_audio", s))
    BY DEF FollowupStep, FollowupSelect, FollowupResolve
  <1>3. \A q \in Procs : frame'[q] = frame[q] \/ Harmless(frame'[q])
    BY <1>2, HarmlessFrames DEF Goto, TypeOK, FrameTypes
  <1> QED BY <1>1, <1>3, Keeps

(* What the processes do to themselves, and the sweeper, start nothing. *)
LEMMA OutsideVisits ==
  ASSUME TypeOK, VisitInv,
         \/ Sweep \/ TranscriberStep \/ TranscriberCrash
         \/ \E s \in Sessions : \/ WorkerStep(s) \/ WorkerCrash(s)
                                 \/ \E ev \in ProviderEvents : Watch(s, ev)
  PROVE  VisitInv'
  <1>1. CASE Sweep \/ TranscriberStep \/ TranscriberCrash
    BY <1>1, KeepsStill
    DEF Sweep, TranscriberStep, TakeJob, StartJob, LoadAudio, WriteTranscript, TranscriptionFail,
        TranscriberCrash, rowVars, gatewayVars, workerVars
  <1>2. ASSUME NEW s \in Sessions,
               \/ WorkerStep(s) \/ WorkerCrash(s)
               \/ \E ev \in ProviderEvents : Watch(s, ev)
        PROVE  VisitInv'
    <2>1. UNCHANGED <<frame, armed, status>>
      BY <1>2 DEF WorkerStep, Join, JoinFail, TakeCommand, StopCapture, Leave, WorkerCrash, Watch,
                  rowVars, gatewayVars
    <2>2. \/ UNCHANGED worker
          \/ /\ worker[s] # "none"
             /\ \E w \in {"ready", "stopping", "leaving", "exited"} :
                  worker' = [worker EXCEPT ![s] = w]
      BY <1>2, TakesCommand DEF WorkerStep, Join, JoinFail, StopCapture, Leave, WorkerCrash, Watch,
                                Become, Alive
    <2> QED BY <2>1, <2>2, KeepsStill, Spawned
  <1> QED BY <1>1, <1>2

(* An empty database has nothing to start. *)
LEMMA InitVisits == Init => VisitInv
  BY HarmlessFrames
  DEF Init, VisitInv, OneStarter, StartsFresh, StaysStarted, Starter, Harmless, Starts, At, Unstarted

(* VisitInv is inductive. *)
LEMMA StepVisits ==
  ASSUME TypeOK, VisitInv, [Next]_vars
  PROVE  VisitInv'
  <1>1. ASSUME NEW p \in Slots, NEW s \in Sessions, Request(p, s)
        PROVE  VisitInv'
    BY <1>1, RequestVisits, ProcTypes
  <1>2. ASSUME NEW p \in Procs, Resume(p)
        PROVE  VisitInv'
    BY <1>2, ResumeVisits
  <1>3. CASE ListenerStep \/ FollowupStep
    BY <1>3, ListenerVisits, FollowupVisits
  <1>4. ASSUME NEW s \in Sessions, FireJoin(s)
        PROVE  VisitInv'
    BY <1>4, FireJoinVisits
  <1>5. ASSUME \/ Sweep \/ TranscriberStep
               \/ \E s \in Sessions : WorkerStep(s)
               \/ \E s \in Sessions, ev \in ProviderEvents : Watch(s, ev)
        PROVE  VisitInv'
    BY <1>5, OutsideVisits
  <1>6. CASE Fault
    BY <1>6, GatewayRestartVisits, ListenerVisits, OutsideVisits DEF Fault
  <1>7. CASE UNCHANGED vars
    BY <1>7, KeepsStill DEF vars, rowVars, gatewayVars, workerVars
  <1> QED BY <1>1, <1>2, <1>3, <1>4, <1>5, <1>6, <1>7 DEF Next

-----------------------------------------------------------------------------
(* The transcriber writes from a file that is there, or was. *)
WritesFromAudio == transcriber.pc = "writing" => audio[transcriber.sid] # "none"

(* Most actions leave bot and files alone. *)
LEMMA Stutters ==
  ASSUME UNCHANGED <<worker, audio, transcript>>
  PROVE  Visit!Next
  BY DEF Visit!Next, Visit!SameBot, Visit!SameFiles, Bots

(* What the state of the worker says of the bot. *)
LEMMA BotOf ==
  \A s \in Sessions : Bots[s] = Whereabouts[worker[s]] /\ Bots'[s] = Whereabouts[worker'[s]]
  BY DEF Bots

(* A step in the life of one bot. *)
LEMMA BotSteps ==
  ASSUME TypeOK, NEW s \in Sessions, NEW w, worker' = [worker EXCEPT ![s] = w],
         UNCHANGED transcript,
         \/ UNCHANGED audio /\ worker[s] = "none" /\ w = "joining"
         \/ UNCHANGED audio /\ worker[s] = "joining" /\ w = "ready"
         \/ UNCHANGED audio /\ worker[s] \in Alive /\ w = "exited"
         \/ UNCHANGED audio /\ worker[s] = "ready" /\ w \in {"ready", "stopping", "leaving"}
         \/ audio' = [audio EXCEPT ![s] = "present"] /\ worker[s] = "stopping" /\ w \in {"ready", "exited"}
  PROVE  Visit!Next
  <1>1. worker'[s] = w /\ \A t \in Sessions \ {s} : worker'[t] = worker[t]
    BY DEF TypeOK, ProcessTypes
  <1>2. \A t \in Sessions \ {s} : Visit!SameBot(t) /\ Visit!SameFiles(t)
    BY <1>1, BotOf DEF Visit!SameBot, Visit!SameFiles, TypeOK, FileTypes
  <1>3. Visit!Step(s) \/ (Visit!SameBot(s) /\ Visit!SameFiles(s))
    BY <1>1, BotOf
    DEF Visit!Step, Visit!Come, Visit!Enter, Visit!Go, Visit!Save, Visit!SameBot, Visit!SameFiles,
        Whereabouts, Alive, TypeOK, FileTypes
  <1> QED BY <1>2, <1>3 DEF Visit!Next

(* Files are deleted, of bots that stay where they are. *)
LEMMA Discards ==
  ASSUME UNCHANGED <<worker, transcript>>,
         \A s \in Sessions : audio'[s] = audio[s] \/ (audio[s] = "present" /\ audio'[s] = "deleted")
  PROVE  Visit!Next
  BY DEF Visit!Next, Visit!Step, Visit!Discard, Visit!SameBot, Visit!SameFiles, Bots

(* Every bot that is anywhere is gone, and may have saved its file. *)
LEMMA Killed ==
  ASSUME TypeOK, NEW w \in SUBSET Sessions, \A s \in w : worker[s] = "stopping",
         audio' = [s \in Sessions |-> IF s \in w THEN "present" ELSE audio[s]],
         \A s \in Sessions : \/ worker'[s] = worker[s] /\ s \notin w
                             \/ worker[s] \in Alive /\ worker'[s] = "exited",
         UNCHANGED transcript
  PROVE  Visit!Next
  BY BotOf
  DEF Visit!Next, Visit!Step, Visit!Go, Visit!Save, Visit!SameBot, Visit!SameFiles,
      Whereabouts, Alive, TypeOK, FileTypes

(* A transcript is written. *)
LEMMA Transcribes ==
  ASSUME TypeOK, WritesFromAudio, transcriber.pc = "writing", UNCHANGED <<worker, audio>>,
         transcript' = [transcript EXCEPT ![transcriber.sid] = TRUE]
  PROVE  Visit!Next
  <1>1. transcriber.sid \in Sessions /\ audio[transcriber.sid] # "none"
    BY Working DEF WritesFromAudio
  <1> QED BY <1>1 DEF Visit!Next, Visit!Step, Visit!Transcribe, Visit!SameBot, Visit!SameFiles, Bots,
                      TypeOK, FileTypes

(* The gateway's coroutines. *)
LEMMA GatewayRefines ==
  ASSUME TypeOK, VisitInv,
         \/ \E p \in Slots, s \in Sessions : Request(p, s)
         \/ \E p \in Procs : Resume(p)
         \/ \E s \in Sessions : FireJoin(s)
         \/ ListenerStep \/ ListenerFail \/ FollowupStep \/ Sweep
  PROVE  Visit!Next
  <1>1. ASSUME NEW p \in Slots, NEW s \in Sessions, Request(p, s)
        PROVE  Visit!Next
    <2>1. CASE RequestDelete(p, s)
      BY <2>1, Discards DEF RequestDelete, Unlink, workerVars, TypeOK, FileTypes
    <2>2. CASE ~RequestDelete(p, s)
      BY <1>1, <2>2, Stutters
      DEF Request, CreateCheck, RequestTransition, RequestSend, RequestCancel, RequestRetain,
          workerVars, fileVars
    <2> QED BY <2>1, <2>2
  <1>2. ASSUME NEW p \in Procs, Resume(p)
        PROVE  Visit!Next
    <2>1. CASE Spawn(p)
      <3>1. frame[p].sid \in Sessions /\ worker[frame[p].sid] = "none"
        BY <2>1, Holding, SpawnVisits DEF Spawn, At
      <3>2. worker' = [worker EXCEPT ![frame[p].sid] = "joining"] /\ UNCHANGED <<audio, transcript>>
        BY <2>1, <3>1 DEF Spawn, Alive, fileVars
      <3> QED BY <3>1, <3>2, BotSteps
    <2>2. CASE Reap(p)
      <3>1. frame[p].sid \in Sessions /\ UNCHANGED <<audio, transcript>>
        BY <2>2, Holding DEF Reap, At, fileVars
      <3>2. CASE worker[frame[p].sid] \in Alive
        BY <2>2, <3>1, <3>2, BotSteps DEF Reap
      <3>3. CASE worker[frame[p].sid] \notin Alive
        <4>1. UNCHANGED worker
          BY <2>2, <3>1, <3>3 DEF Reap, TypeOK, ProcessTypes
        <4> QED BY <3>1, <4>1, Stutters
      <3> QED BY <3>2, <3>3
    <2>3. CASE ~Spawn(p) /\ ~Reap(p)
      BY <1>2, <2>3, Stutters
      DEF Resume, CreateInsert, CreateArm, Publish, Lookup, Timeout, ExpireCommit, Reload,
          CommitTransition, PublishJob, workerVars, fileVars
    <2> QED BY <2>1, <2>2, <2>3
  <1>3. ASSUME NEW s \in Sessions, FireJoin(s)
        PROVE  Visit!Next
    BY <1>3, Stutters DEF FireJoin, workerVars, fileVars
  <1>4. CASE ListenerStep \/ ListenerFail
    BY <1>4, Stutters
    DEF ListenerStep, ListenerReact, ListenerSignal, ListenerIgnore, ListenerFail, workerVars, fileVars
  <1>5. CASE FollowupSelect
    BY <1>5, Stutters DEF FollowupSelect, workerVars, fileVars
  <1>6. ASSUME NEW s \in Sessions, FollowupResolve(s)
        PROVE  Visit!Next
    BY <1>6, Discards DEF FollowupResolve, Unlink, workerVars, TypeOK, FileTypes
  <1>7. CASE Sweep
    BY <1>7, Discards DEF Sweep, workerVars
  <1> QED BY <1>1, <1>2, <1>3, <1>4, <1>5, <1>6, <1>7 DEF FollowupStep

(* The two other kinds of process, and the faults. *)
LEMMA ProcessesRefine ==
  ASSUME TypeOK, WritesFromAudio,
         \/ TranscriberStep \/ TranscriberCrash \/ GatewayRestart
         \/ \E s \in Sessions : WorkerStep(s) \/ WorkerCrash(s)
         \/ \E s \in Sessions, ev \in ProviderEvents : Watch(s, ev)
  PROVE  Visit!Next
  <1>1. ASSUME NEW s \in Sessions, WorkerStep(s)
        PROVE  Visit!Next
    <2>1. CASE TakeCommand(s)
      <3>1. UNCHANGED <<audio, transcript>>
        BY <2>1 DEF TakeCommand, fileVars
      <3> QED BY <2>1, <3>1, TakesCommand, BotSteps
    <2>2. CASE StopCapture(s)
      BY <2>2, BotSteps DEF StopCapture, Finalize, Become
    <2>3. CASE Join(s)
      BY <2>3, BotSteps DEF Join, Become, fileVars
    <2>4. CASE JoinFail(s) \/ Leave(s)
      BY <2>4, BotSteps DEF JoinFail, Leave, Become, fileVars, Alive
    <2> QED BY <1>1, <2>1, <2>2, <2>3, <2>4 DEF WorkerStep
  <1>2. ASSUME NEW s \in Sessions, WorkerCrash(s)
        PROVE  Visit!Next
    <2>1. PICK w \in Written({s}) :
            audio' = [t \in Sessions |-> IF t \in w THEN "present" ELSE audio[t]]
      BY <1>2 DEF WorkerCrash
    <2>2. /\ worker[s] \in Alive /\ worker'[s] = "exited" /\ UNCHANGED transcript
          /\ \A t \in Sessions \ {s} : worker'[t] = worker[t]
      BY <1>2 DEF WorkerCrash, Become, TypeOK, ProcessTypes
    <2> QED BY <2>1, <2>2, Killed DEF Written
  <1>3. CASE GatewayRestart
    <2>1. PICK spared \in SUBSET Sessions :
            /\ \E w \in Written(Sessions \ spared) :
                 audio' = [s \in Sessions |-> IF s \in w THEN "present" ELSE audio[s]]
            /\ worker' = [s \in Sessions |-> IF s \notin spared /\ worker[s] \in Alive
                                               THEN "exited" ELSE worker[s]]
      BY <1>3 DEF GatewayRestart
    <2>2. PICK w \in Written(Sessions \ spared) :
            audio' = [s \in Sessions |-> IF s \in w THEN "present" ELSE audio[s]]
      BY <2>1
    <2>3. /\ UNCHANGED transcript
          /\ \A s \in Sessions : worker'[s] = IF s \notin spared /\ worker[s] \in Alive
                                                THEN "exited" ELSE worker[s]
      BY <1>3, <2>1 DEF GatewayRestart
    <2> QED BY <2>2, <2>3, Killed DEF Written, Alive
  <1>4. CASE WriteTranscript
    BY <1>4, Transcribes DEF WriteTranscript, workerVars
  <1>5. CASE TranscriberCrash
    BY <1>5, Transcribes, Stutters DEF TranscriberCrash, workerVars
  <1>6. CASE TakeJob \/ StartJob \/ LoadAudio \/ TranscriptionFail
    BY <1>6, Stutters DEF TakeJob, StartJob, LoadAudio, TranscriptionFail, workerVars, fileVars
  <1>7. ASSUME NEW s \in Sessions, NEW ev \in ProviderEvents, Watch(s, ev)
        PROVE  Visit!Next
    BY <1>7, Stutters DEF Watch, fileVars
  <1> QED BY <1>1, <1>2, <1>3, <1>4, <1>5, <1>6, <1>7 DEF TranscriberStep

(* Every step of the recorder is a step of the visits, or none. *)
LEMMA StepRefines ==
  ASSUME TypeOK, VisitInv, WritesFromAudio, [Next]_vars
  PROVE  [Visit!Next]_<<Bots, audio, transcript>>
  <1>1. CASE Next
    BY <1>1, GatewayRefines, ProcessesRefine DEF Next, Fault
  <1>2. CASE UNCHANGED vars
    BY <1>2, Stutters DEF vars, workerVars, fileVars
  <1> QED BY <1>1, <1>2

(* No visit takes back a file that has been written, so the transcriber keeps
   what it needs. *)
LEMMA StepWritesFromAudio ==
  ASSUME TypeOK, WritesFromAudio, [Next]_vars, [Visit!Next]_<<Bots, audio, transcript>>
  PROVE  WritesFromAudio'
  <1>1. \A s \in Sessions : audio[s] # "none" => audio'[s] # "none"
    BY DEF Visit!Next, Visit!Step, Visit!Come, Visit!Enter, Visit!Save, Visit!Go, Visit!Discard,
           Visit!Transcribe, Visit!SameBot, Visit!SameFiles
  <1>2. CASE UNCHANGED transcriber
    BY <1>1, <1>2, Working DEF WritesFromAudio
  <1>3. CASE transcriber' # transcriber
    <2>1. TranscriberStep \/ TranscriberCrash
      BY <1>3 DEF Next, vars, Request, CreateCheck, RequestTransition, RequestSend, RequestCancel,
           RequestDelete, RequestRetain, Resume, CreateInsert, CreateArm, Publish, Lookup, Timeout, Reap,
           ExpireCommit, Reload, CommitTransition, PublishJob, Spawn, ListenerStep, ListenerReact,
           ListenerSignal, ListenerIgnore, FireJoin, FollowupStep, FollowupSelect, FollowupResolve,
           Sweep, WorkerStep, Join, JoinFail, TakeCommand, StopCapture, Leave, Watch, Fault,
           GatewayRestart, ListenerFail, WorkerCrash
    <2>2. CASE LoadAudio
      BY <2>2, Working DEF LoadAudio, WritesFromAudio, Job, fileVars
    <2>3. CASE ~LoadAudio
      BY <2>1, <2>3
      DEF TranscriberStep, TakeJob, StartJob, WriteTranscript, TranscriptionFail, TranscriberCrash,
          WritesFromAudio, Job, NoJob
    <2> QED BY <2>2, <2>3
  <1> QED BY <1>2, <1>3

(* An empty recorder has no visits. *)
LEMMA InitRefines == Init => Visit!Init /\ WritesFromAudio
  BY DEF Init, Visit!Init, WritesFromAudio, Bots, Whereabouts, NoJob, Job

(* One visit per session, one capture of it, one transcript from it: Recorder
   implements Recording. *)
THEOREM VisitsOnce == Spec => OneVisit
  BY InitTypes, StepTypes, InitVisits, StepVisits, InitRefines, StepRefines, StepWritesFromAudio, PTL
  DEF Spec, OneVisit, Visit!Spec
=============================================================================
