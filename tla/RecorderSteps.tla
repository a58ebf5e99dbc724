---------------------------- MODULE RecorderSteps ----------------------------
(***************************************************************************)
(* What a step of Recorder, whichever it is, can do to each part of the    *)
(* state: where a coroutine goes from where it is and on what grounds, and *)
(* who may change a row, a file, a stream or a process.  An invariant that *)
(* follows from these facts needs no case for each action; the actions are *)
(* gone through here, once.                                                *)
(***************************************************************************)
EXTENDS RecorderTypes

(* The listener is about to take event ev of session s. *)
Hears(ev, s) == events # <<>> /\ Head(events) = [sid |-> s, ev |-> ev]

(* Who may begin what: a request, the join job of the session, the listener if
   the event it hears calls for it, the followup with a row it has selected. *)
RequestActs ==
  Mode \cup Handshake \cup {"none", "decline_leave", "confirm_transcribe", "decline_transcribe",
                            "cancel", "delete_audio", "retain_audio"}
Entitled(p, g) ==
  \/ p \in Slots /\ g.act \in RequestActs /\ g.pc \in {"insert", "publish", "commit", "expire"}
  \/ p \in armed /\ g = Frame("commit", "start_join", p)
  \/ p = Listener /\ g.pc = "commit"
       /\ \E ev \in Event : Hears(ev, g.sid) /\ g.act \in Wanted(ev, status[g.sid])
  \/ p = Followup /\ g.sid \in overdue /\ g.pc \in {"commit", "expire"}
       /\ g.act \in {"delete_audio", "retain_audio"}

(* The grounds on which coroutine p takes up frame g of a session it did not
   work on before: the row as it reads it, a keyboard, or the selection of the
   followup. *)
Begins(p, g) ==
  LET s == g.sid
  IN /\ Entitled(p, g)
     /\ \/ g.pc = "insert" /\ g.act \in CreateModes /\ status[s] = "absent"
        \/ g.pc = "publish" /\ g.act \in Handshake /\ Applies(status[s], g.act)
        \/ /\ g.pc = "commit" /\ g.act \in Action \ ({"schedule"} \cup Handshake)
           /\ Applies(status[s], g.act)
           /\ g.act = "transcript_ready" => p = Listener /\ Hears("transcript_ready", s)
           /\ g.act = "delete_audio" => audio'[s] # "present"
        \/ p = Listener /\ g = Frame("commit", "leave", s) /\ status[s] = "in_call"
             /\ Hears("meeting_ended", s)
        \/ g = Frame("expire", "none", s) /\ s \in Deletable
        \/ g = Frame("expire", "retain_audio", s) /\ Applies(status[s], "retain_audio")
        \/ p = Followup /\ g = Frame("expire", "retain_audio", s) /\ s \in overdue
        \/ p = Followup /\ g = Frame("commit", "delete_audio", s) /\ s \in overdue
             /\ audio'[s] # "present"

(* How a coroutine goes on from f to g with the session it works on. *)
Continues(f, g) ==
  LET s == f.sid
  IN \/ f.pc = "insert" /\ f.act = "now" /\ g = Frame("commit", "start_join", s)
          /\ status'[s] = "queued"
     \/ f.pc = "insert" /\ f.act # "now" /\ g = Frame("arm", f.act, s)
     \/ /\ f.pc \in {"publish", "lookup", "await"} /\ f.act \in Handshake
        /\ \/ g \in {Frame("lookup", f.act, s), Frame("await", f.act, s), Frame("orphan", f.act, s)}
           \/ f.act = "leave" /\ g = Frame("reap", "leave", s)
           \/ f.act = "stop_recording" /\ g = Frame("commit", "stop_recording", s)
     \/ f.pc = "reap" /\ g = Frame("commit", "leave", s) /\ worker'[s] \notin Alive
     \/ f.pc = "expire" /\ g = Frame("reload", "retain_audio", s)
     \/ f.pc = "expire" /\ f.act = "retain_audio" /\ g = Frame("commit", "retain_audio", s)
     \/ f.pc = "reload" /\ g = Frame("commit", f.act, s) /\ Applies(status[s], f.act)
     \/ f.pc = "commit" /\ f.act = "start_join" /\ g = Frame("spawn", "start_join", s)
          /\ status'[s] = "joining"
     \/ f.pc = "commit" /\ f.act = "confirm_transcribe"
          /\ g = Frame("publish_job", "confirm_transcribe", s)
          /\ status'[s] = "transcription_queued"
     \/ f.pc = "commit" /\ f.act = "transcript_ready"
          /\ g = Frame("reload", "await_audio_disposal", s)

Resting == {IdleFrame, LoopFrame, EndedFrame}
Turn(p, f, g) ==
  g = f \/ g \in Resting \/ (g.sid \in Sessions /\ (Begins(p, g) \/ Continues(f, g)))

(* What a coroutine has done when it is where it was no more: who was about to
   arm a job, or to commit, has, unless its handler failed or the gateway has
   restarted. *)
Departs(p, f) ==
  \/ UNCHANGED status /\ Restored \subseteq armed'
  \/ /\ f.pc = "arm" /\ f.act = "future" => f.sid \in armed'
     /\ f.pc = "commit" /\ p # Listener => status'[f.sid] = To(f.act)

FrameMoves ==
  \A p \in Procs : /\ Turn(p, frame[p], frame'[p])
                   /\ frame'[p] = frame[p] \/ Departs(p, frame[p])

(* A row is inserted, moved by a commit, given an expiry, or marked; whoever
   moves it is the only one to go on. *)
OnlyMoves(p) == \A q \in Procs \ {p} : frame'[q] = frame[q]

Inserts(p, s) ==
  /\ At(p, "insert")
  /\ \/ frame[p].act = "now" /\ status'[s] = "queued"
          /\ frame'[p] = Frame("commit", "start_join", s)
     \/ frame[p].act # "now" /\ status'[s] = "scheduled"
          /\ frame'[p] = Frame("arm", frame[p].act, s)

CommitsFor(p, s) ==
  /\ At(p, "commit") /\ status'[s] = To(frame[p].act)
  /\ frame'[p] = Continue(p, frame[p].act, s)
  /\ status'[s] = "pending_audio_disposal" => s \in offered'

StatusMoves ==
  \A s \in Sessions :
    \/ status'[s] = status[s]
    \/ \E p \in Procs : frame[p].sid = s /\ OnlyMoves(p) /\ (Inserts(p, s) \/ CommitsFor(p, s))

ExpiryMoves ==
  \A s \in Sessions : \/ expires'[s] = expires[s]
                      \/ \E p \in Procs : At(p, "expire") /\ frame[p].sid = s

DeletionMoves ==
  \A s \in Sessions :
    \/ deletedAt'[s] = deletedAt[s]
    \/ \E p \in Procs : frame[p] = Frame("commit", "delete_audio", s) /\ audio'[s] = audio[s]
    \/ expires[s] /\ audio'[s] # "present"

RowMoves == StatusMoves /\ ExpiryMoves /\ DeletionMoves

(* A file is written by the worker that was told to stop, or by the
   transcriber; only the audio is ever removed. *)
FileMoves ==
  \A s \in Sessions :
    /\ \/ audio'[s] = audio[s]
       \/ audio[s] = "present" /\ audio'[s] = "deleted"
       \/ worker[s] = "stopping" /\ audio'[s] = "present"
    /\ \/ transcript'[s] = transcript[s]
       \/ transcript'[s] /\ transcriber = Job("writing", s)

(* A join job comes with its session.  It goes when it has fired, when its
   session is being cancelled, or when its session is not scheduled any more;
   and when it is late, if it may be. *)
ArmedMoves ==
  /\ \A s \in armed' \ armed :
       status[s] = "scheduled" \/ \E p \in Procs : frame[p] = Frame("arm", "future", s)
  /\ \A s \in armed \ armed' :
       \/ ~Punctual \/ status[s] # "scheduled"
       \/ \E p \in Procs \ {Listener} : \E act \in {"cancel", "start_join"} :
            frame'[p] = Frame("commit", act, s)

OverdueMoves == \A s \in overdue' \ overdue : Pending(s)

OfferMoves ==
  /\ offered \subseteq offered'
  /\ \A s \in offered' \ offered :
       \/ Hears("transcript_ready", s)
       \/ \E p \in Procs : /\ frame[p].sid = s
                           /\ \/ frame[p].act \in {"decline_transcribe", "await_audio_disposal"}
                              \/ At(p, "reload")

(* What is in a stream was there before, or has just been said by somebody who
   had reason to. *)
Said(e) ==
  \/ e.ev \in {"capture_stopped", "left"} \cup ProviderEvents
  \/ worker[e.sid] = "joining"
       /\ \/ e.ev = "recording" /\ worker'[e.sid] = "ready"
          \/ e.ev = "failed" /\ worker'[e.sid] = "exited"
  \/ transcriber # NoJob /\ transcriber.sid = e.sid
       /\ \/ e.ev \in {"transcribing", "transcription_failed"}
          \/ e.ev = "transcript_ready" /\ transcript'[e.sid]

EventMoves ==
  \A i \in DOMAIN events' : Said(events'[i]) \/ \E j \in DOMAIN events : events'[i] = events[j]

JobMoves ==
  \A i \in DOMAIN jobs' :
    \/ \E j \in DOMAIN jobs : jobs'[i] = jobs[j]
    \/ \E p \in Procs : At(p, "publish_job") /\ jobs'[i] = frame[p].sid

(* A process is started, or started again, when its session is spawned. *)
WorkerMoves ==
  \A s \in Sessions :
    /\ worker[s] # "none" => worker'[s] # "none"
    /\ \/ worker'[s] = worker[s]
       \/ worker[s] \in Alive /\ worker'[s] # "joining"
       \/ \E p \in Procs : At(p, "spawn") /\ frame[p].sid = s

TranscriberMoves ==
  \/ transcriber' = NoJob
  \/ transcriber' = transcriber
  \/ transcriber # NoJob /\ transcriber'.sid = transcriber.sid
  \/ jobs # <<>> /\ transcriber'.sid = Head(jobs)

Moves ==
  /\ FrameMoves /\ RowMoves /\ FileMoves
  /\ ArmedMoves /\ OverdueMoves /\ OfferMoves
  /\ EventMoves /\ JobMoves /\ WorkerMoves /\ TranscriberMoves

-----------------------------------------------------------------------------
(* What a step leaves alone moves as it may. *)
LEMMA Still ==
  ASSUME TypeOK
  PROVE  /\ UNCHANGED frame => FrameMoves
         /\ UNCHANGED status => StatusMoves
         /\ UNCHANGED expires => ExpiryMoves
         /\ UNCHANGED deletedAt => DeletionMoves
         /\ UNCHANGED fileVars => FileMoves
         /\ UNCHANGED armed => ArmedMoves
         /\ UNCHANGED overdue => OverdueMoves
         /\ UNCHANGED offered => OfferMoves
         /\ UNCHANGED events => EventMoves
         /\ UNCHANGED jobs => JobMoves
         /\ UNCHANGED worker => WorkerMoves
         /\ UNCHANGED transcriber => TranscriberMoves
  <1>1. UNCHANGED frame => FrameMoves
    BY DEF FrameMoves, Turn
  <1>2. /\ UNCHANGED status => StatusMoves
        /\ UNCHANGED expires => ExpiryMoves
        /\ UNCHANGED deletedAt => DeletionMoves
    BY DEF StatusMoves, ExpiryMoves, DeletionMoves
  <1>3. /\ UNCHANGED fileVars => FileMoves
        /\ UNCHANGED worker => WorkerMoves
        /\ UNCHANGED transcriber => TranscriberMoves
    BY DEF FileMoves, fileVars, WorkerMoves, TranscriberMoves
  <1>4. /\ UNCHANGED armed => ArmedMoves
        /\ UNCHANGED overdue => OverdueMoves
        /\ UNCHANGED offered => OfferMoves
    BY DEF ArmedMoves, OverdueMoves, OfferMoves
  <1>5. /\ UNCHANGED events => EventMoves
        /\ UNCHANGED jobs => JobMoves
    BY DEF EventMoves, JobMoves
  <1> QED BY <1>1, <1>2, <1>3, <1>4, <1>5

(* One coroutine moves. *)
LEMMA Turning ==
  ASSUME TypeOK, NEW p \in Procs, NEW f, Goto(p, f), Turn(p, frame[p], f),
         frame[p].pc \in {"arm", "commit"} => Departs(p, frame[p])
  PROVE  FrameMoves
  <1>1. ASSUME NEW q \in Procs
        PROVE  Turn(q, frame[q], frame'[q]) /\ (frame'[q] = frame[q] \/ Departs(q, frame[q]))
    <2>1. CASE q = p
      <3>1. frame'[q] = f
        BY <2>1 DEF Goto, TypeOK, FrameTypes
      <3> QED BY <2>1, <3>1 DEF Departs
    <2>2. CASE q # p
      <3>1. frame'[q] = frame[q]
        BY <2>2 DEF Goto, TypeOK, FrameTypes
      <3> QED BY <3>1 DEF Turn
    <2> QED BY <2>1, <2>2
  <1> QED BY <1>1 DEF FrameMoves

(* A coroutine that has finished. *)
LEMMA Rests ==
  ASSUME NEW p, NEW f
  PROVE  Turn(p, f, IdleFrame) /\ Turn(p, f, LoopFrame) /\ Turn(p, f, EndedFrame)
  BY DEF Turn, Resting

(* A new request finds its coroutine at rest. *)
LEMMA Beginning ==
  ASSUME TypeOK, NEW p \in Procs, NEW f, Goto(p, f), f.sid \in Sessions, Begins(p, f),
         frame[p].pc \notin {"arm", "commit"}
  PROVE  FrameMoves
  BY Turning DEF Turn

(* A coroutine goes on with its session. *)
LEMMA Continuing ==
  ASSUME TypeOK, NEW p \in Procs, NEW f, Goto(p, f), f.sid \in Sessions, Continues(frame[p], f),
         frame[p].pc \in {"arm", "commit"} => Departs(p, frame[p])
  PROVE  FrameMoves
  BY Turning DEF Turn

-----------------------------------------------------------------------------
(* An entry added to the events. *)
LEMMA Emits ==
  ASSUME TypeOK, NEW s \in Sessions, NEW ev \in Event, Emit(ev, s), Said([sid |-> s, ev |-> ev])
  PROVE  EventMoves
  <1>1. events \in Seq([sid : Sessions, ev : Event])
    BY DEF TypeOK, StreamTypes
  <1>2. /\ events'[Len(events) + 1] = [sid |-> s, ev |-> ev]
        /\ \A i \in 1..Len(events) : events'[i] = events[i]
        /\ DOMAIN events = 1..Len(events)
        /\ DOMAIN events' = 1..(Len(events) + 1)
        /\ Len(events) \in Nat
    BY <1>1 DEF Emit
  <1>3. ASSUME NEW i \in DOMAIN events'
        PROVE  Said(events'[i]) \/ \E j \in DOMAIN events : events'[i] = events[j]
    <2>1. CASE i \in 1..Len(events)
      BY <1>2, <2>1
    <2>2. CASE i = Len(events) + 1
      BY <1>2, <2>2
    <2> QED BY <1>2, <2>1, <2>2
  <1> QED BY <1>3 DEF EventMoves

(* Entries taken from the front of a stream. *)
LEMMA Suffix ==
  ASSUME NEW S, NEW q \in Seq(S), NEW n \in Nat, n <= Len(q)
  PROVE  LET r == SubSeq(q, n + 1, Len(q))
         IN  \A i \in DOMAIN r : \E j \in DOMAIN q : r[i] = q[j]
  <1>1. Len(q) \in Nat /\ DOMAIN q = 1..Len(q)
    BY LenProperties
  <1> DEFINE r == SubSeq(q, n + 1, Len(q))
  <1>2. /\ DOMAIN r = 1..(Len(q) - n)
        /\ \A i \in 1..(Len(q) - n) : r[i] = q[i + n]
    BY <1>1
  <1>3. ASSUME NEW i \in DOMAIN r
        PROVE  \E j \in DOMAIN q : r[i] = q[j]
    <2>1. i + n \in DOMAIN q /\ r[i] = q[i + n]
      BY <1>1, <1>2
    <2> QED BY <2>1
  <1> QED BY <1>3

(* One entry taken from it. *)
LEMMA TailEntries ==
  ASSUME NEW S, NEW q \in Seq(S), q # <<>>
  PROVE  \A i \in DOMAIN Tail(q) : \E j \in DOMAIN q : Tail(q)[i] = q[j]
  <1>1. Len(q) \in Nat /\ 1 <= Len(q)
    BY LenProperties
  <1>2. Tail(q) = SubSeq(q, 1 + 1, Len(q))
    BY <1>1
  <1> QED BY <1>1, <1>2, Suffix

(* The listener takes one entry. *)
LEMMA Consumes ==
  ASSUME TypeOK, events # <<>>, Consume
  PROVE  EventMoves
  BY TailEntries DEF TypeOK, StreamTypes, Consume, EventMoves

-----------------------------------------------------------------------------
(* The requests, each judged by the row it reads. *)
LEMMA RequestMoves ==
  ASSUME TypeOK, NEW p \in Slots, NEW s \in Sessions, Request(p, s)
  PROVE  Moves
  <1> USE DEF Moves, RowMoves
  <1>0. /\ p \in Procs \ {Listener}
        /\ \A pc, act : Frame(pc, act, s).sid \in Sessions
    BY ProcTypes, ProcessesAssumption, FrameFields
  <1>1. ASSUME NEW mode \in CreateModes, CreateCheck(p, s, mode)
        PROVE  Moves
    <2>1. Begins(p, Frame("insert", mode, s))
      BY <1>1, FrameFields, SettingsAssumption DEF CreateCheck, Begins, Entitled, RequestActs, Mode
    <2>2. FrameMoves
      BY <1>0, <1>1, <2>1, Beginning DEF CreateCheck, At
    <2> QED BY <1>1, <2>2, Still DEF CreateCheck, rowVars, fileVars, streamVars, workerVars
  <1>2. ASSUME NEW act \in Action, RequestTransition(p, s, act)
        PROVE  Moves
    <2>1. Begins(p, Frame("commit", act, s))
      BY <1>2, FrameFields DEF RequestTransition, Begins, Handshake, Entitled, RequestActs
    <2>2. FrameMoves
      BY <1>0, <1>2, <2>1, Beginning DEF RequestTransition, At
    <2> QED BY <1>2, <2>2, Still DEF RequestTransition, rowVars, fileVars, streamVars, workerVars
  <1>3. ASSUME NEW act \in Action, RequestSend(p, s, act)
        PROVE  Moves
    <2>1. ASSUME NEW q \in Procs
          PROVE  /\ Turn(q, frame[q], frame'[q])
                 /\ frame'[q] = frame[q] \/ Departs(q, frame[q])
      <3>1. CASE q = p
        <4>1. frame'[q] = Frame("publish", act, s) /\ frame[q].pc = "idle"
          BY <1>3, <3>1 DEF RequestSend, At
        <4>2. Begins(q, Frame("publish", act, s))
          BY <1>3, <3>1, FrameFields DEF RequestSend, Begins, Entitled, RequestActs
        <4> QED BY <1>0, <4>1, <4>2 DEF Turn, Departs
      <3>2. CASE frame[q] = Frame("await", act, s) /\ frame'[q] = Frame("orphan", act, s)
        <4>1. Continues(frame[q], frame'[q]) /\ frame[q].pc = "await"
          BY <1>3, <3>2, FrameFields DEF RequestSend, Continues
        <4> QED BY <1>0, <3>2, <4>1 DEF Turn, Departs
      <3>3. CASE frame'[q] = frame[q]
        BY <3>3 DEF Turn
      <3> QED BY <1>3, <3>1, <3>2, <3>3 DEF RequestSend, Waiting
    <2>2. FrameMoves
      BY <2>1 DEF FrameMoves
    <2> QED BY <1>3, <2>2, Still DEF RequestSend, rowVars, fileVars, streamVars, workerVars
  <1>4. CASE RequestCancel(p, s)
    <2>1. Begins(p, Frame("commit", "cancel", s))
      BY <1>4, FrameFields, Actions DEF RequestCancel, Begins, Handshake, Entitled, RequestActs
    <2>2. FrameMoves
      BY <1>0, <1>4, <2>1, Beginning DEF RequestCancel, At
    <2>3. frame'[p] = Frame("commit", "cancel", s)
      BY <1>0, <1>4 DEF RequestCancel, Goto, TypeOK, FrameTypes
    <2>4. ArmedMoves
      BY <1>0, <1>4, <2>3 DEF RequestCancel, ArmedMoves
    <2> QED BY <1>4, <2>2, <2>4, Still DEF RequestCancel, rowVars, fileVars, streamVars, workerVars
  <1>5. CASE RequestDelete(p, s)
    <2>1. audio'[s] # "present" /\ FileMoves
      BY <1>5 DEF RequestDelete, Unlink, TypeOK, FileTypes, FileMoves
    <2>2. CASE Applies(status[s], "delete_audio")
      <3>1. Begins(p, Frame("commit", "delete_audio", s))
        BY <2>1, <2>2, FrameFields, Actions DEF Begins, Handshake, Entitled, RequestActs
      <3>2. FrameMoves
        BY <1>0, <1>5, <2>2, <3>1, Beginning DEF RequestDelete, At, Goto
      <3> QED BY <1>5, <2>1, <3>2, Still DEF RequestDelete, rowVars, streamVars, workerVars
    <2>3. CASE ~Applies(status[s], "delete_audio")
      <3>1. UNCHANGED frame
        BY <1>0, <1>5, <2>3 DEF RequestDelete, TypeOK, FrameTypes
      <3> QED BY <1>5, <2>1, <3>1, Still DEF RequestDelete, rowVars, streamVars, workerVars
    <2> QED BY <2>2, <2>3
  <1>6. CASE RequestRetain(p, s)
    <2>1. PICK f : Goto(p, f) /\ f = Frame("expire", IF Applies(status[s], "retain_audio")
                                                     THEN "retain_audio" ELSE "none", s)
      BY <1>6 DEF RequestRetain
    <2>2. f.sid \in Sessions /\ Begins(p, f)
      BY <1>6, <2>1, FrameFields DEF Begins, RequestRetain, Entitled, RequestActs
    <2>3. FrameMoves
      BY <1>0, <1>6, <2>1, <2>2, Beginning DEF RequestRetain, At
    <2> QED BY <1>6, <2>3, Still DEF RequestRetain, rowVars, fileVars, streamVars, workerVars
  <1> QED BY <1>1, <1>2, <1>3, <1>4, <1>5, <1>6 DEF Request

-----------------------------------------------------------------------------
(* create_session goes on. *)
LEMMA CreateMoves ==
  ASSUME TypeOK, NEW p \in Procs, CreateInsert(p) \/ CreateArm(p)
  PROVE  Moves
  <1> USE DEF Moves, RowMoves
  <1>1. CASE CreateInsert(p)
    <2>1. PICK s \in Sessions : s = frame[p].sid
      BY <1>1, Holding DEF CreateInsert, At
    <2>2. PICK f : /\ Goto(p, f)
                   /\ f = IF frame[p].act = "now" THEN Frame("commit", "start_join", s)
                                                  ELSE Frame("arm", frame[p].act, s)
      BY <1>1, <2>1 DEF CreateInsert
    <2>3. status'[s] = IF frame[p].act = "now" THEN "queued" ELSE "scheduled"
      BY <1>1, <2>1 DEF CreateInsert, TypeOK, RowTypes
    <2>4. f.sid = s /\ Continues(frame[p], f) /\ frame[p].pc = "insert"
      BY <1>1, <2>1, <2>2, <2>3, FrameFields DEF Continues, CreateInsert, At
    <2>5. FrameMoves
      BY <2>2, <2>4, Continuing
    <2>6. frame'[p] = f
      BY <2>2 DEF Goto, TypeOK, FrameTypes
    <2>7. OnlyMoves(p)
      BY <2>2 DEF OnlyMoves, Goto, TypeOK, FrameTypes
    <2>8. Inserts(p, s)
      BY <2>2, <2>4, <2>6, <2>3 DEF Inserts, At
    <2>9. StatusMoves
      <3>1. \A t \in Sessions \ {s} : status'[t] = status[t]
        BY <1>1, <2>1 DEF CreateInsert, TypeOK, RowTypes
      <3> QED BY <2>1, <2>7, <2>8, <3>1 DEF StatusMoves
    <2> QED BY <1>1, <2>5, <2>9, Still DEF CreateInsert, streamVars, workerVars
  <1>2. CASE CreateArm(p)
    <2>1. frame[p].act = "future" => frame[p].sid \in armed'
      BY <1>2 DEF CreateArm
    <2>2. Departs(p, frame[p])
      BY <1>2, <2>1 DEF Departs, CreateArm, At
    <2>3. FrameMoves
      BY <1>2, <2>2, Turning, Rests DEF CreateArm, Finish
    <2>4. ArmedMoves
      <3>1. frame[p].act = "future" => frame[p] = Frame("arm", "future", frame[p].sid)
        BY <1>2 DEF CreateArm, TypeOK, FrameTypes, Suspended, Frame, IdleFrame, LoopFrame, EndedFrame, At
      <3> QED BY <1>2, <3>1 DEF CreateArm, ArmedMoves
    <2> QED BY <1>2, <2>3, <2>4, Still DEF CreateArm, rowVars, fileVars, streamVars, workerVars
  <1> QED BY <1>1, <1>2

(* The requests that wait for the worker go on. *)
LEMMA HandshakeMoves ==
  ASSUME TypeOK, NEW p \in Procs, Publish(p) \/ Lookup(p) \/ Timeout(p) \/ Reap(p)
  PROVE  Moves
  <1> USE DEF Moves, RowMoves
  <1>1. CASE Publish(p) \/ Lookup(p)
    <2>1. PICK s \in Sessions, act \in Handshake :
            s = frame[p].sid /\ act = frame[p].act /\ frame[p].pc \in {"publish", "lookup"}
      BY <1>1, Holding DEF Publish, Lookup, At
    <2>2. PICK f : /\ Goto(p, f)
                   /\ f \in {Frame("lookup", act, s), Frame("await", act, s), Woken(act, s)}
      BY <1>1, <2>1 DEF Publish, Lookup
    <2>3. f.sid = s /\ Continues(frame[p], f)
      BY <2>1, <2>2, FrameFields DEF Continues, Woken, Handshake
    <2>4. FrameMoves
      BY <2>1, <2>2, <2>3, Continuing
    <2> QED BY <1>1, <2>4, Still DEF Publish, Lookup, rowVars, fileVars, streamVars, workerVars
  <1>2. CASE Timeout(p)
    <2>1. FrameMoves
      BY <1>2, Turning, Rests DEF Timeout, Finish
    <2> QED BY <1>2, <2>1, Still DEF Timeout, rowVars, fileVars, streamVars, workerVars
  <1>3. CASE Reap(p)
    <2>1. PICK s \in Sessions : s = frame[p].sid /\ frame[p].pc = "reap"
      BY <1>3, Holding DEF Reap, At
    <2>2. worker'[s] \notin Alive /\ WorkerMoves
      BY <1>3, <2>1 DEF Reap, WorkerMoves, TypeOK, ProcessTypes, Alive
    <2>3. Continues(frame[p], Frame("commit", "leave", s))
      BY <2>1, <2>2 DEF Continues
    <2>4. FrameMoves
      BY <1>3, <2>1, <2>3, FrameFields, Continuing DEF Reap
    <2> QED BY <1>3, <2>2, <2>4, Still DEF Reap, rowVars, fileVars, streamVars
  <1> QED BY <1>1, <1>2, <1>3

(* The steps around a transition. *)
LEMMA ExpireMoves ==
  ASSUME TypeOK, NEW p \in Procs, ExpireCommit(p)
  PROVE  Moves
  <1> USE DEF Moves, RowMoves
  <1>1. PICK s \in Sessions : /\ s = frame[p].sid /\ frame[p].pc = "expire"
                              /\ frame[p].act \in {"retain_audio", "none"}
    BY Holding DEF ExpireCommit, At
  <1>2. PICK f : /\ Goto(p, f)
                 /\ \/ f = Frame("reload", "retain_audio", s)
                    \/ f = IdleFrame
                    \/ frame[p].act = "retain_audio" /\ f = Frame("commit", "retain_audio", s)
    BY <1>1 DEF ExpireCommit
  <1>3. f = IdleFrame \/ (f.sid = s /\ Continues(frame[p], f))
    BY <1>1, <1>2, FrameFields DEF Continues
  <1>4. FrameMoves
    BY <1>1, <1>2, <1>3, Continuing, Turning, Rests
  <1>5. ExpiryMoves
    BY <1>1 DEF ExpireCommit, ExpiryMoves, At, TypeOK, RowTypes
  <1> QED BY <1>4, <1>5, Still DEF ExpireCommit, fileVars, streamVars, workerVars

(* A refreshed row decides. *)
LEMMA ReloadMoves ==
  ASSUME TypeOK, NEW p \in Procs, Reload(p)
  PROVE  Moves
  <1> USE DEF Moves, RowMoves
  <1>1. PICK s \in Sessions : /\ s = frame[p].sid /\ frame[p].pc = "reload"
                              /\ frame[p].act \in {"retain_audio", "await_audio_disposal"}
    BY Holding DEF Reload, At
  <1>2. PICK f : /\ Goto(p, f)
                 /\ \/ f = IdleFrame
                    \/ f = Frame("commit", frame[p].act, s) /\ Applies(status[s], frame[p].act)
    BY <1>1 DEF Reload
  <1>3. f = IdleFrame \/ (f.sid = s /\ Continues(frame[p], f))
    BY <1>1, <1>2, FrameFields DEF Continues
  <1>4. FrameMoves
    BY <1>1, <1>2, <1>3, Continuing, Turning, Rests
  <1>5. OverdueMoves
    BY DEF Reload, OverdueMoves
  <1>6. OfferMoves
    <2>1. CASE UNCHANGED offered
      BY <2>1, Still
    <2>2. CASE p = Listener /\ offered' = offered \cup {s}
      BY <1>1, <2>2 DEF OfferMoves, At
    <2> QED BY <1>1, <2>1, <2>2 DEF Reload
  <1> QED BY <1>4, <1>5, <1>6, Still DEF Reload, rowVars, fileVars, streamVars, workerVars

(* A commit writes what its coroutine holds. *)
LEMMA CommitMoves ==
  ASSUME TypeOK, NEW p \in Procs, CommitTransition(p)
  PROVE  Moves
  <1> USE DEF Moves, RowMoves
  <1>1. PICK s \in Sessions, act \in Action :
          s = frame[p].sid /\ act = frame[p].act /\ frame[p].pc = "commit"
    BY Holding DEF CommitTransition, At
  <1>2. /\ status' = [status EXCEPT ![s] = To(act)]
        /\ deletedAt' = [deletedAt EXCEPT ![s] = @ \/ act = "delete_audio"]
        /\ offered' = IF act \in {"decline_transcribe", "await_audio_disposal"}
                        THEN offered \cup {s} ELSE offered
        /\ UNCHANGED audio
    BY <1>1 DEF CommitTransition, fileVars
  <1>3. PICK f : f = Continue(p, act, s) /\ Goto(p, f)
    BY <1>1 DEF CommitTransition
  <1>4. status'[s] = To(frame[p].act)
    BY <1>1, <1>2 DEF TypeOK, RowTypes
  <1>5. f \in Resting \/ (f.sid = s /\ Continues(frame[p], f))
    BY <1>1, <1>3, <1>4, FrameFields, Actions, Targets DEF Continues, Continue, Rest, Resting
  <1>6. Departs(p, frame[p])
    BY <1>1, <1>4 DEF Departs
  <1>7. FrameMoves
    BY <1>3, <1>5, <1>6, <1>1, Continuing, Turning, Rests DEF Resting
  <1>8. StatusMoves
    <2>1. To(act) = "pending_audio_disposal" => s \in offered'
      BY <1>2, Actions, Targets
    <2>2. \A t \in Sessions \ {s} : status'[t] = status[t]
      BY <1>2 DEF TypeOK, RowTypes
    <2>3. OnlyMoves(p) /\ frame'[p] = f
      BY <1>3 DEF OnlyMoves, Goto, TypeOK, FrameTypes
    <2>4. CommitsFor(p, s)
      BY <1>1, <1>3, <1>4, <2>1, <2>3 DEF CommitsFor, At
    <2> QED BY <1>1, <2>2, <2>3, <2>4 DEF StatusMoves
  <1>9. DeletionMoves
    <2>1. frame[p] = Frame("commit", act, s)
      <3>1. frame[p] \in [pc : {"commit"}, act : Action, sid : Sessions]
        BY <1>1 DEF TypeOK, FrameTypes, Suspended, Frame, IdleFrame, LoopFrame, EndedFrame
      <3> QED BY <1>1, <3>1 DEF Frame
    <2>2. \A t \in Sessions \ {s} : deletedAt'[t] = deletedAt[t]
      BY <1>2 DEF TypeOK, RowTypes
    <2>3. act # "delete_audio" => deletedAt'[s] = deletedAt[s]
      BY <1>2 DEF TypeOK, RowTypes
    <2> QED BY <1>2, <2>1, <2>2, <2>3 DEF DeletionMoves
  <1>10. OfferMoves
    BY <1>1, <1>2 DEF OfferMoves
  <1> QED BY <1>7, <1>8, <1>9, <1>10, Still DEF CommitTransition, streamVars, workerVars

(* What follows a commit. *)
LEMMA EffectMoves ==
  ASSUME TypeOK, NEW p \in Procs, PublishJob(p) \/ Spawn(p)
  PROVE  Moves
  <1> USE DEF Moves, RowMoves
  <1>1. CASE PublishJob(p)
    <2>1. PICK s \in Sessions : s = frame[p].sid
      BY <1>1, Holding DEF PublishJob, At
    <2>2. JobMoves
      <3>1. CASE UNCHANGED jobs
        BY <3>1, Still
      <3>2. CASE jobs' = Append(jobs, s)
        <4>1. jobs \in Seq(Sessions)
          BY DEF TypeOK, StreamTypes
        <4>2. /\ jobs'[Len(jobs) + 1] = s
              /\ \A i \in 1..Len(jobs) : jobs'[i] = jobs[i]
              /\ DOMAIN jobs = 1..Len(jobs)
              /\ DOMAIN jobs' = 1..(Len(jobs) + 1)
              /\ Len(jobs) \in Nat
          BY <3>2, <4>1
        <4>3. \A i \in DOMAIN jobs' : i \in DOMAIN jobs \/ i = Len(jobs) + 1
          BY <4>2
        <4> QED BY <1>1, <2>1, <4>2, <4>3 DEF JobMoves, PublishJob
      <3> QED BY <1>1, <2>1, <3>1, <3>2 DEF PublishJob
    <2>3. FrameMoves
      BY <1>1, Turning, Rests DEF PublishJob, Finish, At
    <2> QED BY <1>1, <2>2, <2>3, Still DEF PublishJob, rowVars, fileVars, workerVars
  <1>2. CASE Spawn(p)
    <2>1. PICK s \in Sessions : s = frame[p].sid /\ frame[p].pc = "spawn"
      BY <1>2, Holding DEF Spawn, At
    <2>2. ASSUME NEW q \in Procs
          PROVE  /\ Turn(q, frame[q], frame'[q])
                 /\ frame'[q] = frame[q] \/ Departs(q, frame[q])
      <3>1. CASE q = p
        <4>1. frame'[q] = IdleFrame
          BY <1>2, <3>1 DEF Spawn
        <4> QED BY <2>1, <3>1, <4>1, Rests DEF Departs
      <3>2. CASE At(q, "await") /\ frame'[q] = [frame[q] EXCEPT !.pc = "orphan"]
        <4>1. frame[q] \in [pc : {"await"}, act : Handshake, sid : Sessions]
          BY <3>2 DEF TypeOK, FrameTypes, Suspended, At, Frame, IdleFrame, LoopFrame, EndedFrame
        <4>2. /\ frame'[q] = Frame("orphan", frame[q].act, frame[q].sid)
              /\ frame[q].pc = "await" /\ frame[q].act \in Handshake /\ frame[q].sid \in Sessions
          BY <3>2, <4>1 DEF Frame
        <4>3. frame'[q].sid \in Sessions /\ Continues(frame[q], frame'[q])
          BY <4>2, FrameFields DEF Continues
        <4> QED BY <4>2, <4>3 DEF Turn, Departs
      <3>3. CASE frame'[q] = frame[q]
        BY <3>3 DEF Turn
      <3> QED BY <1>2, <3>1, <3>2, <3>3 DEF Spawn
    <2>3. FrameMoves
      BY <2>2 DEF FrameMoves
    <2>4. WorkerMoves
      BY <1>2, <2>1 DEF Spawn, WorkerMoves, TypeOK, ProcessTypes
    <2> QED BY <1>2, <2>3, <2>4, Still DEF Spawn, rowVars, fileVars, streamVars
  <1> QED BY <1>1, <1>2

(* Every resumed coroutine. *)
LEMMA ResumeMoves ==
  ASSUME TypeOK, NEW p \in Procs, Resume(p)
  PROVE  Moves
  BY CreateMoves, HandshakeMoves, ExpireMoves, ReloadMoves, CommitMoves, EffectMoves DEF Resume

-----------------------------------------------------------------------------
(* What the listener has in front of it. *)
LEMMA Hearing ==
  ASSUME TypeOK, events # <<>>
  PROVE  /\ Head(events).sid \in Sessions /\ Head(events).ev \in Event
         /\ Hears(Head(events).ev, Head(events).sid)
  BY HeadTypes DEF Hears

(* The listener takes an event. *)
LEMMA ListenerMoves ==
  ASSUME TypeOK, ListenerStep \/ ListenerFail
  PROVE  Moves
  <1> USE DEF Moves, RowMoves
  <1>1. CASE ListenerReact
    <2>1. PICK s \in Sessions, ev \in Event : /\ s = Head(events).sid /\ ev = Head(events).ev
                                              /\ events # <<>> /\ Hears(ev, s)
      BY <1>1, Hearing DEF ListenerReact
    <2>2. PICK act \in Action : /\ act \in Wanted(ev, status[s]) /\ Applies(status[s], act)
                                /\ Goto(Listener, Frame("commit", act, s))
      BY <1>1, <2>1 DEF ListenerReact, Reaction, Wanted
    <2>3. \/ act \in Action \ (Handshake \cup {"delete_audio", "schedule"})
             /\ (act = "transcript_ready" => ev = "transcript_ready")
          \/ act = "leave" /\ ev = "meeting_ended" /\ status[s] = "in_call"
      BY <2>2 DEF Wanted, Handshake
    <2>4. Begins(Listener, Frame("commit", act, s))
      <3>1. Entitled(Listener, Frame("commit", act, s))
        BY <2>1, <2>2, FrameFields DEF Entitled
      <3> QED BY <2>1, <2>2, <2>3, <3>1, FrameFields DEF Begins
    <2>5. FrameMoves
      BY <1>1, <2>2, <2>4, FrameFields, ProcTypes, Beginning DEF ListenerReact, At
    <2> QED BY <1>1, <2>5, Consumes, Still DEF ListenerReact, rowVars, fileVars, workerVars
  <1>2. CASE ListenerSignal
    <2>1. PICK s \in Sessions, act \in Handshake :
            \A q \in Procs : \/ frame'[q] = frame[q]
                             \/ frame[q] = Frame("await", act, s) /\ frame'[q] = Woken(act, s)
      BY <1>2, Hearing, FrameFields DEF ListenerSignal, Waiting, Handshake
    <2>2. ASSUME NEW q \in Procs
          PROVE  /\ Turn(q, frame[q], frame'[q])
                 /\ frame'[q] = frame[q] \/ Departs(q, frame[q])
      <3>1. CASE frame'[q] = frame[q]
        BY <3>1 DEF Turn
      <3>2. CASE frame[q] = Frame("await", act, s) /\ frame'[q] = Woken(act, s)
        <4>1. Continues(frame[q], frame'[q]) /\ frame'[q].sid \in Sessions /\ frame[q].pc = "await"
          BY <3>2, FrameFields DEF Continues, Woken, Handshake
        <4> QED BY <4>1 DEF Turn, Departs
      <3> QED BY <2>1, <3>1, <3>2
    <2>3. FrameMoves
      BY <2>2 DEF FrameMoves
    <2> QED BY <1>2, <2>3, Consumes, Still DEF ListenerSignal, rowVars, fileVars, workerVars
  <1>3. CASE ListenerIgnore
    <2>1. OfferMoves
      BY <1>3, Hearing DEF ListenerIgnore, OfferMoves
    <2> QED BY <1>3, <2>1, Consumes, Still DEF ListenerIgnore, rowVars, fileVars, workerVars
  <1>4. CASE ListenerFail
    <2>1. EventMoves
      BY <1>4, Consumes, Still DEF ListenerFail
    <2>2. CASE UNCHANGED frame
      BY <1>4, <2>1, <2>2, Still DEF ListenerFail, rowVars, fileVars, workerVars
    <2>3. CASE \/ Finish(Listener) /\ frame[Listener].pc \in {"commit", "reload"}
               \/ Goto(Listener, EndedFrame) /\ frame[Listener].pc \in {"idle", "commit", "reload"}
      <3>1. frame[Listener].pc # "arm"
        BY <2>3
      <3>2. FrameMoves
        BY <2>3, <3>1, ProcTypes, Turning, Rests DEF Finish, Departs
      <3> QED BY <1>4, <2>1, <3>2, Still DEF ListenerFail, rowVars, fileVars, workerVars
    <2> QED BY <1>4, <2>2, <2>3 DEF ListenerFail
  <1> QED BY <1>1, <1>2, <1>3, <1>4 DEF ListenerStep

-----------------------------------------------------------------------------
(* The scheduler's jobs. *)
LEMMA JobsMove ==
  ASSUME TypeOK, \/ \E s \in Sessions : FireJoin(s)
                 \/ FollowupStep \/ Sweep
  PROVE  Moves
  <1> USE DEF Moves, RowMoves
  <1>1. ASSUME NEW s \in Sessions, FireJoin(s)
        PROVE  Moves
    <2>1. s \in Procs \ {Listener}
      BY ProcTypes, ProcessesAssumption
    <2>2. CASE Joinable(s) /\ frame' = [frame EXCEPT ![s] = Frame("commit", "start_join", s)]
      <3>1. Goto(s, Frame("commit", "start_join", s)) /\ frame'[s] = Frame("commit", "start_join", s)
        BY <1>1, <2>1, <2>2 DEF FireJoin, Goto, TypeOK, FrameTypes
      <3>2. Begins(s, Frame("commit", "start_join", s))
        BY <1>1, <2>2, FrameFields, Actions
           DEF FireJoin, Begins, Entitled, Joinable, Applies, Transitions, Handshake
      <3>3. FrameMoves
        BY <1>1, <2>1, <3>1, <3>2, FrameFields, Beginning DEF FireJoin, At
      <3>4. ArmedMoves
        BY <1>1, <2>1, <3>1 DEF FireJoin, ArmedMoves
      <3> QED BY <1>1, <3>3, <3>4, Still DEF FireJoin, rowVars, fileVars, streamVars, workerVars
    <2>3. CASE UNCHANGED frame /\ (~Joinable(s) \/ ~Punctual)
      <3>1. UNCHANGED frame
        BY <2>3
      <3>2. ArmedMoves
        BY <1>1, <2>3 DEF FireJoin, ArmedMoves, Joinable
      <3> QED BY <1>1, <3>1, <3>2, Still DEF FireJoin, rowVars, fileVars, streamVars, workerVars
    <2>4. CASE ~Joinable(s) /\ frame' = [frame EXCEPT ![s] = frame[s]]
      BY <2>1, <2>3, <2>4 DEF TypeOK, FrameTypes
    <2> QED BY <1>1, <2>2, <2>3, <2>4 DEF FireJoin
  <1>2. CASE FollowupSelect
    <2>1. FrameMoves
      BY <1>2, ProcTypes, Turning, Rests DEF FollowupSelect, At
    <2>2. OverdueMoves
      BY <1>2 DEF FollowupSelect, OverdueMoves
    <2> QED BY <1>2, <2>1, <2>2, Still DEF FollowupSelect, rowVars, fileVars, streamVars, workerVars
  <1>3. ASSUME NEW s \in Sessions, FollowupResolve(s)
        PROVE  Moves
    <2>1. PICK f : /\ Goto(Followup, f)
                   /\ \/ f = Frame("commit", "delete_audio", s) /\ audio'[s] # "present"
                      \/ f = Frame("expire", "retain_audio", s)
      BY <1>3 DEF FollowupResolve, Unlink, TypeOK, FileTypes
    <2>2. f.sid \in Sessions /\ Begins(Followup, f)
      BY <1>3, <2>1, FrameFields DEF Begins, Entitled, FollowupResolve
    <2>3. FrameMoves
      BY <1>3, <2>1, <2>2, ProcTypes, Beginning DEF FollowupResolve, At
    <2>4. FileMoves
      BY <1>3 DEF FollowupResolve, Unlink, FileMoves, TypeOK, FileTypes
    <2>5. OverdueMoves
      BY <1>3 DEF FollowupResolve, OverdueMoves
    <2> QED BY <1>3, <2>3, <2>4, <2>5, Still DEF FollowupResolve, rowVars, streamVars, workerVars
  <1>4. CASE Sweep
    <2>1. FileMoves
      BY <1>4 DEF Sweep, FileMoves
    <2>2. DeletionMoves
      BY <1>4 DEF Sweep, Expirable, DeletionMoves, TypeOK, RowTypes
    <2> QED BY <1>4, <2>1, <2>2, Still DEF Sweep, gatewayVars, streamVars, workerVars
  <1> QED BY <1>1, <1>2, <1>3, <1>4 DEF FollowupStep

-----------------------------------------------------------------------------
(* The gateway restarts, with its workers. *)
LEMMA RestartMoves ==
  ASSUME TypeOK, GatewayRestart
  PROVE  Moves
  <1>1. FrameMoves
    <2>1. UNCHANGED status /\ armed' = Restored
      BY DEF GatewayRestart, rowVars
    <2>2. \A p \in Procs : frame'[p] = IdleFrame
      BY DEF GatewayRestart
    <2> QED BY <2>1, <2>2, Rests DEF FrameMoves, Departs
  <1>2. FileMoves
    BY DEF GatewayRestart, FileMoves, Written, TypeOK, FileTypes
  <1>3. ArmedMoves
    BY DEF GatewayRestart, ArmedMoves, Restored, TypeOK, SetTypes
  <1>4. OverdueMoves
    BY DEF GatewayRestart, OverdueMoves
  <1>5. EventMoves
    <2>1. PICK n \in 0..10 : n <= Len(events) /\ events' = SubSeq(events, n + 1, Len(events))
      BY DEF GatewayRestart
    <2>2. n \in Nat
      OBVIOUS
    <2>3. events \in Seq([sid : Sessions, ev : Event])
      BY DEF TypeOK, StreamTypes
    <2> QED BY <2>1, <2>2, <2>3, Suffix DEF EventMoves
  <1>6. WorkerMoves
    BY DEF GatewayRestart, WorkerMoves, Alive, TypeOK, ProcessTypes
  <1> QED BY <1>1, <1>2, <1>3, <1>4, <1>5, <1>6, Still
          DEF Moves, RowMoves, GatewayRestart, rowVars

(* A worker process that lives changes to another state, or ends. *)
LEMMA WorkerGoes ==
  ASSUME TypeOK, NEW s \in Sessions, NEW w, w \notin {"none", "joining"}, worker[s] \in Alive,
         worker' = [worker EXCEPT ![s] = w]
  PROVE  WorkerMoves
  BY DEF WorkerMoves, TypeOK, ProcessTypes, Alive

(* The workers, their providers and their ends. *)
LEMMA WorkersMove ==
  ASSUME TypeOK, NEW s \in Sessions,
         \/ WorkerStep(s) \/ WorkerCrash(s)
         \/ \E ev \in ProviderEvents : Watch(s, ev)
  PROVE  Moves
  <1> USE DEF Moves, RowMoves
  <1>1. CASE Join(s) \/ JoinFail(s) \/ Leave(s)
    <2>1. WorkerMoves
      BY <1>1, WorkerGoes DEF Join, JoinFail, Leave, Become, Alive
    <2>2. PICK ev \in {"recording", "failed", "left"} : Emit(ev, s) /\ Said([sid |-> s, ev |-> ev])
      BY <1>1 DEF Join, JoinFail, Leave, Become, Said, TypeOK, ProcessTypes
    <2>3. EventMoves
      BY <2>2, Emits DEF Event
    <2> QED BY <1>1, <2>1, <2>3, Still DEF Join, JoinFail, Leave, rowVars, fileVars, gatewayVars
  <1>2. CASE TakeCommand(s)
    <2>1. worker[s] = "ready" /\ \E w \in {"ready", "stopping", "leaving"} : worker' = [worker EXCEPT ![s] = w]
      BY <1>2, TakesCommand
    <2>2. WorkerMoves
      BY <2>1, WorkerGoes DEF Alive
    <2> QED BY <1>2, <2>2, Still DEF TakeCommand, rowVars, fileVars, gatewayVars
  <1>3. CASE StopCapture(s)
    <2>1. WorkerMoves
      BY <1>3, WorkerGoes DEF StopCapture, Become, Alive
    <2>2. FileMoves
      BY <1>3 DEF StopCapture, Finalize, FileMoves, TypeOK, FileTypes
    <2>3. EventMoves
      BY <1>3, Emits DEF StopCapture, Said, Event
    <2> QED BY <1>3, <2>1, <2>2, <2>3, Still DEF StopCapture, rowVars, gatewayVars
  <1>4. CASE WorkerCrash(s)
    <2>1. WorkerMoves
      BY <1>4, WorkerGoes DEF WorkerCrash, Become
    <2>2. FileMoves
      BY <1>4 DEF WorkerCrash, Written, FileMoves, TypeOK, FileTypes
    <2> QED BY <1>4, <2>1, <2>2, Still DEF WorkerCrash, rowVars, gatewayVars, streamVars
  <1>5. ASSUME NEW ev \in ProviderEvents, Watch(s, ev)
        PROVE  Moves
    <2>1. ev \in Event /\ Said([sid |-> s, ev |-> ev])
      BY SettingsAssumption DEF Said, Event
    <2>2. EventMoves
      BY <1>5, <2>1, Emits DEF Watch
    <2> QED BY <1>5, <2>2, Still DEF Watch, rowVars, fileVars, gatewayVars
  <1> QED BY <1>1, <1>2, <1>3, <1>4, <1>5 DEF WorkerStep

(* The transcriber and its end. *)
LEMMA TranscribersMove ==
  ASSUME TypeOK, TranscriberStep \/ TranscriberCrash
  PROVE  Moves
  <1> USE DEF Moves, RowMoves
  <1>1. CASE TakeJob
    <2>1. JobMoves
      BY <1>1, TailEntries DEF TakeJob, JobMoves, TypeOK, StreamTypes
    <2>2. TranscriberMoves
      BY <1>1 DEF TakeJob, TranscriberMoves, Job
    <2> QED BY <1>1, <2>1, <2>2, Still DEF TakeJob, rowVars, fileVars, gatewayVars, workerVars
  <1>2. CASE StartJob \/ TranscriptionFail
    <2>1. PICK s \in Sessions : s = transcriber.sid /\ transcriber # NoJob
      BY <1>2, Working DEF StartJob, TranscriptionFail, NoJob, Job
    <2>2. EventMoves
      BY <1>2, <2>1, Emits DEF StartJob, TranscriptionFail, Said, Event, Done, fileVars
    <2>3. TranscriberMoves
      BY <1>2, <2>1 DEF StartJob, TranscriptionFail, TranscriberMoves, Job
    <2> QED BY <1>2, <2>2, <2>3, Still
            DEF StartJob, TranscriptionFail, rowVars, fileVars, gatewayVars, workerVars
  <1>3. CASE LoadAudio
    <2>1. TranscriberMoves
      BY <1>3 DEF LoadAudio, TranscriberMoves, NoJob, Job
    <2> QED BY <1>3, <2>1, Still
            DEF LoadAudio, rowVars, fileVars, gatewayVars, streamVars, workerVars
  <1>4. CASE WriteTranscript
    <2>1. PICK s \in Sessions : s = transcriber.sid /\ transcriber = Job("writing", s)
      BY <1>4, Working DEF WriteTranscript, TypeOK, ProcessTypes, NoJob, Job
    <2>2. FileMoves
      BY <1>4, <2>1 DEF WriteTranscript, FileMoves, TypeOK, FileTypes
    <2>3. EventMoves
      BY <1>4, <2>1, Emits DEF WriteTranscript, Said, Event, TypeOK, FileTypes, Job, NoJob
    <2>4. TranscriberMoves
      BY <1>4 DEF WriteTranscript, TranscriberMoves
    <2> QED BY <1>4, <2>2, <2>3, <2>4, Still DEF WriteTranscript, rowVars, gatewayVars, workerVars
  <1>5. CASE TranscriberCrash
    <2>1. FileMoves
      BY <1>5, Working DEF TranscriberCrash, FileMoves, TypeOK, FileTypes, ProcessTypes, NoJob, Job
    <2>2. TranscriberMoves
      BY <1>5 DEF TranscriberCrash, TranscriberMoves
    <2> QED BY <1>5, <2>1, <2>2, Still DEF TranscriberCrash, rowVars, gatewayVars, streamVars, workerVars
  <1> QED BY <1>1, <1>2, <1>3, <1>4, <1>5 DEF TranscriberStep

-----------------------------------------------------------------------------
(* Whichever step it is. *)
LEMMA StepMoves ==
  ASSUME TypeOK, [Next]_vars
  PROVE  Moves
  <1>1. CASE UNCHANGED vars
    BY <1>1, Still DEF vars, rowVars, gatewayVars, streamVars, workerVars, Moves, RowMoves
  <1>2. CASE Next
    BY <1>2, RequestMoves, ResumeMoves, ListenerMoves, JobsMove, RestartMoves, WorkersMove,
       TranscribersMove DEF Next, Fault
  <1> QED BY <1>1, <1>2
=============================================================================
