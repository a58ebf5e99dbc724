----------------------------- MODULE BotProofs -----------------------------
(***************************************************************************)
(* TelegramBot, for every number of users, sessions, requests and faults:  *)
(* the dialogue does nothing to the recorder that Recorder does not allow  *)
(* its free user, its state is well typed, its keyboards are in the chat   *)
(* on good grounds, and, as long as nothing is lost, the transcript and    *)
(* the button that is needed next are there.                               *)
(***************************************************************************)
EXTENDS TelegramBot, RowProofs

-----------------------------------------------------------------------------
(* A button sends one of the user's requests. *)
LEMMA AsksRequest ==
  ASSUME NEW p \in Slots, NEW s \in Sessions, NEW act \in Action, Ask(p, s, act)
  PROVE  Request(p, s)
BY DEF Ask, Request

(* A link or a date that is accepted is a request, too. *)
LEMMA CreatesRequest ==
  ASSUME NEW p \in Slots, NEW s \in Sessions, NEW mode \in CreateModes, Create(p, s, mode)
  PROVE  Request(p, s)
BY DEF Create, Request

(* Messages and buttons: the recorder serves a request, or does not notice. *)
LEMMA UserSteps ==
  ASSUME UserStep
  PROVE  [Next]_vars
<1>1. CASE \E u \in Users : SendLink(u) \/ ChooseSchedule(u) \/ JoinRefused(u) \/ DateRefused(u)
  BY <1>1 DEF SendLink, ChooseSchedule, JoinRefused, DateRefused
<1>2. CASE \E u \in Users, s \in Sessions : Command(u, s)
  BY <1>2 DEF Command
<1>3. CASE \E p \in Slots, s \in Sessions :
             \/ "now" \in CreateModes /\ JoinNow(p, s)
             \/ \E mode \in CreateModes : SendDate(p, s, mode)
  BY <1>3, CreatesRequest DEF JoinNow, SendDate, Next
<1>4. CASE \E p \in Slots, s \in Sessions : \E kb \in Keyboard, act \in Action : Press(p, s, kb, act)
  BY <1>4, AsksRequest DEF Press, Next
<1> QED
  BY <1>1, <1>2, <1>3, <1>4 DEF UserStep

(* A step of the dialogue is a step of the recorder, or one it does not
   notice. *)
LEMMA BotStepIsStep ==
  ASSUME [BotNext]_allVars
  PROVE  [Next]_vars
<1>1. CASE UserStep
  BY <1>1, UserSteps
<1>2. CASE \E p \in Slots : HandlerStep(p)
  BY <1>2 DEF HandlerStep, BotResume, PollJoin, PollTranscript, Next, Procs
<1>3. CASE NoticeStep
  BY <1>3 DEF NoticeStep, ListenerResume, ListenerTakes, ListenerStep, PublishNote, Next, Procs
<1>4. CASE Unnoticed(Elsewhere)
  BY <1>4 DEF Unnoticed, Elsewhere, Next, Fault, Procs
<1>5. CASE Outage \/ ListenerFails
  BY <1>5 DEF Outage, ListenerFails, Next, Fault
<1>6. CASE (\E s \in Sessions : Remind(s)) \/ Receive \/ BotRestart \/ NoteLost
           \/ \E p \in Slots : ClientTimeout(p)
  BY <1>6 DEF Remind, Receive, BotRestart, NoteLost, ClientTimeout
<1>7. CASE UNCHANGED allVars
  BY <1>7 DEF allVars
<1> QED
  BY <1>1, <1>2, <1>3, <1>4, <1>5, <1>6, <1>7 DEF BotNext

(* The dialogue implements the free user of Recorder: whatever is proved of
   Spec holds while the bot, with its restarts, lost answers and messages, is
   the one who asks. *)
THEOREM BotIsUser == BotSpec => Spec
<1>1. BotInit => Init
  BY DEF BotInit
<1>2. [BotNext]_allVars => [Next]_vars
  BY BotStepIsStep
<1> QED
  BY <1>1, <1>2, PTL DEF BotSpec, Spec

-----------------------------------------------------------------------------
(* What the bot keeps, with what BotTypeOK leaves open: a handler that is doing
   something has a session to do it for. *)
Todo == Action \cup Mode \cup {"nothing", "poll_join", "poll_transcript"}
Task == [todo : Todo, kb : Keyboard \cup {"none"}, sid : Sessions \cup {NoSession}]
Notice == [kind : NoteKind, sid : Sessions]

TasksNamed == \A p \in Slots : task[p] = Ready \/ task[p].sid \in Sessions

BotTypes == BotTypeOK /\ TasksNamed

(* The keyboards, by name, and the one each kind of notification has. *)
LEMMA Keyboards ==
  /\ Keyboard = {"recording", "leave", "in_call", "transcribe", "cancel_scheduled", "delete_audio"}
  /\ NoteKind = {"recording", "transcribe", "transcript", "reminder"}
  /\ NoteKeyboard["recording"] = "recording" /\ NoteKeyboard["transcribe"] = "transcribe"
  /\ NoteKeyboard["transcript"] = "delete_audio" /\ NoteKeyboard["reminder"] = "delete_audio"
BY DEF Keyboard, Buttons, NoteKind, NoteKeyboard

(* The keyboard that follows each request, if one does. *)
LEMMA Follows ==
  /\ DOMAIN NextKeyboard =
       {"stop_recording", "leave", "decline_leave", "decline_transcribe", "future"}
  /\ Following("stop_recording") = {"leave"} /\ Following("leave") = {"transcribe"}
  /\ Following("decline_leave") = {"in_call"}
  /\ Following("decline_transcribe") = {"delete_audio"}
  /\ Following("future") = {"cancel_scheduled"}
  /\ \A todo : todo \notin DOMAIN NextKeyboard => Following(todo) = {}
<1>1. DOMAIN NextKeyboard =
        {"stop_recording", "leave", "decline_leave", "decline_transcribe", "future"}
  BY DEF NextKeyboard
<1> QED
  BY <1>1 DEF Following, NextKeyboard

(* What a handler shows when it is done are keyboards. *)
LEMMA FollowingTypes == \A todo : Following(todo) \subseteq Keyboard
BY Follows, Keyboards

(* A handler has what it is made of. *)
LEMMA HandlerTypes ==
  /\ \A todo \in Todo, kb \in Keyboard \cup {"none"}, s \in Sessions : Handler(todo, kb, s) \in Task
  /\ Ready \in Task
  /\ \A todo, kb, s : /\ Handler(todo, kb, s).todo = todo
                      /\ Handler(todo, kb, s).kb = kb
                      /\ Handler(todo, kb, s).sid = s
BY DEF Handler, Ready, Task, Todo

(* Giving one request another handler keeps the tasks typed. *)
LEMMA TaskTypes ==
  ASSUME BotTypes, NEW p \in Slots, NEW h \in Task, h = Ready \/ h.sid \in Sessions,
         task' = [task EXCEPT ![p] = h]
  PROVE  task' \in [Slots -> Task] /\ TasksNamed'
<1>1. task \in [Slots -> Task]
  BY DEF BotTypes, BotTypeOK, Task, Todo
<1> QED
  BY <1>1 DEF BotTypes, TasksNamed

(* A keyboard that is sent is one of those there are. *)
LEMMA ShowTypes ==
  ASSUME BotTypes, NEW s, NEW kbs \in SUBSET Keyboard, Show(s, kbs)
  PROVE  shown' \in [Sessions -> SUBSET Keyboard]
BY DEF BotTypes, BotTypeOK, Show

(* What the listener announces, by the transition it has worked on. *)
LEMMA Announces ==
  ASSUME NEW f
  PROVE  /\ f.act = "recording" => Announced(f) = Note("recording", f.sid)
         /\ f.act = "leave" => Announced(f) = Note("transcribe", f.sid)
         /\ f.act = "await_audio_disposal" => Announced(f) = Note("transcript", f.sid)
         /\ f.act \notin {"recording", "leave", "await_audio_disposal"} => Announced(f) = NoNote
BY DEF Announced

(* What the listener announces for the entry at hand is a notification, or nothing. *)
LEMMA AnnouncedTypes ==
  ASSUME TypeOK
  PROVE  Announced(frame[Listener]) \in Notice \cup {NoNote}
<1>1. frame[Listener].sid \in Sessions \/ frame[Listener].act = "none"
  BY Shapes, AtRest, ProcTypes
<1> QED
  BY <1>1, Announces, Keyboards DEF Notice, Note

(* What the user sends, and what is answered at once, keeps the types. *)
LEMMA UserStepTypes ==
  ASSUME BotTypes, UserStep
  PROVE  BotTypes'
<1> USE DEF BotTypes, BotTypeOK, TasksNamed
<1>1. CASE \E u \in Users : SendLink(u) \/ ChooseSchedule(u) \/ JoinRefused(u) \/ DateRefused(u)
  BY <1>1 DEF SendLink, ChooseSchedule, JoinRefused, DateRefused, stream
<1>2. ASSUME NEW u \in Users, NEW s \in Sessions, Command(u, s)
      PROVE  BotTypes'
  <2>1. \E kbs \in SUBSET Keyboard : Show(s, kbs)
    BY <1>2, Keyboards DEF Command
  <2>2. shown' \in [Sessions -> SUBSET Keyboard]
    BY <2>1, ShowTypes
  <2> QED
    BY <1>2, <2>2 DEF Command, dialogue, stream
<1>3. ASSUME NEW p \in Slots, NEW s \in Sessions, NEW mode \in CreateModes, Create(p, s, mode),
             awaiting' \subseteq Users
      PROVE  BotTypes'
  <2>1. Handler(mode, "none", s) \in Task /\ Handler(mode, "none", s).sid \in Sessions
    <3>1. mode \in Todo
      BY SettingsAssumption DEF Todo, Mode
    <3>2. "none" \in Keyboard \cup {"none"}
      OBVIOUS
    <3>3. Handler(mode, "none", s) \in Task
      BY <3>1, <3>2, HandlerTypes
    <3> QED
      BY <3>3, HandlerTypes
  <2>2. task' \in [Slots -> Task] /\ TasksNamed'
    BY <1>3, <2>1, TaskTypes DEF Create
  <2> QED
    BY <1>3, <2>2 DEF Create, stream, Task, Todo
<1>4. ASSUME NEW p \in Slots, NEW s \in Sessions, NEW kb \in Keyboard, NEW act \in Action,
             Press(p, s, kb, act)
      PROVE  BotTypes'
  <2>1. Handler(act, kb, s) \in Task /\ Handler(act, kb, s).sid \in Sessions
    BY HandlerTypes DEF Todo
  <2>2. task' = task \/ task' = [task EXCEPT ![p] = Handler(act, kb, s)]
    BY <1>4 DEF Press
  <2>3. task' \in [Slots -> Task] /\ TasksNamed'
    BY <2>1, <2>2, TaskTypes DEF Task, Todo
  <2> QED
    BY <1>4, <2>3 DEF Press, dialogue, stream, Task, Todo
<1> QED
  BY <1>1, <1>2, <1>3, <1>4 DEF UserStep, JoinNow, SendDate

(* A poll that follows an answer is for the session of that answer. *)
LEMMA AfterSuccessTypes ==
  ASSUME NEW t \in Task, t.sid \in Sessions
  PROVE  AfterSuccess(t) \in Task /\ (AfterSuccess(t) = Ready \/ AfterSuccess(t).sid \in Sessions)
<1>1. /\ DOMAIN Poll = {"now", "confirm_transcribe"}
      /\ Poll["now"] = "poll_join" /\ Poll["confirm_transcribe"] = "poll_transcript"
  BY DEF Poll
<1>2. CASE t.todo \in DOMAIN Poll
  BY <1>1, <1>2, HandlerTypes DEF AfterSuccess, Todo
<1>3. CASE t.todo \notin DOMAIN Poll
  BY <1>3, HandlerTypes DEF AfterSuccess
<1> QED
  BY <1>2, <1>3

(* So do the answers of the gateway, and the ends of the polls. *)
LEMMA HandlerStepTypes ==
  ASSUME TypeOK, BotTypes, NEW p \in Slots, HandlerStep(p)
  PROVE  BotTypes'
<1> USE DEF BotTypes, BotTypeOK, TasksNamed
<1> DEFINE t == task[p]
<1>1. t \in Task /\ (t = Ready \/ t.sid \in Sessions)
  BY DEF Task, Todo
<1>2. ASSUME NEW h \in Task, h = Ready \/ h.sid \in Sessions, task' = [task EXCEPT ![p] = h],
             shown' \in [Sessions -> SUBSET Keyboard], delivered' \subseteq Sessions,
             UNCHANGED <<dialogue, stream, botFaults>>
      PROVE  BotTypes'
  <2>1. task' \in [Slots -> Task] /\ TasksNamed'
    BY <1>2, TaskTypes
  <2> QED
    BY <1>2, <2>1 DEF dialogue, stream, Task, Todo
<1>3. CASE BotResume(p) /\ task[p] # Ready /\ frame'[p] = IdleFrame
  <2>1. CASE Fails(frame[p])
    BY <1>2, <1>3, <2>1, HandlerTypes DEF BotResume, Answered
  <2>2. CASE ~Fails(frame[p])
    <3>1. AfterSuccess(t) \in Task /\ (AfterSuccess(t) = Ready \/ AfterSuccess(t).sid \in Sessions)
      BY <1>1, <1>3, AfterSuccessTypes
    <3>2. \E gone \in SUBSET ({t.kb} \cap Keyboard) :
             shown' = [shown EXCEPT ![t.sid] = (@ \ gone) \cup Following(t.todo)]
      BY <1>3, <2>2 DEF BotResume, Answered
    <3>3. shown' \in [Sessions -> SUBSET Keyboard]
      BY <3>2, FollowingTypes
    <3> QED
      BY <1>2, <1>3, <2>2, <3>1, <3>3 DEF BotResume, Answered
  <2> QED
    BY <2>1, <2>2
<1>4. CASE BotResume(p) /\ ~(task[p] # Ready /\ frame'[p] = IdleFrame)
  BY <1>4 DEF BotResume, dialogue, stream
<1>5. CASE PollJoin(p)
  <2>1. shown' \in [Sessions -> SUBSET Keyboard]
    BY <1>5, ShowTypes, Keyboards DEF PollJoin
  <2> QED
    BY <1>2, <1>5, <2>1, HandlerTypes DEF PollJoin
<1>6. CASE PollTranscript(p)
  <2>1. \E kbs \in SUBSET Keyboard : Show(t.sid, kbs)
    BY <1>6, Keyboards DEF PollTranscript
  <2>2. shown' \in [Sessions -> SUBSET Keyboard]
    BY <2>1, ShowTypes
  <2>3. t.sid \in Sessions
    BY <1>1, <1>6, HandlerTypes DEF PollTranscript, Ready
  <2> QED
    BY <1>2, <1>6, <2>2, <2>3, HandlerTypes DEF PollTranscript
<1> QED
  BY <1>3, <1>4, <1>5, <1>6 DEF HandlerStep

(* A notification that is put off, published, sent or lost. *)
LEMMA NoticeStepTypes ==
  ASSUME TypeOK, BotTypes, NoticeStep \/ (\E s \in Sessions : Remind(s)) \/ Receive \/ NoteLost
  PROVE  BotTypes'
<1> USE DEF BotTypes, BotTypeOK, TasksNamed
<1>1. notes \in Seq(Notice) /\ draft \in Notice \cup {NoNote}
  BY DEF Notice
<1>2. CASE ListenerResume
  BY <1>2, AnnouncedTypes DEF ListenerResume, dialogue, Notice
<1>3. CASE ListenerTakes
  <2>1. events # <<>> => Note("transcript", Head(events).sid) \in Notice
    BY HeadTypes, Keyboards DEF Note, Notice
  <2>2. draft' \in Notice \cup {NoNote}
    BY <1>1, <1>3, <2>1 DEF ListenerTakes, ListenerIgnore
  <2> QED
    BY <1>3, <2>2 DEF ListenerTakes, dialogue, Notice
<1>4. CASE PublishNote
  <2>1. notes' \in Seq(Notice)
    BY <1>1, <1>4, AppendProperties DEF PublishNote
  <2> QED
    BY <1>4, <2>1 DEF PublishNote, dialogue, Notice
<1>5. ASSUME NEW s \in Sessions, Remind(s)
      PROVE  BotTypes'
  <2>1. Note("reminder", s) \in Notice
    BY Keyboards DEF Note, Notice
  <2>2. notes' \in Seq(Notice)
    BY <1>1, <1>5, <2>1, AppendProperties DEF Remind
  <2> QED
    BY <1>5, <2>2 DEF Remind, dialogue, Notice
<1>6. CASE Receive
  <2>1. Head(notes) \in Notice /\ notes' \in Seq(Notice)
    BY <1>1, <1>6, HeadTailProperties DEF Receive
  <2>2. NoteKeyboard[Head(notes).kind] \in Keyboard /\ Head(notes).sid \in Sessions
    BY <2>1, Keyboards DEF Notice
  <2>3. shown' \in [Sessions -> SUBSET Keyboard]
    BY <1>6, <2>2, ShowTypes DEF Receive
  <2> QED
    BY <1>6, <2>1, <2>2, <2>3 DEF Receive, dialogue, Notice
<1>7. CASE NoteLost
  <2>1. notes' \in Seq(Notice)
    BY <1>1, <1>7, HeadTailProperties DEF NoteLost
  <2>2. botFaults' \in Nat
    BY <1>7 DEF NoteLost, BotFault
  <2> QED
    BY <1>7, <2>1, <2>2 DEF NoteLost, dialogue, Notice
<1> QED
  BY <1>2, <1>3, <1>4, <1>5, <1>6, <1>7 DEF NoticeStep

(* The rest of a stream of notifications is one. *)
LEMMA NotesSuffix ==
  ASSUME BotTypes, NEW n \in 0..10, n <= Len(notes)
  PROVE  SubSeq(notes, n + 1, Len(notes)) \in Seq(Notice)
<1>1. notes \in Seq(Notice) /\ Len(notes) \in Nat
  BY LenProperties DEF BotTypes, BotTypeOK, Notice
<1>2. \A i \in (n + 1)..Len(notes) : notes[i] \in Notice
  BY <1>1, ElementOfSeq
<1> QED
  BY <1>1, <1>2, SubSeqProperties

(* A restart or a lost answer leaves handlers that are ready again. *)
LEMMA FaultTypes ==
  ASSUME BotTypes, BotRestart \/ Outage \/ ListenerFails \/ \E p \in Slots : ClientTimeout(p)
  PROVE  BotTypes'
<1> USE DEF BotTypes, BotTypeOK, TasksNamed
<1>1. task \in [Slots -> Task]
  BY DEF Task, Todo
<1>2. CASE BotRestart
  <2>1. notes' \in Seq(Notice)
    BY <1>2, NotesSuffix DEF BotRestart
  <2>2. botFaults' \in Nat
    BY <1>2 DEF BotRestart, BotFault
  <2>3. task' \in [Slots -> Task] /\ TasksNamed'
    BY <1>2, HandlerTypes DEF BotRestart
  <2> QED
    BY <1>2, <2>1, <2>2, <2>3 DEF BotRestart, Task, Todo, Notice
<1>3. CASE Outage
  <2>1. task' \in [Slots -> Task] /\ TasksNamed'
    BY <1>1, <1>3, HandlerTypes DEF Outage
  <2> QED
    BY <1>3, <2>1 DEF Outage, dialogue, Task, Todo
<1>4. CASE ListenerFails
  BY <1>4 DEF ListenerFails, botVars, dialogue, stream
<1>5. ASSUME NEW p \in Slots, ClientTimeout(p)
      PROVE  BotTypes'
  <2>1. botFaults' \in Nat
    BY <1>5 DEF ClientTimeout, BotFault
  <2>2. task' \in [Slots -> Task] /\ TasksNamed'
    BY <1>5, HandlerTypes, TaskTypes DEF ClientTimeout
  <2> QED
    BY <1>5, <2>1, <2>2 DEF ClientTimeout, dialogue, stream, Task, Todo
<1> QED
  BY <1>2, <1>3, <1>4, <1>5

(* The types of the dialogue are inductive, given those of the recorder. *)
LEMMA BotStepTypes == TypeOK /\ BotTypes /\ [BotNext]_allVars => BotTypes'
<1>1. UNCHANGED botVars /\ BotTypes => BotTypes'
  BY DEF BotTypes, BotTypeOK, TasksNamed, botVars, dialogue, stream
<1> QED
  BY <1>1, UserStepTypes, HandlerStepTypes, NoticeStepTypes, FaultTypes
     DEF BotNext, Unnoticed, allVars

(* They hold before anybody has sent a link. *)
LEMMA BotInitTypes == BotInit => BotTypes
BY BotAssumption, HandlerTypes, EmptySeq
   DEF BotInit, BotTypes, BotTypeOK, TasksNamed, Task, Todo, NoteKind

(* The dialogue keeps its types, and no handler is at work for no session. *)
THEOREM BotTyped == BotSpec => []BotTypeOK
<1>1. BotTypes => BotTypeOK
  BY DEF BotTypes
<1> QED
  BY <1>1, BotInitTypes, BotStepTypes, BotIsUser, TypeCorrect, PTL DEF BotSpec

-----------------------------------------------------------------------------
(* On what grounds keyboard kb is in the chat of session s, or on its way. *)
Grounds(s, kb) ==
  /\ kb \in AfterCapture => audio[s] # "none"
  /\ kb = "delete_audio" => s \in Deletable

KeyboardsGrounded == \A s \in Sessions : \A kb \in shown[s] : Grounds(s, kb)
NotesGrounded == \A i \in DOMAIN notes : Grounds(notes[i].sid, NoteKeyboard[notes[i].kind])
DraftGrounded == draft # NoNote => Grounds(draft.sid, NoteKeyboard[draft.kind])

(* A handler whose success changes the keyboards in the chat waits for the
   coroutine that is working on what was asked. *)
Replied == {"stop_recording", "leave", "decline_leave", "decline_transcribe", "confirm_transcribe"}
HandlersFollow ==
  \A p \in Slots :
    task[p].todo \in Replied => frame[p].sid = task[p].sid /\ frame[p].act = task[p].todo

(* Whose audio is up for the decision has been, or is being, asked for it, and
   a transcript is made from audio. *)
PendingOffered == \A s \in Sessions : status[s] = "pending_audio_disposal" => s \in offered
TranscriptsRecorded == \A s \in Sessions : transcript[s] => audio[s] # "none"

(* The inductive form of DeleteOffered and AskedBacked. *)
AskInv ==
  /\ KeyboardsGrounded /\ NotesGrounded /\ DraftGrounded
  /\ HandlersFollow
  /\ PendingOffered /\ TranscriptsRecorded

-----------------------------------------------------------------------------
(* Coroutine p is still at what it was at, whether or not it got any further. *)
SameWork(p) == frame'[p].act = frame[p].act /\ frame'[p].sid = frame[p].sid

(* Nothing but a request of its own puts a request to work ... *)
LEMMA RequestsLeave ==
  ASSUME TypeOK, NEW p \in Procs, NEW q \in Slots, p # q \/ ~At(p, "idle"),
         NEW s \in Sessions, Request(q, s)
  PROVE  SameWork(p) /\ (frame'[p] = frame[p] \/ At(p, "await"))
<1>1. p \in Procs /\ q \in Procs /\ frame \in [Procs -> Suspended]
  BY ProcTypes DEF TypeOK, FrameTypes
<1>2. ASSUME NEW act \in Action, RequestSend(q, s, act)
      PROVE  SameWork(p) /\ (frame'[p] = frame[p] \/ At(p, "await"))
  BY <1>1, <1>2, FrameFields DEF RequestSend, SameWork, At, Waiting
<1>3. CASE \E act \in Action : RequestTransition(q, s, act)
  BY <1>1, <1>3 DEF RequestTransition, Goto, SameWork, At
<1>4. CASE (\E mode \in CreateModes : CreateCheck(q, s, mode)) \/ RequestCancel(q, s) \/ RequestRetain(q, s)
  BY <1>1, <1>4 DEF CreateCheck, RequestCancel, RequestRetain, Goto, SameWork, At
<1>5. CASE RequestDelete(q, s)
  BY <1>1, <1>5 DEF RequestDelete, SameWork, At
<1> QED
  BY <1>2, <1>3, <1>4, <1>5 DEF Request

(* ... and nothing but its own steps takes it from what it works on: an Event
   that is replaced, or set, does not, and concerns only who waits for it. *)
LEMMA CoroutinesLeave ==
  ASSUME TypeOK, NEW p \in Procs, NEW q \in Procs \ {p}, Resume(q)
  PROVE  SameWork(p) /\ (frame'[p] = frame[p] \/ At(p, "await"))
<1>1. p \in Procs /\ frame \in [Procs -> Suspended]
  BY ProcTypes DEF TypeOK, FrameTypes
<1>2. CASE Spawn(q)
  BY <1>1, <1>2 DEF Spawn, SameWork, At
<1>3. CASE ~Spawn(q)
  <2>1. \E f : Goto(q, f)
    BY <1>3 DEF Resume, CreateInsert, CreateArm, Publish, Lookup, Timeout, Reap, ExpireCommit, Reload,
         CommitTransition, PublishJob, Finish
  <2> QED
    BY <1>1, <2>1 DEF Goto, SameWork, At
<1> QED
  BY <1>2, <1>3

(* No process but the gateway's requests touches the request a handler waits for. *)
LEMMA ServicesLeave ==
  ASSUME TypeOK, NEW p \in Slots,
         \/ ListenerStep \/ ListenerFail \/ FollowupStep \/ Sweep
         \/ \E s \in Sessions : FireJoin(s) \/ WorkerStep(s) \/ WorkerCrash(s)
         \/ \E s \in Sessions, ev \in ProviderEvents : Watch(s, ev)
         \/ TranscriberStep \/ TranscriberCrash
  PROVE  SameWork(p) /\ (frame'[p] = frame[p] \/ At(p, "await"))
<1>1. /\ p \in Procs /\ frame \in [Procs -> Suspended]
      /\ p # Listener /\ p # Followup /\ p \notin Sessions
  BY ProcTypes, ProcessesAssumption DEF TypeOK, FrameTypes
<1>2. CASE ListenerSignal
  BY <1>1, <1>2, FrameFields DEF ListenerSignal, SameWork, At, Waiting, Woken
<1>3. CASE ListenerReact \/ ListenerFail \/ FollowupStep
  BY <1>1, <1>3 DEF ListenerReact, ListenerFail, FollowupStep, FollowupSelect, FollowupResolve, Goto,
     Finish, SameWork
<1>4. ASSUME NEW s \in Sessions, FireJoin(s)
      PROVE  SameWork(p) /\ (frame'[p] = frame[p] \/ At(p, "await"))
  BY <1>1, <1>4 DEF FireJoin, SameWork
<1>5. CASE UNCHANGED frame
  BY <1>5 DEF SameWork
<1> QED
  BY <1>2, <1>3, <1>4, <1>5 DEF ListenerStep, ListenerIgnore, Sweep, WorkerStep, Join, JoinFail,
     TakeCommand, StopCapture, Leave, WorkerCrash, Watch, TranscriberStep, TakeJob, StartJob,
     LoadAudio, WriteTranscript, TranscriptionFail, TranscriberCrash, gatewayVars

(* A request goes on with what it is at, or ends; it ends well with the
   commit, or with the job that follows the commit. *)
LEMMA GoesOnOrEnds ==
  ASSUME TypeOK, NEW p \in Slots, Resume(p), frame[p].act \in Replied
  PROVE  /\ frame'[p] = IdleFrame \/ SameWork(p)
         /\ frame'[p] = IdleFrame => \/ Fails(frame[p])
                                     \/ CommitTransition(p) /\ frame[p].act # "confirm_transcribe"
                                     \/ PublishJob(p)
<1>1. /\ p \in Procs /\ frame \in [Procs -> Suspended]
      /\ p # Listener /\ p # Followup
  BY ProcTypes, ProcessesAssumption DEF TypeOK, FrameTypes
<1>2. /\ Replied \cap (Mode \cup {"retain_audio", "none", "await_audio_disposal", "start_join",
                                  "transcript_ready"}) = {}
      /\ IdleFrame.pc = "idle"
  BY DEF Replied, Mode, IdleFrame, Frame
<1>3. ~(CreateInsert(p) \/ CreateArm(p) \/ ExpireCommit(p) \/ Reload(p))
  BY <1>1, <1>2, Holding DEF CreateInsert, CreateArm, ExpireCommit, Reload
<1>4. ~Spawn(p)
  BY <1>1, <1>2 DEF Spawn, At, Suspended, Frame, IdleFrame, LoopFrame, EndedFrame
<1>5. CASE Publish(p) \/ Lookup(p) \/ Reap(p)
  BY <1>1, <1>2, <1>5, Holding, FrameFields DEF Publish, Lookup, Reap, Goto, SameWork, Woken
<1>6. CASE Timeout(p)
  BY <1>1, <1>6 DEF Timeout, Finish, Goto, Fails
<1>7. CASE CommitTransition(p) /\ frame[p].act # "confirm_transcribe"
  <2>1. Continue(p, frame[p].act, frame[p].sid) = IdleFrame
    BY <1>1, <1>2, <1>7 DEF Continue, Rest
  <2> QED
    BY <1>1, <1>7, <2>1 DEF CommitTransition, Goto
<1>8. CASE CommitTransition(p) /\ frame[p].act = "confirm_transcribe"
  <2>1. frame'[p] = Frame("publish_job", frame[p].act, frame[p].sid)
    BY <1>1, <1>8 DEF CommitTransition, Continue, Goto
  <2> QED
    BY <2>1, FrameFields DEF SameWork, IdleFrame
<1>9. CASE PublishJob(p)
  BY <1>1, <1>9 DEF PublishJob, Finish, Goto
<1> QED
  BY <1>3, <1>4, <1>5, <1>6, <1>7, <1>8, <1>9 DEF Resume

-----------------------------------------------------------------------------
(* A request that somebody waits for is at work. *)
LEMMA FollowedWorks ==
  ASSUME TypeOK, HandlersFollow, NEW p \in Slots, task[p].todo \in Replied
  PROVE  frame[p].act \in Replied /\ ~At(p, "idle") /\ task[p] # Ready
<1>1. frame[p] \in Suspended
  BY ProcTypes DEF TypeOK, FrameTypes
<1>2. frame[p].act \in Replied /\ task[p] # Ready
  BY HandlerTypes DEF HandlersFollow, Replied, Ready
<1> QED
  BY <1>1, <1>2 DEF Replied, At, Suspended, Frame, IdleFrame, LoopFrame, EndedFrame

(* What is pressed is what the request is put to work on. *)
LEMMA AskPutsToWork ==
  ASSUME TypeOK, NEW p \in Slots, NEW s \in Sessions, NEW act \in Replied, Ask(p, s, act)
  PROVE  frame'[p].act = act /\ frame'[p].sid = s
<1>1. p \in Procs /\ frame \in [Procs -> Suspended]
  BY ProcTypes DEF TypeOK, FrameTypes
<1>2. RequestTransition(p, s, act) \/ RequestSend(p, s, act)
  BY DEF Ask, Replied
<1> QED
  BY <1>1, <1>2, FrameFields DEF RequestTransition, RequestSend, Goto

(* A handler that is left alone goes on waiting for the same work. *)
LEMMA GoesOnFollowing ==
  ASSUME HandlersFollow, NEW p \in Slots, task'[p] = task[p],
         task[p].todo \in Replied => SameWork(p)
  PROVE  task'[p].todo \in Replied => frame'[p].sid = task'[p].sid /\ frame'[p].act = task'[p].todo
BY DEF HandlersFollow, SameWork

(* Handlers follow the requests of the user ... *)
LEMMA UserFollows ==
  ASSUME TypeOK, BotTypes, HandlersFollow, UserStep
  PROVE  HandlersFollow'
<1> SUFFICES ASSUME NEW p \in Slots, task'[p].todo \in Replied
             PROVE  frame'[p].sid = task'[p].sid /\ frame'[p].act = task'[p].todo
  BY DEF HandlersFollow
<1> USE DEF BotTypes, BotTypeOK
<1>1. CASE UNCHANGED <<vars, task>>
  BY <1>1 DEF HandlersFollow, vars, gatewayVars
<1>2. ASSUME NEW q \in Slots, NEW s \in Sessions, NEW mode \in CreateModes, Create(q, s, mode)
      PROVE  frame'[p].sid = task'[p].sid /\ frame'[p].act = task'[p].todo
  <2>1. p # q
    BY <1>2, SettingsAssumption, HandlerTypes DEF Create, Replied
  <2>2. task'[p] = task[p]
    BY <1>2, <2>1 DEF Create
  <2>3. SameWork(p)
    BY <1>2, <2>2, FollowedWorks, RequestsLeave, CreatesRequest, ProcTypes
  <2> QED
    BY <2>2, <2>3, GoesOnFollowing
<1>3. ASSUME NEW q \in Slots, NEW s \in Sessions, NEW kb \in Keyboard, NEW act \in Action,
             Press(q, s, kb, act)
      PROVE  frame'[p].sid = task'[p].sid /\ frame'[p].act = task'[p].todo
  <2>1. CASE task'[p] = task[p]
    <3>1. SameWork(p)
      BY <1>3, <2>1, FollowedWorks, RequestsLeave, AsksRequest, ProcTypes DEF Press
    <3> QED
      BY <2>1, <3>1, GoesOnFollowing
  <2>2. CASE task'[p] # task[p]
    <3>1. p = q /\ task'[p] = Handler(act, kb, s)
      BY <1>3, <2>2 DEF Press
    <3>2. act \in Replied
      BY <3>1, HandlerTypes
    <3> QED
      BY <1>3, <3>1, <3>2, AskPutsToWork, HandlerTypes DEF Press
  <2> QED
    BY <2>1, <2>2
<1>4. (\E u \in Users : SendLink(u) \/ ChooseSchedule(u) \/ JoinRefused(u) \/ DateRefused(u))
        \/ (\E u \in Users, s \in Sessions : Command(u, s)) => UNCHANGED <<vars, task>>
  BY DEF SendLink, ChooseSchedule, JoinRefused, DateRefused, Command
<1> QED
  BY <1>1, <1>2, <1>3, <1>4 DEF UserStep, JoinNow, SendDate

(* ... and the gateway's answers to them. *)
LEMMA AnswersFollow ==
  ASSUME TypeOK, BotTypes, HandlersFollow, NEW q \in Slots, BotResume(q)
  PROVE  HandlersFollow'
<1> SUFFICES ASSUME NEW p \in Slots, task'[p].todo \in Replied
             PROVE  frame'[p].sid = task'[p].sid /\ frame'[p].act = task'[p].todo
  BY DEF HandlersFollow
<1>1. AfterSuccess(task[q]).todo \notin Replied /\ Ready.todo \notin Replied
  BY HandlerTypes DEF AfterSuccess, Poll, Replied, Ready
<1>2. task'[p] = task[p] \/ (p = q /\ task'[p] \in {Ready, AfterSuccess(task[q])})
  BY DEF BotResume, Answered, BotTypes, BotTypeOK
<1>3. task'[p] = task[p]
  BY <1>1, <1>2
<1>4. CASE p = q
  <2>1. frame'[p] # IdleFrame
    BY <1>1, <1>3, <1>4, FollowedWorks DEF BotResume, Answered, BotTypes, BotTypeOK
  <2> QED
    BY <1>3, <1>4, <2>1, FollowedWorks, GoesOnOrEnds, GoesOnFollowing DEF BotResume
<1>5. CASE p # q
  BY <1>3, <1>5, CoroutinesLeave, GoesOnFollowing, ProcTypes DEF BotResume
<1> QED
  BY <1>4, <1>5

(* Nobody else has a part in that; after a fault, nobody waits. *)
LEMMA OthersFollow ==
  ASSUME TypeOK, BotTypes, HandlersFollow,
         \/ \E q \in Slots : PollJoin(q) \/ PollTranscript(q) \/ ClientTimeout(q)
         \/ NoticeStep \/ (\E s \in Sessions : Remind(s)) \/ Receive
         \/ Unnoticed(Elsewhere) \/ ListenerFails
         \/ BotRestart \/ NoteLost \/ Outage
  PROVE  HandlersFollow'
<1> SUFFICES ASSUME NEW p \in Slots, task'[p].todo \in Replied
             PROVE  frame'[p].sid = task'[p].sid /\ frame'[p].act = task'[p].todo
  BY DEF HandlersFollow
<1>1. task'[p] = task[p] \/ task'[p] = Ready
  BY DEF PollJoin, PollTranscript, ClientTimeout, NoticeStep, ListenerResume, ListenerTakes,
     PublishNote, Remind, Receive, Unnoticed, botVars, ListenerFails, BotRestart, NoteLost, Outage,
     BotTypes, BotTypeOK
<1>2. task'[p] = task[p]
  BY <1>1, HandlerTypes DEF Ready, Replied
<1>3. task[p].todo \in Replied /\ frame[p] # IdleFrame /\ task[p] # Ready
  <2>1. task[p].todo \in Replied
    BY <1>2
  <2> QED
    BY <2>1, FollowedWorks DEF At, IdleFrame, Frame
<1>4. ~Outage
  BY <1>2, <1>3 DEF Outage
<1>5. SameWork(p)
  <2>1. CASE UNCHANGED vars
    BY <2>1 DEF SameWork, vars, gatewayVars
  <2>2. CASE ListenerResume \/ ListenerTakes \/ ListenerFails
    <3>1. p # Listener
      BY ProcessesAssumption
    <3> QED
      BY <2>2, <3>1, CoroutinesLeave, ServicesLeave, ProcTypes
         DEF ListenerResume, ListenerTakes, ListenerFails, ListenerStep
  <2>3. CASE Elsewhere
    <3>1. p \notin Sessions \cup {Followup}
      BY ProcessesAssumption
    <3> QED
      BY <2>3, <3>1, CoroutinesLeave, ServicesLeave, ProcTypes DEF Elsewhere
  <2> QED
    BY <1>4, <2>1, <2>2, <2>3
       DEF PollJoin, PollTranscript, ClientTimeout, NoticeStep, PublishNote, Remind, Receive,
           Unnoticed, BotRestart, NoteLost
<1> QED
  BY <1>2, <1>5, GoesOnFollowing

(* A step keeps HandlersFollow: whatever a handler will show fits what it has asked for. *)
LEMMA FollowStep ==
  ASSUME TypeOK, BotTypes, HandlersFollow, [BotNext]_allVars
  PROVE  HandlersFollow'
<1>1. CASE UNCHANGED allVars
  BY <1>1 DEF HandlersFollow, allVars, vars, gatewayVars, botVars
<1> QED
  BY <1>1, UserFollows, AnswersFollow, OthersFollow DEF BotNext, HandlerStep

-----------------------------------------------------------------------------
(* Good grounds stay good: no audio is forgotten, no offer withdrawn. *)
LEMMA GroundsStay ==
  ASSUME TypeOK, [Next]_vars, NEW s \in Sessions, NEW kb, Grounds(s, kb)
  PROVE  Grounds(s, kb)'
<1>1. FileMoves /\ OfferMoves
  BY StepMoves DEF Moves
<1>2. audio[s] # "none" => audio'[s] # "none"
  BY <1>1 DEF FileMoves
<1>3. s \in Deletable => s \in Deletable'
  BY <1>1 DEF FileMoves, OfferMoves, Deletable
<1> QED
  BY <1>2, <1>3 DEF Grounds

(* A step keeps TranscriptsRecorded: the transcriber writes only what it could read. *)
LEMMA TranscriptsRecordedStep ==
  ASSUME TypeOK, TranscriptsRecorded, WritesFromAudio, [Next]_vars
  PROVE  TranscriptsRecorded'
<1>1. FileMoves
  BY StepMoves DEF Moves
<1> SUFFICES ASSUME NEW s \in Sessions, transcript'[s] PROVE audio'[s] # "none"
  BY DEF TranscriptsRecorded
<1>2. transcript[s] \/ transcriber = Job("writing", s)
  BY <1>1 DEF FileMoves
<1>3. audio[s] # "none"
  BY <1>2 DEF TranscriptsRecorded, WritesFromAudio, Job
<1> QED
  BY <1>1, <1>3 DEF FileMoves

(* A step keeps PendingOffered: nothing becomes pending before the offer is on its way. *)
LEMMA PendingOfferedStep ==
  ASSUME TypeOK, PendingOffered, [Next]_vars
  PROVE  PendingOffered'
<1>1. StatusMoves /\ OfferMoves
  BY StepMoves DEF Moves, RowMoves
<1> SUFFICES ASSUME NEW s \in Sessions, status'[s] = "pending_audio_disposal" PROVE s \in offered'
  BY DEF PendingOffered
<1>2. CASE status'[s] = status[s]
  BY <1>1, <1>2 DEF PendingOffered, OfferMoves
<1>3. CASE status'[s] # status[s]
  BY <1>1, <1>3 DEF StatusMoves, Inserts, CommitsFor
<1> QED
  BY <1>2, <1>3

(* The keyboards that need no grounds, and what the others need. *)
LEMMA GroundsOf ==
  /\ \A s : \A kb \in {"recording", "cancel_scheduled"} : Grounds(s, kb)
  /\ \A s : \A kb \in AfterCapture \ {"delete_audio"} : audio[s] # "none" => Grounds(s, kb)
  /\ \A s : audio[s] # "none" /\ s \in Deletable => Grounds(s, "delete_audio")
BY DEF Grounds, AfterCapture

(* The notifications are typed, the first of them too. *)
LEMMA NotesHold ==
  ASSUME BotTypes
  PROVE  /\ notes \in Seq(Notice)
         /\ \A i \in DOMAIN notes : notes[i].sid \in Sessions
         /\ notes # <<>> => Head(notes) = notes[1] /\ 1 \in DOMAIN notes
<1>1. notes \in Seq(Notice) /\ Len(notes) \in Nat /\ DOMAIN notes = 1..Len(notes)
  BY LenProperties DEF BotTypes, BotTypeOK, Notice
<1>2. \A i \in DOMAIN notes : notes[i] \in Notice
  BY <1>1, ElementOfSeq
<1>3. notes # <<>> => Head(notes) = notes[1] /\ 1 \in DOMAIN notes
  BY <1>1
<1> QED
  BY <1>1, <1>2, <1>3 DEF Notice

(* A request that succeeds is answered with a keyboard on good grounds: the
   coroutine that commits it is backed by the worker's answer. *)
LEMMA AnswersGrounded ==
  ASSUME TypeOK, BotTypes, HandlersFollow, FramesBacked, [Next]_vars,
         NEW p \in Slots, Resume(p), frame'[p] = IdleFrame, ~Fails(frame[p]),
         NEW s, s = task[p].sid, NEW kb \in Following(task[p].todo)
  PROVE  Grounds(s, kb)'
<1> DEFINE todo == task[p].todo
<1>1. CASE todo \notin Replied
  <2>1. kb = "cancel_scheduled"
    BY <1>1, Follows DEF Replied
  <2> QED
    BY <2>1, GroundsOf DEF Grounds, AfterCapture
<1>2. CASE todo \in Replied
  <2>1. frame[p].act = todo /\ frame[p].sid = s /\ frame[p].act \in Replied
    BY <1>2 DEF HandlersFollow
  <2>2. CommitTransition(p)
    <3>1. todo # "confirm_transcribe"
      BY Follows
    <3>2. ~PublishJob(p)
      BY <2>1, <3>1, ProcTypes, Shapes DEF PublishJob
    <3> QED
      BY <2>1, <3>2, GoesOnOrEnds
  <2>3. audio[s] # "none"
    <3>1. Backed(frame[p]) /\ At(p, "commit")
      BY <2>2, ProcTypes DEF FramesBacked, CommitTransition
    <3> QED
      BY <2>1, <3>1 DEF Backed, Late, Replied, At
  <2>4. audio' = audio
    BY <2>2 DEF CommitTransition, fileVars
  <2>5. CASE todo = "decline_transcribe"
    <3>1. s \in offered' /\ kb = "delete_audio"
      BY <2>1, <2>2, <2>5, Follows DEF CommitTransition
    <3> QED
      BY <2>3, <2>4, <3>1 DEF Grounds, Deletable
  <2>6. CASE todo # "decline_transcribe"
    <3>1. kb \in {"leave", "in_call", "transcribe"}
      BY <1>2, <2>6, Follows DEF Replied
    <3> QED
      BY <2>3, <2>4, <3>1 DEF Grounds
  <2> QED
    BY <2>5, <2>6
<1> QED
  BY <1>1, <1>2

(* A keyboard is put into a chat on good grounds. *)
LEMMA NewKeyboards ==
  ASSUME TypeOK, BotTypes, AskInv, FramesBacked, [BotNext]_allVars,
         NEW s \in Sessions, NEW kb \in shown'[s], kb \notin shown[s]
  PROVE  Grounds(s, kb)'
<1> USE DEF AskInv, BotTypes, BotTypeOK
<1>1. [Next]_vars
  BY BotStepIsStep
<1>2. ASSUME UNCHANGED vars, Grounds(s, kb)
      PROVE  Grounds(s, kb)'
  BY <1>1, <1>2, GroundsStay
<1>3. ASSUME NEW u \in Users, NEW t \in Sessions, Command(u, t)
      PROVE  Grounds(s, kb)'
  <2>1. kb \in {"recording", "cancel_scheduled"}
    BY <1>3 DEF Command, Show
  <2> QED
    BY <1>2, <1>3, <2>1, GroundsOf DEF Command
<1>4. ASSUME NEW p \in Slots, BotResume(p)
      PROVE  Grounds(s, kb)'
  <2>1. /\ Resume(p) /\ frame'[p] = IdleFrame /\ ~Fails(frame[p])
        /\ s = task[p].sid /\ kb \in Following(task[p].todo)
    BY <1>4 DEF BotResume, Answered
  <2> QED
    BY <1>1, <2>1, AnswersGrounded
<1>5. ASSUME NEW p \in Slots, PollJoin(p)
      PROVE  Grounds(s, kb)'
  <2>1. kb = "recording"
    BY <1>5 DEF PollJoin, Show
  <2> QED
    BY <1>2, <1>5, <2>1, GroundsOf DEF PollJoin
<1>6. ASSUME NEW p \in Slots, PollTranscript(p)
      PROVE  Grounds(s, kb)'
  <2>1. s = task[p].sid /\ kb = "delete_audio" /\ Downloadable(s)
    BY <1>6 DEF PollTranscript, Show
  <2>2. Grounds(s, kb)
    BY <2>1, GroundsOf DEF Downloadable, TranscriptsRecorded, Deletable
  <2> QED
    BY <1>2, <1>6, <2>2 DEF PollTranscript
<1>7. CASE Receive
  <2>1. s = Head(notes).sid /\ kb = NoteKeyboard[Head(notes).kind]
    BY <1>7 DEF Receive, Show
  <2>2. Grounds(s, kb)
    BY <1>7, <2>1, NotesHold DEF Receive, NotesGrounded
  <2> QED
    BY <1>2, <1>7, <2>2 DEF Receive
<1>8. UNCHANGED shown => Grounds(s, kb)'
  OBVIOUS
<1> QED
  BY <1>3, <1>4, <1>5, <1>6, <1>7, <1>8
     DEF BotNext, UserStep, SendLink, ChooseSchedule, JoinRefused, DateRefused, JoinNow, SendDate,
         Create, Press, HandlerStep, NoticeStep, ListenerResume, ListenerTakes, PublishNote, Remind,
         Unnoticed, botVars, allVars, BotRestart, NoteLost, Outage, ListenerFails, ClientTimeout

(* A step keeps KeyboardsGrounded: old keyboards stay true, new ones come from a handler or a notification. *)
LEMMA KeyboardsGroundedStep ==
  ASSUME TypeOK, BotTypes, AskInv, FramesBacked, [BotNext]_allVars
  PROVE  KeyboardsGrounded'
<1> SUFFICES ASSUME NEW s \in Sessions, NEW kb \in shown'[s] PROVE Grounds(s, kb)'
  BY DEF KeyboardsGrounded
<1>1. CASE kb \in shown[s]
  BY <1>1, BotStepIsStep, GroundsStay DEF AskInv, KeyboardsGrounded
<1>2. CASE kb \notin shown[s]
  BY <1>2, NewKeyboards
<1> QED
  BY <1>1, <1>2

(* What the listener has just worked on is what its notification offers. *)
LEMMA ListenerGrounded ==
  ASSUME TypeOK, FramesBacked, [Next]_vars, Resume(Listener),
         At(Listener, "commit") \/ frame'[Listener] = IdleFrame,
         NEW n, n = Announced(frame[Listener]), n # NoNote
  PROVE  Grounds(n.sid, NoteKeyboard[n.kind])'
<1> DEFINE f == frame[Listener]
<1>1. /\ Listener \in Procs /\ f \in Suspended /\ Listener # Followup
      /\ frame \in [Procs -> Suspended]
  BY ProcTypes, ProcessesAssumption DEF TypeOK, FrameTypes
<1>2. f.act \in {"recording", "leave", "await_audio_disposal"} /\ f.sid \in Sessions
  BY <1>1, Announces, Shapes, AtRest
<1>3. f.act # "recording" => audio'[f.sid] # "none"
  <2>1. FileMoves
    BY StepMoves DEF Moves
  <2>2. f.act # "recording" => audio[f.sid] # "none"
    BY <1>1, <1>2 DEF FramesBacked, Backed, Late
  <2> QED
    BY <1>2, <2>1, <2>2 DEF FileMoves
<1>4. CASE f.act = "recording"
  <2>1. n.sid = f.sid /\ NoteKeyboard[n.kind] = "recording"
    BY <1>4, Announces, Keyboards DEF Note
  <2> QED
    BY <2>1 DEF Grounds, AfterCapture
<1>5. CASE f.act = "leave"
  <2>1. n.sid = f.sid /\ NoteKeyboard[n.kind] = "transcribe"
    BY <1>5, Announces, Keyboards DEF Note
  <2> QED
    BY <1>3, <1>5, <2>1 DEF Grounds
<1>6. CASE f.act = "await_audio_disposal"
  <2>1. n.sid = f.sid /\ NoteKeyboard[n.kind] = "delete_audio"
    BY <1>6, Announces, Keyboards DEF Note
  <2>2. CommitTransition(Listener) \/ Reload(Listener)
    <3>1. f.pc \in {"commit", "reload"}
      BY <1>1, <1>6 DEF Suspended, Frame, IdleFrame, LoopFrame, EndedFrame, Mode, Handshake
    <3> QED
      BY <3>1 DEF Resume, CreateInsert, CreateArm, Publish, Lookup, Timeout, Reap, ExpireCommit,
         PublishJob, Spawn, At
  <2>3. CASE CommitTransition(Listener)
    BY <1>3, <1>6, <2>1, <2>3 DEF CommitTransition, Grounds, Deletable
  <2>4. CASE Reload(Listener)
    <3>1. frame'[Listener] = IdleFrame
      BY <2>4 DEF Reload, At
    <3>2. ~Applies(status[f.sid], f.act)
      BY <1>1, <2>4, <3>1, FrameFields DEF Reload, Goto, IdleFrame
    <3>3. f.sid \in offered'
      BY <2>4, <3>2 DEF Reload
    <3> QED
      BY <1>3, <1>6, <2>1, <3>3 DEF Grounds, Deletable
  <2> QED
    BY <2>2, <2>3, <2>4
<1> QED
  BY <1>2, <1>4, <1>5, <1>6

(* A notification is put off on good grounds: what the listener has just
   committed, or a transcript it has heard of. *)
LEMMA DraftGroundedStep ==
  ASSUME TypeOK, BotTypes, AskInv, FramesBacked, TranscriptBacked, [BotNext]_allVars
  PROVE  DraftGrounded'
<1> SUFFICES ASSUME NEW n, n = draft', n # NoNote PROVE Grounds(n.sid, NoteKeyboard[n.kind])'
  BY DEF DraftGrounded, NoNote
<1>1. [Next]_vars
  BY BotStepIsStep
<1>2. CASE n = draft
  <2>1. n.sid \in Sessions /\ Grounds(n.sid, NoteKeyboard[n.kind])
    BY <1>2 DEF AskInv, DraftGrounded, BotTypes, BotTypeOK
  <2> QED
    BY <1>1, <2>1, GroundsStay
<1>3. CASE ListenerResume
  BY <1>1, <1>3, ListenerGrounded DEF ListenerResume, At
<1>4. CASE ListenerTakes /\ n # draft
  <2>1. ListenerIgnore /\ Head(events).ev = "transcript_ready"
          /\ n = Note("transcript", Head(events).sid)
    BY <1>4 DEF ListenerTakes
  <2> DEFINE s == Head(events).sid
  <2>2. n.sid = s /\ NoteKeyboard[n.kind] = "delete_audio"
    BY <2>1, Keyboards DEF Note
  <2>3. s \in Sessions /\ Head(events) = [sid |-> s, ev |-> "transcript_ready"]
    BY <2>1, HeadTypes DEF ListenerIgnore
  <2>4. \E i \in DOMAIN events : events[i] = [sid |-> s, ev |-> "transcript_ready"]
    BY <2>1, <2>3, HeardIsIn DEF Hears, ListenerIgnore
  <2>5. transcript[s] /\ audio[s] # "none"
    BY <2>3, <2>4 DEF TranscriptBacked, AskInv, TranscriptsRecorded
  <2>6. audio'[n.sid] # "none" /\ n.sid \in offered'
    BY <2>1, <2>2, <2>5 DEF ListenerIgnore, fileVars
  <2> QED
    BY <2>2, <2>6 DEF Grounds, Deletable
<1>5. CASE ~(ListenerResume \/ ListenerTakes)
  <2>1. draft' = draft \/ draft' = NoNote
    BY <1>5 DEF BotNext, UserStep, SendLink, ChooseSchedule, JoinRefused, DateRefused, Command, JoinNow,
       SendDate, Create, Press, HandlerStep, BotResume, PollJoin, PollTranscript, NoticeStep,
       PublishNote, Remind, Receive, Unnoticed, botVars, allVars, stream, BotRestart, NoteLost,
       Outage, ListenerFails, ClientTimeout
  <2> QED
    BY <1>2, <2>1
<1> QED
  BY <1>2, <1>3, <1>4, <1>5

(* So is one that is published, and the followup reminds of what it finds
   pending. *)
LEMMA NotesGroundedStep ==
  ASSUME TypeOK, BotTypes, AskInv, AudioBacked, [BotNext]_allVars
  PROVE  NotesGrounded'
<1> USE DEF AskInv, BotTypes, BotTypeOK
<1>1. [Next]_vars
  BY BotStepIsStep
<1>2. ASSUME \A i \in DOMAIN notes' : \E j \in DOMAIN notes : notes'[i] = notes[j]
      PROVE  NotesGrounded'
  <2> SUFFICES ASSUME NEW n, NEW i \in DOMAIN notes', n = notes'[i]
               PROVE  Grounds(n.sid, NoteKeyboard[n.kind])'
    BY DEF NotesGrounded
  <2>1. n.sid \in Sessions /\ Grounds(n.sid, NoteKeyboard[n.kind])
    BY <1>2, NotesHold DEF NotesGrounded
  <2> QED
    BY <1>1, <2>1, GroundsStay
<1>3. ASSUME NEW n \in Notice, Grounds(n.sid, NoteKeyboard[n.kind]), notes' = Append(notes, n)
      PROVE  NotesGrounded'
  <2> SUFFICES ASSUME NEW m, NEW i \in DOMAIN notes', m = notes'[i]
               PROVE  Grounds(m.sid, NoteKeyboard[m.kind])'
    BY DEF NotesGrounded
  <2>1. Len(notes) \in Nat /\ DOMAIN notes = 1..Len(notes)
    BY NotesHold, LenProperties
  <2>2. i \in 1..(Len(notes) + 1)
    BY <1>3, <2>1, NotesHold, AppendProperties, LenProperties
  <2>3. m = n \/ \E j \in DOMAIN notes : m = notes[j]
    BY <1>3, <2>1, <2>2, NotesHold, AppendProperties
  <2>4. m.sid \in Sessions /\ Grounds(m.sid, NoteKeyboard[m.kind])
    BY <1>3, <2>3, NotesHold DEF NotesGrounded, Notice
  <2> QED
    BY <1>1, <2>4, GroundsStay
<1>4. CASE PublishNote
  BY <1>3, <1>4 DEF PublishNote, DraftGrounded, Notice
<1>5. ASSUME NEW s \in Sessions, Remind(s)
      PROVE  NotesGrounded'
  <2> DEFINE n == Note("reminder", s)
  <2>1. n \in Notice /\ n.sid = s /\ NoteKeyboard[n.kind] = "delete_audio"
    BY Keyboards DEF Note, Notice
  <2>2. audio[s] # "none" /\ s \in Deletable
    BY <1>5 DEF Remind, Pending, AudioBacked, PostCapture, PendingOffered, Deletable
  <2>3. Grounds(n.sid, NoteKeyboard[n.kind])
    BY <2>1, <2>2, GroundsOf
  <2> HIDE DEF n
  <2> QED
    BY <1>3, <1>5, <2>1, <2>3 DEF Remind, n
<1>6. CASE Receive \/ NoteLost
  <2>1. notes \in Seq(Notice) /\ notes # <<>> /\ notes' = Tail(notes)
    BY <1>6, NotesHold DEF Receive, NoteLost
  <2>2. \A i \in DOMAIN Tail(notes) : \E j \in DOMAIN notes : Tail(notes)[i] = notes[j]
    BY <2>1, TailEntries
  <2> QED
    BY <1>2, <2>1, <2>2
<1>7. CASE BotRestart
  BY <1>2, <1>7, NotesHold, Suffix DEF BotRestart
<1>8. CASE UNCHANGED notes
  BY <1>2, <1>8
<1> QED
  BY <1>4, <1>5, <1>6, <1>7, <1>8
     DEF BotNext, UserStep, SendLink, ChooseSchedule, JoinRefused, DateRefused, Command, JoinNow,
         SendDate, Create, Press, HandlerStep, BotResume, PollJoin, PollTranscript, NoticeStep,
         ListenerResume, ListenerTakes, Unnoticed, botVars, allVars, stream, Outage, ListenerFails,
         ClientTimeout

(* AskInv is inductive, given what is proved of the recorder. *)
LEMMA AskStep ==
  ASSUME TypeOK, BotTypes, AskInv, AudioInv, TranscriptBacked, WritesFromAudio, [BotNext]_allVars
  PROVE  AskInv'
<1>1. [Next]_vars
  BY BotStepIsStep
<1>2. HandlersFollow' /\ PendingOffered' /\ TranscriptsRecorded'
  BY <1>1, FollowStep, PendingOfferedStep, TranscriptsRecordedStep DEF AskInv
<1>3. KeyboardsGrounded' /\ NotesGrounded' /\ DraftGrounded'
  BY KeyboardsGroundedStep, NotesGroundedStep, DraftGroundedStep DEF AudioInv
<1> QED
  BY <1>2, <1>3 DEF AskInv

(* AskInv holds in an empty chat. *)
LEMMA AskInit == BotInit => AskInv
BY HandlerTypes
   DEF BotInit, Init, AskInv, KeyboardsGrounded, NotesGrounded, DraftGrounded, HandlersFollow,
       PendingOffered, TranscriptsRecorded, Ready, Replied

(* The transcriber writes only what it has read from a file. *)
LEMMA WritesAlways == Spec => []WritesFromAudio
BY InitTypes, StepTypes, InitVisits, StepVisits, InitRefines, StepRefines, StepWritesFromAudio, PTL
   DEF Spec

(* AskInv holds as long as the bot and the recorder run. *)
LEMMA AskAlways == BotSpec => []AskInv
<1>1. /\ BotInit => BotTypes /\ AskInv
      /\ TypeOK /\ BotTypes /\ [BotNext]_allVars => BotTypes'
  BY BotInitTypes, AskInit, BotStepTypes
<1>2. TypeOK /\ BotTypes /\ AskInv /\ AudioInv /\ TranscriptBacked /\ WritesFromAudio
        /\ [BotNext]_allVars => AskInv'
  BY AskStep
<1> QED
  BY <1>1, <1>2, BotIsUser, TypeCorrect, AudioAgreed, TranscriptsBacked, WritesAlways, PTL
     DEF BotSpec

(* The keyboard that deletes is in the chat only of a session for which
   Recorder lets the user ask it, however late or lost the bot's messages are:
   its free user presses every button the bot really sends. *)
THEOREM DeleteIsOffered == BotSpec => []DeleteOffered
<1>1. AskInv => DeleteOffered
  BY DEF AskInv, KeyboardsGrounded, Grounds, DeleteOffered
<1> QED
  BY <1>1, AskAlways, PTL

(* The bot asks what to do after a recording only when there is one: its
   keyboards follow answers, answers follow commits, and commits follow the
   worker that has written the file. *)
THEOREM AskedIsBacked == BotSpec => []AskedBacked
<1>1. AskInv => AskedBacked
  BY DEF AskInv, KeyboardsGrounded, Grounds, AskedBacked
<1> QED
  BY <1>1, AskAlways, PTL

-----------------------------------------------------------------------------
(* From here on: runs in which nothing has crashed and no answer is lost.  In
   these a session that is left to its user has been heard of in the chat.  The
   steps of such a run, but the user's, the handlers' and the notifications': *)
Others ==
  \/ \E p \in Sessions \cup {Followup} : Resume(p)
  \/ \E s \in Sessions : FireJoin(s) \/ WorkerStep(s)
  \/ FollowupStep \/ Sweep
  \/ \E s \in Sessions, ev \in ProviderEvents : Watch(s, ev)
  \/ TranscriberStep

HeardStep ==
  \/ UserStep
  \/ \E p \in Slots : HandlerStep(p)
  \/ NoticeStep
  \/ \E s \in Sessions : Remind(s)
  \/ Receive
  \/ Unnoticed(Others)
  \/ UNCHANGED allVars

(* Faults of the recorder are counted, and none is ever forgotten. *)
LEMMA FaultsCount ==
  ASSUME TypeOK, [Next]_vars
  PROVE  /\ faults \in Nat
         /\ faults' = faults \/ faults' = faults + 1
         /\ Fault => faults' = faults + 1
<1>1. faults \in Nat
  BY DEF TypeOK, ProcessTypes
<1>2. Fault => faults' = faults + 1
  BY DEF Fault, GatewayRestart, ListenerFail, WorkerCrash, TranscriberCrash
<1>3. (\E p \in Slots, s \in Sessions : Request(p, s)) => faults' = faults
  BY DEF Request, CreateCheck, RequestTransition, RequestSend, RequestCancel, RequestDelete,
     RequestRetain
<1>4. (\E p \in Procs : Resume(p)) => faults' = faults
  BY DEF Resume, CreateInsert, CreateArm, Publish, Lookup, Timeout, Reap, ExpireCommit, Reload,
     CommitTransition, PublishJob, Spawn
<1>5. (ListenerStep \/ FollowupStep \/ \E s \in Sessions : FireJoin(s)) => faults' = faults
  BY DEF ListenerStep, ListenerReact, ListenerSignal, ListenerIgnore, FollowupStep, FollowupSelect,
     FollowupResolve, FireJoin
<1>6. ((\E s \in Sessions : WorkerStep(s)) \/ \E s \in Sessions, ev \in ProviderEvents : Watch(s, ev)) => faults' = faults
  BY DEF WorkerStep, Join, JoinFail, TakeCommand, StopCapture, Leave, Watch
<1>7. (TranscriberStep) => faults' = faults
  BY DEF TranscriberStep, TakeJob, StartJob, LoadAudio, WriteTranscript, TranscriptionFail
<1>8. (UNCHANGED vars) => faults' = faults
  BY DEF vars
<1>9. Sweep => faults' = faults \/ faults' = faults + 1
  BY DEF Sweep
<1> QED
  BY <1>1, <1>2, <1>3, <1>4, <1>5, <1>6, <1>7, <1>8, <1>9 DEF Next

(* So are those of the bot, and a run without either consists of the steps
   above. *)
LEMMA HeardSteps ==
  ASSUME TypeOK, BotTypes, [BotNext]_allVars, AllHeard'
  PROVE  AllHeard /\ HeardStep
<1>1. faults \in Nat /\ botFaults \in Nat
  BY FaultsCount, BotStepIsStep DEF BotTypes, BotTypeOK
<1>2. faults = 0 /\ ~Fault
  BY <1>1, FaultsCount, BotStepIsStep DEF AllHeard
<1>3. ~BotFault
  BY <1>1 DEF BotFault, AllHeard
<1>4. botFaults = 0
  BY <1>1, <1>3 DEF AllHeard, BotNext, UserStep, SendLink, ChooseSchedule, JoinRefused, DateRefused,
     Command, JoinNow, SendDate, Create, Press, HandlerStep, BotResume, PollJoin, PollTranscript,
     NoticeStep, ListenerResume, ListenerTakes, PublishNote, Remind, Receive, Unnoticed, botVars,
     allVars, BotRestart, NoteLost, Outage, ListenerFails, ClientTimeout
<1>5. ~(BotRestart \/ NoteLost \/ Outage \/ ListenerFails \/ \E p \in Slots : ClientTimeout(p))
  BY <1>2, <1>3 DEF BotRestart, NoteLost, Outage, ListenerFails, ClientTimeout, Fault
<1>6. Unnoticed(Elsewhere) => Unnoticed(Others)
  BY <1>2 DEF Unnoticed, Elsewhere, Others, Fault
<1> QED
  BY <1>2, <1>4, <1>5, <1>6 DEF AllHeard, BotNext, HeardStep

-----------------------------------------------------------------------------
(* Only the listener takes events from their stream, and takes up what they
   call for. *)
EventsStay == \A i \in DOMAIN events : i \in DOMAIN events' /\ events'[i] = events[i]

(* An event that is added leaves the others where they are. *)
LEMMA EmitStays ==
  ASSUME TypeOK, NEW ev, NEW s, Emit(ev, s)
  PROVE  EventsStay /\ \E i \in DOMAIN events' : events'[i] = [sid |-> s, ev |-> ev]
<1>1. events \in Seq([sid : Sessions, ev : Event])
  BY DEF TypeOK, StreamTypes
<1>2. /\ events'[Len(events) + 1] = [sid |-> s, ev |-> ev]
      /\ \A i \in 1..Len(events) : events'[i] = events[i]
      /\ DOMAIN events = 1..Len(events)
      /\ DOMAIN events' = 1..(Len(events) + 1)
      /\ Len(events) \in Nat
  BY <1>1 DEF Emit
<1> QED
  BY <1>2 DEF EventsStay

(* A transcript is announced as it is written. *)
Announcing ==
  \A s \in Sessions : transcript'[s] /\ ~transcript[s]
    => \E i \in DOMAIN events' : events'[i] = [sid |-> s, ev |-> "transcript_ready"]

LeavesListener == SameWork(Listener) /\ EventsStay /\ Announcing

(* The requests of the user do not concern the listener ... *)
LEMMA RequestsLeaveListener ==
  ASSUME TypeOK, NEW p \in Slots, NEW s \in Sessions, Request(p, s)
  PROVE  LeavesListener
<1>1. SameWork(Listener)
  BY RequestsLeave, ProcTypes, ProcessesAssumption
<1>2. UNCHANGED <<events, transcript>>
  BY DEF Request, CreateCheck, RequestTransition, RequestSend, RequestCancel, RequestDelete,
     RequestRetain, fileVars, streamVars
<1> QED
  BY <1>1, <1>2 DEF LeavesListener, EventsStay, Announcing

(* ... no more than the coroutines that serve them, or the jobs ... *)
LEMMA CoroutinesLeaveListener ==
  ASSUME TypeOK, NEW p \in Procs \ {Listener}, Resume(p)
  PROVE  LeavesListener
<1>1. SameWork(Listener)
  BY CoroutinesLeave, ProcTypes
<1>2. UNCHANGED <<events, transcript>>
  BY DEF Resume, CreateInsert, CreateArm, Publish, Lookup, Timeout, Reap, ExpireCommit, Reload,
     CommitTransition, PublishJob, Spawn, fileVars, streamVars
<1> QED
  BY <1>1, <1>2 DEF LeavesListener, EventsStay, Announcing

(* ... and the processes only send it events. *)
LEMMA OthersLeaveListener ==
  ASSUME TypeOK, Others
  PROVE  LeavesListener
<1>1. CASE \E p \in Sessions \cup {Followup} : Resume(p)
  BY <1>1, CoroutinesLeaveListener, ProcTypes, ProcessesAssumption
<1>2. CASE FollowupStep \/ Sweep \/ \E s \in Sessions : FireJoin(s)
  <2>1. frame'[Listener] = frame[Listener]
    <3>1. Listener \in Procs /\ Listener # Followup /\ Listener \notin Sessions
            /\ frame \in [Procs -> Suspended]
      BY ProcTypes, ProcessesAssumption DEF TypeOK, FrameTypes
    <3>2. CASE \E s \in Sessions : FireJoin(s)
      BY <3>1, <3>2 DEF FireJoin
    <3>3. CASE FollowupStep \/ Sweep
      BY <3>1, <3>3 DEF FollowupStep, FollowupSelect, FollowupResolve, Sweep, Goto, gatewayVars
    <3> QED
      BY <1>2, <3>2, <3>3
  <2>2. UNCHANGED <<events, transcript>>
    BY <1>2 DEF FollowupStep, FollowupSelect, FollowupResolve, Sweep, FireJoin, fileVars, streamVars
  <2> QED
    BY <2>1, <2>2 DEF LeavesListener, SameWork, EventsStay, Announcing
<1>3. ASSUME NEW s \in Sessions, WorkerStep(s) \/ \E ev \in ProviderEvents : Watch(s, ev)
      PROVE  LeavesListener
  <2>1. UNCHANGED <<frame, transcript>>
    BY <1>3 DEF WorkerStep, Join, JoinFail, TakeCommand, StopCapture, Leave, Watch, gatewayVars, fileVars
  <2>2. UNCHANGED events \/ \E ev : Emit(ev, s)
    BY <1>3 DEF WorkerStep, Join, JoinFail, TakeCommand, StopCapture, Leave, Watch
  <2>3. EventsStay
    BY <2>2, EmitStays DEF EventsStay
  <2> QED
    BY <2>1, <2>3 DEF LeavesListener, SameWork, Announcing
<1>4. CASE TranscriberStep
  <2>1. UNCHANGED frame
    BY <1>4 DEF TranscriberStep, TakeJob, StartJob, LoadAudio, WriteTranscript, TranscriptionFail,
       gatewayVars
  <2>2. UNCHANGED events \/ \E ev, s : Emit(ev, s)
    BY <1>4 DEF TranscriberStep, TakeJob, StartJob, LoadAudio, WriteTranscript, TranscriptionFail,
       streamVars
  <2>3. EventsStay
    BY <2>2, EmitStays DEF EventsStay
  <2>4. CASE WriteTranscript
    <3>1. \A s \in Sessions : transcript'[s] /\ ~transcript[s] => s = transcriber.sid
      BY <2>4 DEF WriteTranscript, TypeOK, FileTypes
    <3> QED
      BY <2>1, <2>3, <2>4, <3>1, EmitStays DEF LeavesListener, SameWork, Announcing, WriteTranscript
  <2>5. CASE ~WriteTranscript
    <3>1. UNCHANGED transcript
      BY <1>4, <2>5 DEF TranscriberStep, TakeJob, StartJob, LoadAudio, TranscriptionFail, fileVars
    <3> QED
      BY <2>1, <2>3, <3>1 DEF LeavesListener, SameWork, Announcing
  <2> QED
    BY <2>4, <2>5
<1> QED
  BY <1>1, <1>2, <1>3, <1>4 DEF Others

(* Where word of the transcript of session s is on its way to the chat. *)
Told(s) ==
  \/ s \in delivered
  \/ \E i \in DOMAIN events : events[i] = [sid |-> s, ev |-> "transcript_ready"]
  \/ /\ frame[Listener].sid = s
     /\ frame[Listener].act \in {"transcript_ready", "await_audio_disposal"}
  \/ draft = Note("transcript", s)
  \/ \E i \in DOMAIN notes : notes[i] = Note("transcript", s)

(* The inductive form of TranscriptSent: word of a transcript is never lost. *)
TranscriptsTold == AllHeard => \A s \in Sessions \ Silent : transcript[s] => Told(s)

(* The bot itself writes no transcript, and does not take events. *)
LEMMA BotLeavesListener ==
  ASSUME TypeOK, HeardStep, ~(ListenerResume \/ ListenerTakes)
  PROVE  LeavesListener
<1>1. CASE UNCHANGED vars
  BY <1>1 DEF LeavesListener, SameWork, EventsStay, Announcing, vars, gatewayVars, streamVars, fileVars
<1>2. CASE \E p \in Slots, s \in Sessions : Request(p, s)
  BY <1>2, RequestsLeaveListener
<1>3. CASE \E p \in Slots : Resume(p)
  BY <1>3, CoroutinesLeaveListener, ProcTypes, ProcessesAssumption
<1>4. UserStep => UNCHANGED vars \/ \E p \in Slots, s \in Sessions : Request(p, s)
  BY AsksRequest, CreatesRequest
     DEF UserStep, SendLink, ChooseSchedule, JoinRefused, DateRefused, Command, JoinNow, SendDate, Press
<1>5. CASE Unnoticed(Others)
  BY <1>5, OthersLeaveListener DEF Unnoticed
<1> QED
  BY <1>1, <1>2, <1>3, <1>4, <1>5
     DEF HeardStep, HandlerStep, BotResume, PollJoin, PollTranscript, NoticeStep, PublishNote, Remind,
         Receive, allVars

(* What is in a stream is its first entry, or is left when that is taken. *)
LEMMA HeadOrTail ==
  ASSUME NEW S, NEW q \in Seq(S), NEW i \in DOMAIN q
  PROVE  q # <<>> /\ (q[i] = Head(q) \/ \E j \in DOMAIN Tail(q) : Tail(q)[j] = q[i])
<1>1. Len(q) \in Nat /\ DOMAIN q = 1..Len(q) /\ q # <<>>
  BY LenProperties
<1>2. CASE i = 1
  BY <1>1, <1>2
<1>3. CASE i # 1
  <2>1. i - 1 \in 1..(Len(q) - 1)
    BY <1>1, <1>3
  <2>2. DOMAIN Tail(q) = 1..(Len(q) - 1) /\ Tail(q)[i - 1] = q[i]
    BY <1>1, <2>1
  <2> QED
    BY <1>1, <2>1, <2>2
<1> QED
  BY <1>1, <1>2, <1>3

(* A notification stays in the stream until it is the one that is sent. *)
LEMMA NotesStay ==
  ASSUME BotTypes, HeardStep, NEW i \in DOMAIN notes
  PROVE  \/ Receive /\ notes[i] = Head(notes)
         \/ \E j \in DOMAIN notes' : notes'[j] = notes[i]
<1>1. notes \in Seq(Notice) /\ Len(notes) \in Nat /\ DOMAIN notes = 1..Len(notes)
  BY NotesHold, LenProperties
<1>2. CASE UNCHANGED notes
  BY <1>2
<1>3. CASE Receive
  BY <1>1, <1>3, HeadOrTail DEF Receive
<1>4. ASSUME NEW n, notes' = Append(notes, n)
      PROVE  \E j \in DOMAIN notes' : notes'[j] = notes[i]
  <2>1. i \in DOMAIN notes' /\ notes'[i] = notes[i]
    BY <1>1, <1>4
  <2> QED
    BY <2>1
<1>5. UNCHANGED notes \/ Receive \/ \E n : notes' = Append(notes, n)
  BY DEF HeardStep, UserStep, SendLink, ChooseSchedule, JoinRefused, DateRefused, Command, JoinNow,
     SendDate, Create, Press, HandlerStep, BotResume, PollJoin, PollTranscript, NoticeStep,
     ListenerResume, ListenerTakes, PublishNote, Remind, Unnoticed, botVars, allVars, stream
<1> QED
  BY <1>2, <1>3, <1>4, <1>5

(* A notification is put off until it is published. *)
LEMMA DraftStays ==
  ASSUME BotTypes, HeardStep, draft # NoNote
  PROVE  \/ draft' = draft /\ ~(ListenerResume \/ ListenerTakes)
         \/ \E j \in DOMAIN notes' : notes'[j] = draft
<1>1. notes \in Seq(Notice) /\ Len(notes) \in Nat
  BY NotesHold, LenProperties
<1>2. CASE PublishNote
  <2>1. notes' = Append(notes, draft)
    BY <1>2 DEF PublishNote
  <2>2. Len(notes) + 1 \in DOMAIN notes' /\ notes'[Len(notes) + 1] = draft
    BY <1>1, <2>1
  <2> QED
    BY <2>2
<1>3. CASE ~PublishNote
  BY <1>3 DEF HeardStep, UserStep, SendLink, ChooseSchedule, JoinRefused, DateRefused, Command, JoinNow,
     SendDate, Create, Press, HandlerStep, BotResume, PollJoin, PollTranscript, NoticeStep,
     ListenerResume, ListenerTakes, Remind, Receive, Unnoticed, botVars, allVars, stream
<1> QED
  BY <1>2, <1>3

(* What has been sent remains sent. *)
LEMMA DeliveredStays == HeardStep => delivered \subseteq delivered'
BY DEF HeardStep, UserStep, SendLink, ChooseSchedule, JoinRefused, DateRefused, Command, JoinNow,
   SendDate, Create, Press, HandlerStep, BotResume, PollJoin, PollTranscript, NoticeStep,
   ListenerResume, ListenerTakes, PublishNote, Remind, Receive, Unnoticed, botVars, allVars

(* The listener goes on until it has announced the transcript ... *)
LEMMA ResumeTells ==
  ASSUME TypeOK, BotTypes, NEW s \in Sessions, Told(s), HeardStep, ListenerResume
  PROVE  Told(s)'
<1> DEFINE f == frame[Listener]
<1>1. draft = NoNote /\ draft # Note("transcript", s) /\ UNCHANGED <<notes, delivered>>
  BY DEF ListenerResume, NoNote, Note
<1>2. UNCHANGED events
  BY DEF ListenerResume, Resume, CreateInsert, CreateArm, Publish, Lookup, Timeout, Reap, ExpireCommit,
     Reload, CommitTransition, PublishJob, Spawn, streamVars
<1>3. CASE f.sid = s /\ f.act \in {"transcript_ready", "await_audio_disposal"}
  <2>1. Listener \in Procs /\ Listener # Followup /\ f \in Suspended /\ frame \in [Procs -> Suspended]
    BY ProcTypes, ProcessesAssumption DEF TypeOK, FrameTypes
  <2>2. f.pc \in {"commit", "reload"}
    BY <1>3, <2>1 DEF Suspended, Frame, IdleFrame, LoopFrame, EndedFrame, Mode, Handshake
  <2>3. CommitTransition(Listener) \/ Reload(Listener)
    BY <2>2 DEF ListenerResume, Resume, CreateInsert, CreateArm, Publish, Lookup, Timeout, Reap,
       ExpireCommit, PublishJob, Spawn, At
  <2>4. CASE f.act = "await_audio_disposal" /\ (f.pc = "commit" \/ frame'[Listener] = IdleFrame)
    <3>1. draft' = Note("transcript", s)
      BY <1>3, <2>4, Announces DEF ListenerResume
    <3> QED
      BY <3>1 DEF Told
  <2>5. CASE f.act = "transcript_ready"
    <3>1. CommitTransition(Listener)
      BY <2>1, <2>3, <2>5, Holding DEF Reload
    <3>2. frame'[Listener] = Frame("reload", "await_audio_disposal", s)
      BY <1>3, <2>1, <2>5, <3>1 DEF CommitTransition, Continue, Goto
    <3> QED
      BY <3>2, FrameFields DEF Told
  <2>6. CASE Reload(Listener) /\ frame'[Listener] # IdleFrame
    <3>1. frame'[Listener] = Frame("commit", f.act, s)
      BY <1>3, <2>1, <2>6 DEF Reload, Goto
    <3> QED
      BY <1>3, <3>1, FrameFields DEF Told
  <2>7. CommitTransition(Listener) => f.pc = "commit"
    BY DEF CommitTransition, At
  <2> QED
    BY <1>3, <2>3, <2>4, <2>5, <2>6, <2>7
<1> QED
  BY <1>1, <1>2, <1>3 DEF Told

(* ... and takes up, or announces at once, the event that tells of it. *)
LEMMA TakesTells ==
  ASSUME TypeOK, BotTypes, NEW s \in Sessions, Told(s), HeardStep, ListenerTakes
  PROVE  Told(s)'
<1> DEFINE Entry == [sid |-> s, ev |-> "transcript_ready"]
<1>1. draft = NoNote /\ draft # Note("transcript", s) /\ UNCHANGED <<notes, delivered>>
  BY DEF ListenerTakes, NoNote, Note
<1>2. /\ At(Listener, "idle") /\ events # <<>> /\ events' = Tail(events)
      /\ events \in Seq([sid : Sessions, ev : Event])
  BY DEF ListenerTakes, ListenerReact, ListenerSignal, ListenerIgnore, Consume, TypeOK, StreamTypes
<1>3. frame[Listener].act = "none" /\ Listener \in Procs /\ frame \in [Procs -> Suspended]
  <2>1. frame[Listener] \in Suspended
    BY ProcTypes DEF TypeOK, FrameTypes
  <2> QED
    BY <1>2, <2>1, ProcTypes DEF At, Suspended, Frame, IdleFrame, LoopFrame, EndedFrame, TypeOK, FrameTypes
<1>4. ASSUME NEW i \in DOMAIN events, events[i] = Entry
      PROVE  Told(s)'
  <2>1. CASE \E j \in DOMAIN events' : events'[j] = Entry
    BY <2>1 DEF Told
  <2>2. CASE Head(events) = Entry
    <3>1. Head(events).sid = s /\ Head(events).ev = "transcript_ready"
      BY <2>2
    <3>2. CASE ListenerReact
      <4>1. PICK act \in Wanted("transcript_ready", status[s]) : Goto(Listener, Frame("commit", act, s))
        BY <3>1, <3>2 DEF ListenerReact, Reaction
      <4>2. act \in {"transcript_ready", "await_audio_disposal"}
        BY <4>1 DEF Wanted
      <4>3. frame'[Listener] = Frame("commit", act, s)
        BY <1>3, <4>1 DEF Goto
      <4> QED
        BY <4>2, <4>3, FrameFields DEF Told
    <3>3. CASE ~ListenerReact
      <4>1. draft' = Note("transcript", s)
        BY <3>1, <3>3 DEF ListenerTakes, ListenerSignal
      <4> QED
        BY <4>1 DEF Told
    <3> QED
      BY <3>2, <3>3
  <2> QED
    BY <1>2, <1>4, <2>1, <2>2, HeadOrTail
<1> QED
  BY <1>1, <1>3, <1>4 DEF Told

(* TranscriptsTold is inductive. *)
LEMMA TellStep ==
  ASSUME TypeOK, BotTypes, TranscriptsTold, [BotNext]_allVars
  PROVE  TranscriptsTold'
<1> SUFFICES ASSUME AllHeard', NEW s \in Sessions \ Silent, transcript'[s] PROVE Told(s)'
  BY DEF TranscriptsTold
<1>1. AllHeard /\ HeardStep
  BY HeardSteps
<1>2. transcript[s] => Told(s)
  BY <1>1 DEF TranscriptsTold
<1>3. CASE ListenerResume \/ ListenerTakes
  <2>1. UNCHANGED transcript
    BY <1>3 DEF ListenerResume, ListenerTakes, ListenerReact, ListenerSignal, ListenerIgnore, Resume,
       CreateInsert, CreateArm, Publish, Lookup, Timeout, Reap, ExpireCommit, Reload, CommitTransition,
       PublishJob, Spawn, fileVars
  <2> QED
    BY <1>1, <1>2, <1>3, <2>1, ResumeTells, TakesTells
<1>4. CASE ~(ListenerResume \/ ListenerTakes)
  <2>1. SameWork(Listener) /\ EventsStay /\ Announcing
    BY <1>1, <1>4, BotLeavesListener DEF LeavesListener
  <2>2. CASE ~transcript[s]
    BY <2>1, <2>2 DEF Announcing, Told
  <2>3. CASE draft = Note("transcript", s)
    <3>1. draft # NoNote
      BY <2>3 DEF NoNote, Note
    <3> QED
      BY <1>1, <2>3, <3>1, DraftStays DEF Told
  <2>4. ASSUME NEW i \in DOMAIN notes, notes[i] = Note("transcript", s)
        PROVE  Told(s)'
    <3>1. CASE Receive /\ notes[i] = Head(notes)
      <4>1. Head(notes).kind = "transcript" /\ Head(notes).sid = s
        BY <2>4, <3>1 DEF Note
      <4>2. UNCHANGED transcript
        BY <3>1 DEF Receive, vars, fileVars
      <4>3. s \in delivered'
        BY <3>1, <4>1, <4>2 DEF Receive, Downloadable
      <4> QED
        BY <4>3 DEF Told
    <3> QED
      BY <1>1, <2>4, <3>1, NotesStay DEF Told
  <2>5. CASE s \in delivered
    BY <1>1, <2>5, DeliveredStays DEF Told
  <2>6. CASE \E i \in DOMAIN events : events[i] = [sid |-> s, ev |-> "transcript_ready"]
    BY <2>1, <2>6 DEF EventsStay, Told
  <2>7. CASE frame[Listener].sid = s /\ frame[Listener].act \in {"transcript_ready", "await_audio_disposal"}
    BY <2>1, <2>7 DEF SameWork, Told
  <2> QED
    BY <1>2, <2>2, <2>3, <2>4, <2>5, <2>6, <2>7 DEF Told
<1> QED
  BY <1>3, <1>4

(* A transcript in which something is said reaches the chat, by the poll or by
   the notification, for any number of requests at once: once nobody is about
   to say anything about its session, it has been sent. *)
THEOREM TranscriptIsSent == BotSpec => []TranscriptSent
<1>1. BotInit => TranscriptsTold
  BY DEF BotInit, Init, TranscriptsTold
<1>2. TypeOK /\ BotTypes /\ TranscriptsTold /\ [BotNext]_allVars => TranscriptsTold'
  BY TellStep
<1>3. BotInit => BotTypes
  BY BotInitTypes
<1>4. TypeOK /\ BotTypes /\ [BotNext]_allVars => BotTypes'
  BY BotStepTypes
<1>5. TranscriptsTold => TranscriptSent
  <2> SUFFICES ASSUME TranscriptsTold, NEW s \in Sessions \ Silent, AllHeard, Settled(s), transcript[s]
               PROVE  s \in delivered
    BY DEF TranscriptSent
  <2>1. Told(s)
    BY DEF TranscriptsTold
  <2> QED
    BY <2>1, ProcTypes DEF Told, Settled, InFlight, Note
<1> QED
  BY <1>1, <1>2, <1>3, <1>4, <1>5, BotIsUser, TypeCorrect, PTL DEF BotSpec

-----------------------------------------------------------------------------
(* Who commits what leaves a session to its user: the listener the recording,
   a request the rest, as no provider reports the end of a meeting. *)
Committer(p, f) ==
  /\ f.act \in {"stop_recording", "decline_leave", "leave"} => p \in Slots
  /\ f.act = "recording" => p = Listener

CommittersKnown == \A p \in Procs : Committer(p, frame[p])

(* A coroutine that goes on does so with what it has, or with one of few
   things. *)
LEMMA GoesOnWith ==
  ASSUME TypeOK, NEW p \in Procs, Resume(p)
  PROVE  \/ SameWork(p)
         \/ frame'[p].act \in {"none", "start_join", "await_audio_disposal", "retain_audio"}
<1>1. frame \in [Procs -> Suspended]
  BY DEF TypeOK, FrameTypes
<1>2. IdleFrame.act = "none" /\ LoopFrame.act = "none" /\ EndedFrame.act = "none"
  BY FrameFields DEF IdleFrame, LoopFrame, EndedFrame
<1>3. CASE CreateInsert(p) \/ CreateArm(p) \/ Timeout(p) \/ PublishJob(p) \/ Spawn(p)
  BY <1>1, <1>2, <1>3, FrameFields
     DEF CreateInsert, CreateArm, Timeout, PublishJob, Spawn, Finish, Goto, SameWork
<1>4. CASE Publish(p) \/ Lookup(p) \/ Reap(p)
  BY <1>1, <1>4, Holding, FrameFields DEF Publish, Lookup, Reap, Goto, SameWork, Woken
<1>5. CASE ExpireCommit(p)
  <2>1. frame[p].act \in {"retain_audio", "none"}
    BY <1>5, Holding DEF ExpireCommit
  <2>2. CASE p = Followup
    BY <1>1, <1>5, <2>2, FrameFields DEF ExpireCommit, Goto, SameWork
  <2>3. CASE p # Followup
    BY <1>1, <1>2, <1>5, <2>3, FrameFields DEF ExpireCommit, Goto, SameWork
  <2> QED
    BY <2>2, <2>3
<1>6. CASE Reload(p)
  BY <1>1, <1>2, <1>6, FrameFields DEF Reload, Goto, SameWork
<1>7. CASE CommitTransition(p)
  BY <1>1, <1>2, <1>7, FrameFields DEF CommitTransition, Continue, Rest, Goto, SameWork
<1> QED
  BY <1>3, <1>4, <1>5, <1>6, <1>7 DEF Resume

(* CommittersKnown is inductive, while no meeting is reported to have ended. *)
LEMMA CommittersStep ==
  ASSUME TypeOK, CommittersKnown, EventsLeft, [Next]_vars
  PROVE  CommittersKnown'
<1> SUFFICES ASSUME NEW p \in Procs PROVE Committer(p, frame'[p])
  BY DEF CommittersKnown, Committer
<1>1. frame \in [Procs -> Suspended] /\ Committer(p, frame[p])
  BY DEF TypeOK, FrameTypes, CommittersKnown
<1>2. SameWork(p) => Committer(p, frame'[p])
  BY <1>1 DEF SameWork, Committer
<1>3. ASSUME frame'[p].act \in {"none", "start_join", "await_audio_disposal", "retain_audio", "delete_audio",
                               "cancel"} \cup Mode
      PROVE  Committer(p, frame'[p])
  BY <1>3 DEF Committer, Mode
<1>4. IdleFrame.act = "none" /\ LoopFrame.act = "none" /\ EndedFrame.act = "none"
  BY FrameFields DEF IdleFrame, LoopFrame, EndedFrame
<1>5. ASSUME NEW q \in Slots, NEW s \in Sessions, Request(q, s)
      PROVE  Committer(p, frame'[p])
  <2>1. CASE p # q
    BY <1>2, <1>5, <2>1, RequestsLeave
  <2>2. CASE p = q
    <3>1. ASSUME NEW act \in Action, RequestTransition(q, s, act) \/ RequestSend(q, s, act)
          PROVE  frame'[p].act = act /\ act # "recording"
      BY <1>1, <2>2, <3>1, FrameFields DEF RequestTransition, RequestSend, Goto, Handshake
    <3>2. CASE \E mode \in CreateModes : CreateCheck(q, s, mode)
      <4>1. PICK mode \in CreateModes : CreateCheck(q, s, mode)
        BY <3>2
      <4>2. frame'[p].act = mode
        BY <1>1, <2>2, <4>1, FrameFields DEF CreateCheck, Goto
      <4>3. mode \in Mode
        BY <4>1, SettingsAssumption DEF Mode
      <4> QED
        BY <1>3, <4>2, <4>3
    <3>3. CASE RequestCancel(q, s) \/ RequestRetain(q, s)
      BY <1>1, <1>3, <2>2, <3>3, FrameFields DEF RequestCancel, RequestRetain, Goto
    <3>4. CASE RequestDelete(q, s)
      <4>1. frame'[p] = frame[p] \/ frame'[p].act = "delete_audio"
        BY <1>1, <2>2, <3>4, FrameFields DEF RequestDelete
      <4> QED
        BY <1>1, <1>3, <4>1
    <3> QED
      BY <1>5, <2>2, <3>1, <3>2, <3>3, <3>4 DEF Request, Committer
  <2> QED
    BY <2>1, <2>2
<1>6. ASSUME NEW q \in Procs, Resume(q)
      PROVE  Committer(p, frame'[p])
  <2>1. CASE p # q
    BY <1>2, <1>6, <2>1, CoroutinesLeave
  <2>2. CASE p = q
    BY <1>2, <1>3, <1>6, <2>2, GoesOnWith
  <2> QED
    BY <2>1, <2>2
<1>7. CASE ListenerReact
  <2>1. PICK act \in Reaction(Head(events).ev, status[Head(events).sid]) :
               Goto(Listener, Frame("commit", act, Head(events).sid))
    BY <1>7 DEF ListenerReact
  <2>2. Head(events).ev # "meeting_ended"
    <3>1. 1 \in DOMAIN events /\ Head(events) = events[1]
      BY <1>7, LenProperties DEF ListenerReact, TypeOK, StreamTypes
    <3> QED
      BY <3>1 DEF EventsLeft
  <2>3. act \notin {"stop_recording", "decline_leave", "leave"}
    BY <2>1, <2>2 DEF Reaction, Wanted
  <2>4. CASE p = Listener
    BY <1>1, <2>1, <2>3, <2>4, FrameFields DEF Goto, Committer
  <2>5. CASE p # Listener
    BY <1>1, <2>1, <2>5 DEF Goto
  <2> QED
    BY <2>4, <2>5
<1>8. CASE ListenerSignal
  <2>1. SameWork(p)
    BY <1>1, <1>8, FrameFields DEF ListenerSignal, SameWork, Waiting, Woken
  <2> QED
    BY <1>2, <2>1
<1>9. CASE ListenerFail \/ FollowupStep \/ GatewayRestart
  <2>1. \/ frame'[p] = frame[p]
        \/ frame'[p].act \in {"none", "delete_audio", "retain_audio"}
    BY <1>1, <1>4, <1>9, FrameFields
       DEF ListenerFail, FollowupStep, FollowupSelect, FollowupResolve, GatewayRestart, Finish, Goto
  <2> QED
    BY <1>1, <1>3, <2>1
<1>10. CASE \E s \in Sessions : FireJoin(s)
  <2>1. frame'[p] = frame[p] \/ frame'[p].act = "start_join"
    BY <1>1, <1>10, FrameFields DEF FireJoin
  <2> QED
    BY <1>1, <1>3, <2>1
<1>11. CASE UNCHANGED frame
  BY <1>1, <1>11
<1> QED
  BY <1>5, <1>6, <1>7, <1>8, <1>9, <1>10, <1>11
     DEF Next, vars, ListenerStep, ListenerIgnore, Sweep, WorkerStep, Join, JoinFail,
         TakeCommand, StopCapture, Leave, Fault, WorkerCrash, Watch, TranscriberStep, TakeJob, StartJob,
         LoadAudio, WriteTranscript, TranscriptionFail, TranscriberCrash, gatewayVars

(* A handler has been started by a button of the keyboard it is to replace. *)
ButtonsPressed == \A p \in Slots : task[p].kb \in Keyboard => task[p].todo \in Buttons[task[p].kb]

(* Nothing but a button gives a handler a keyboard. *)
LEMMA ButtonsStep ==
  ASSUME BotTypes, ButtonsPressed, [BotNext]_allVars
  PROVE  ButtonsPressed'
<1> SUFFICES ASSUME NEW p \in Slots, task'[p].kb \in Keyboard
             PROVE  task'[p].todo \in Buttons[task'[p].kb]
  BY DEF ButtonsPressed
<1>1. task \in [Slots -> Task]
  BY DEF BotTypes, BotTypeOK, Task, Todo
<1>2. "none" \notin Keyboard /\ Ready.kb = "none" /\ \A t : AfterSuccess(t).kb = "none"
  BY Keyboards, HandlerTypes DEF Ready, AfterSuccess
<1>3. CASE task'[p] = task[p]
  BY <1>3 DEF ButtonsPressed
<1>4. ASSUME NEW q \in Slots, NEW s \in Sessions, NEW kb \in Keyboard, NEW act \in Action, Press(q, s, kb, act)
      PROVE  task'[p].todo \in Buttons[task'[p].kb]
  <2>1. task'[p] = task[p] \/ task'[p] = Handler(act, kb, s)
    BY <1>1, <1>4 DEF Press
  <2> QED
    BY <1>3, <1>4, <2>1, HandlerTypes DEF Press
<1>5. ASSUME NEW q \in Slots, NEW s \in Sessions, NEW mode \in CreateModes, Create(q, s, mode)
      PROVE  task'[p] = task[p] \/ task'[p].kb = "none"
  BY <1>1, <1>5, HandlerTypes DEF Create
<1>6. ASSUME NEW q \in Slots, HandlerStep(q) \/ ClientTimeout(q)
      PROVE  task'[p] = task[p] \/ task'[p].kb = "none"
  BY <1>1, <1>2, <1>6 DEF HandlerStep, BotResume, Answered, PollJoin, PollTranscript, ClientTimeout
<1>7. BotRestart \/ Outage => task'[p] = task[p] \/ task'[p].kb = "none"
  BY <1>2 DEF BotRestart, Outage
<1> QED
  BY <1>2, <1>3, <1>4, <1>5, <1>6, <1>7
     DEF BotNext, UserStep, SendLink, ChooseSchedule, JoinRefused, DateRefused, Command, JoinNow,
         SendDate, NoticeStep, ListenerResume, ListenerTakes, PublishNote, Remind, Receive, Unnoticed,
         botVars, allVars, NoteLost, ListenerFails

-----------------------------------------------------------------------------
(* A request that could change a keyboard has its handler, who waits for it:
   nobody gives up, and nothing restarts. *)
AnswersAwaited ==
  AllHeard => \A p \in Slots : frame[p].act \in Replied =>
    task[p].todo = frame[p].act /\ task[p].sid = frame[p].sid

(* A button leaves its request idle, or at the work its handler waits for. *)
LEMMA AskedWork ==
  ASSUME TypeOK, NEW p \in Slots, NEW s \in Sessions, NEW act \in Action, Ask(p, s, act),
         frame'[p].act \in Replied
  PROVE  frame'[p].act = act /\ frame'[p].sid = s
<1>1. p \in Procs /\ frame \in [Procs -> Suspended]
  BY ProcTypes DEF TypeOK, FrameTypes
<1>2. CASE act \in Replied
  BY <1>2, AskPutsToWork
<1>3. CASE act \notin Replied
  <2>1. ~(RequestTransition(p, s, act) \/ RequestSend(p, s, act))
    BY <1>3 DEF RequestTransition, RequestSend, Handshake, Replied
  <2>2. CASE RequestCancel(p, s) \/ RequestRetain(p, s)
    BY <1>1, <2>2, FrameFields DEF RequestCancel, RequestRetain, Goto, Replied
  <2>3. CASE RequestDelete(p, s)
    <3>1. frame[p].act = "none"
      BY <1>1, <2>3 DEF RequestDelete, At, Suspended, Frame, IdleFrame, LoopFrame, EndedFrame, Mode, Handshake
    <3> QED
      BY <1>1, <2>3, <3>1, FrameFields DEF RequestDelete, Replied
  <2> QED
    BY <2>1, <2>2, <2>3 DEF Ask
<1> QED
  BY <1>2, <1>3

(* What goes on without the user and the handlers leaves the requests at their
   work, and the handlers waiting. *)
LEMMA OthersLeaveWork ==
  ASSUME TypeOK, NEW p \in Slots,
         \/ NoticeStep \/ (\E s \in Sessions : Remind(s)) \/ Receive
         \/ Unnoticed(Others) \/ UNCHANGED allVars
  PROVE  SameWork(p) /\ (frame'[p] = frame[p] \/ At(p, "await")) /\ task'[p] = task[p]
<1>1. task'[p] = task[p]
  BY DEF NoticeStep, ListenerResume, ListenerTakes, PublishNote, Remind, Receive, Unnoticed, botVars,
     allVars
<1>2. CASE UNCHANGED vars
  BY <1>1, <1>2 DEF SameWork, vars, gatewayVars
<1>3. CASE ListenerResume \/ ListenerTakes
  <2>1. p # Listener
    BY ProcessesAssumption
  <2> QED
    BY <1>1, <1>3, <2>1, CoroutinesLeave, ServicesLeave, ProcTypes
       DEF ListenerResume, ListenerTakes, ListenerStep
<1>4. CASE Others
  <2>1. p \notin Sessions \cup {Followup}
    BY ProcessesAssumption
  <2> QED
    BY <1>1, <1>4, <2>1, CoroutinesLeave, ServicesLeave, ProcTypes DEF Others
<1> QED
  BY <1>2, <1>3, <1>4 DEF NoticeStep, PublishNote, Remind, Receive, Unnoticed, allVars

(* AnswersAwaited is inductive. *)
LEMMA AwaitedStep ==
  ASSUME TypeOK, BotTypes, AnswersAwaited, [BotNext]_allVars
  PROVE  AnswersAwaited'
<1> SUFFICES ASSUME AllHeard', NEW p \in Slots, frame'[p].act \in Replied
             PROVE  task'[p].todo = frame'[p].act /\ task'[p].sid = frame'[p].sid
  BY DEF AnswersAwaited
<1>1. AllHeard /\ HeardStep
  BY HeardSteps
<1>2. /\ p \in Procs /\ frame \in [Procs -> Suspended] /\ task \in [Slots -> Task]
      /\ IdleFrame.act \notin Replied
  BY ProcTypes, FrameFields DEF TypeOK, FrameTypes, BotTypes, BotTypeOK, Task, Todo, IdleFrame, Replied
<1>3. ASSUME SameWork(p), task'[p] = task[p]
      PROVE  task'[p].todo = frame'[p].act /\ task'[p].sid = frame'[p].sid
  BY <1>1, <1>3 DEF SameWork, AnswersAwaited
<1>4. ASSUME NEW q \in Slots, NEW s \in Sessions, NEW kb \in Keyboard, NEW act \in Action,
             Press(q, s, kb, act)
      PROVE  task'[p].todo = frame'[p].act /\ task'[p].sid = frame'[p].sid
  <2>1. CASE p # q
    BY <1>2, <1>3, <1>4, <2>1, RequestsLeave, AsksRequest DEF Press
  <2>2. CASE p = q
    <3>1. task'[p] = Handler(act, kb, s)
      BY <1>2, <1>4, <2>2 DEF Press
    <3> QED
      BY <1>4, <2>2, <3>1, AskedWork, HandlerTypes DEF Press
  <2> QED
    BY <2>1, <2>2
<1>5. ASSUME NEW q \in Slots, NEW s \in Sessions, NEW mode \in CreateModes, Create(q, s, mode)
      PROVE  task'[p].todo = frame'[p].act /\ task'[p].sid = frame'[p].sid
  <2>1. CASE p # q
    BY <1>2, <1>3, <1>5, <2>1, RequestsLeave, CreatesRequest DEF Create
  <2>2. CASE p = q
    <3>1. frame'[p].act = mode /\ mode \notin Replied
      BY <1>2, <1>5, <2>2, FrameFields, SettingsAssumption DEF Create, CreateCheck, Goto, Replied
    <3> QED
      BY <3>1
  <2> QED
    BY <2>1, <2>2
<1>6. ASSUME NEW q \in Slots, BotResume(q)
      PROVE  task'[p].todo = frame'[p].act /\ task'[p].sid = frame'[p].sid
  <2>1. CASE p # q
    <3>1. task'[p] = task[p]
      BY <1>2, <1>6, <2>1 DEF BotResume, Answered
    <3> QED
      BY <1>2, <1>3, <1>6, <2>1, <3>1, CoroutinesLeave, ProcTypes DEF BotResume
  <2>2. CASE p = q
    <3>1. SameWork(p)
      BY <1>2, <1>6, <2>2, GoesOnWith DEF BotResume, Replied
    <3>2. frame'[p] # IdleFrame
      BY <1>2
    <3> QED
      BY <1>3, <1>6, <2>2, <3>1, <3>2 DEF BotResume
  <2> QED
    BY <2>1, <2>2
<1>7. ASSUME NEW q \in Slots, PollJoin(q) \/ PollTranscript(q)
      PROVE  task'[p].todo = frame'[p].act /\ task'[p].sid = frame'[p].sid
  <2>1. SameWork(p)
    BY <1>7 DEF PollJoin, PollTranscript, SameWork, vars, gatewayVars
  <2>2. p # q
    BY <1>1, <1>7, <2>1 DEF PollJoin, PollTranscript, AnswersAwaited, SameWork, Replied
  <2>3. task'[p] = task[p]
    BY <1>2, <1>7, <2>2 DEF PollJoin, PollTranscript
  <2> QED
    BY <1>3, <2>1, <2>3
<1>8. ASSUME UNCHANGED <<vars, task>>
      PROVE  task'[p].todo = frame'[p].act /\ task'[p].sid = frame'[p].sid
  BY <1>3, <1>8 DEF SameWork, vars, gatewayVars
<1>9. ((\E u \in Users : SendLink(u) \/ ChooseSchedule(u) \/ JoinRefused(u) \/ DateRefused(u))
        \/ (\E u \in Users, s \in Sessions : Command(u, s))) => UNCHANGED <<vars, task>>
  BY DEF SendLink, ChooseSchedule, JoinRefused, DateRefused, Command
<1>10. UserStep => task'[p].todo = frame'[p].act /\ task'[p].sid = frame'[p].sid
  BY <1>4, <1>5, <1>8, <1>9 DEF UserStep, JoinNow, SendDate
<1> QED
  BY <1>1, <1>3, <1>6, <1>7, <1>10, OthersLeaveWork DEF HeardStep, HandlerStep

-----------------------------------------------------------------------------
(* A row changes when it is inserted, or by the commit of a coroutine: of a
   request, the listener, or a job. *)
LEMMA RowsMove ==
  ASSUME TypeOK, HeardStep, NEW s \in Sessions, status'[s] # status[s]
  PROVE  \/ status'[s] \in {"queued", "scheduled"}
         \/ \E p \in Procs : /\ CommitTransition(p) /\ frame[p].sid = s
                             /\ frame[p].act \in Action /\ status'[s] = To(frame[p].act)
                             /\ p \in Slots => BotResume(p)
                             /\ p = Listener => ListenerResume
<1>1. status \in [Sessions -> Status \cup {"absent"}] /\ UNCHANGED status => FALSE
  BY DEF TypeOK, RowTypes
<1>2. ASSUME NEW p \in Procs, Resume(p)
      PROVE  \/ status'[s] \in {"queued", "scheduled"}
             \/ /\ CommitTransition(p) /\ frame[p].sid = s
                /\ frame[p].act \in Action /\ status'[s] = To(frame[p].act)
  <2>1. CASE CommitTransition(p)
    <3>1. frame[p].act \in Action
      BY <2>1, Holding DEF CommitTransition, At
    <3> QED
      BY <1>1, <2>1, <3>1 DEF CommitTransition, TypeOK, RowTypes
  <2>2. CASE CreateInsert(p)
    BY <2>2 DEF CreateInsert, TypeOK, RowTypes
  <2>3. CASE ~(CommitTransition(p) \/ CreateInsert(p))
    BY <1>1, <1>2, <2>3 DEF Resume, CreateArm, Publish, Lookup, Timeout, Reap, ExpireCommit, Reload,
       PublishJob, Spawn, rowVars, TypeOK, RowTypes
  <2> QED
    BY <2>1, <2>2, <2>3
<1>3. CASE \E p \in Slots : BotResume(p)
  BY <1>2, <1>3, ProcTypes, ProcessesAssumption DEF BotResume
<1>4. CASE ListenerResume
  BY <1>2, <1>4, ProcTypes, ProcessesAssumption DEF ListenerResume
<1>5. CASE \E p \in Sessions \cup {Followup} : Resume(p)
  BY <1>2, <1>5, ProcTypes, ProcessesAssumption
<1>6. ~UserStep
  <2>1. \A p \in Slots, t \in Sessions : Request(p, t) => UNCHANGED status
    BY DEF Request, CreateCheck, RequestTransition, RequestSend, RequestCancel, RequestDelete,
       RequestRetain, rowVars
  <2> QED
    BY <1>1, <2>1, AsksRequest, CreatesRequest DEF UserStep, SendLink, ChooseSchedule, JoinRefused,
       DateRefused, Command, JoinNow, SendDate, Press, vars, rowVars, TypeOK, RowTypes
<1>7. ~(ListenerTakes \/ FollowupStep \/ Sweep \/ (\E t \in Sessions : FireJoin(t) \/ WorkerStep(t))
        \/ (\E t \in Sessions, ev \in ProviderEvents : Watch(t, ev)) \/ TranscriberStep)
  BY <1>1 DEF ListenerTakes, ListenerReact, ListenerSignal, ListenerIgnore, FollowupStep,
     FollowupSelect, FollowupResolve, Sweep, FireJoin, WorkerStep, Join, JoinFail, TakeCommand,
     StopCapture, Leave, Watch, TranscriberStep, TakeJob, StartJob, LoadAudio, WriteTranscript,
     TranscriptionFail, rowVars, TypeOK, RowTypes
<1>8. ~UNCHANGED vars
  BY <1>1 DEF vars, rowVars, TypeOK, RowTypes
<1> QED
  BY <1>3, <1>4, <1>5, <1>6, <1>7, <1>8 DEF HeardStep, HandlerStep, PollJoin, PollTranscript, NoticeStep,
     PublishNote, Remind, Receive, Unnoticed, Others, allVars

(* Which transition leads to each status that is left to the user. *)
LEMMA LeadsTo ==
  \A act \in Action : /\ To(act) = "recording" => act = "recording"
                      /\ To(act) = "capture_stopped" => act = "stop_recording"
                      /\ To(act) = "in_call" => act = "decline_leave"
                      /\ To(act) = "recorded" => act = "leave"
BY Targets, Actions

(* While a job is about to be published, its row does not become recorded
   again: as long as no two requests overlap for it, nobody else is leaving. *)
JobsAhead == \A p \in Slots : At(p, "publish_job") => status[frame[p].sid] # "recorded"

(* A request that has a job to publish has committed the transcription. *)
LEMMA JobsFollow ==
  ASSUME TypeOK, [BotNext]_allVars, HeardStep, NEW p \in Slots, frame'[p].pc = "publish_job"
  PROVE  \/ frame'[p] = frame[p]
         \/ /\ CommitTransition(p) /\ frame[p].act = "confirm_transcribe"
            /\ frame'[p].sid = frame[p].sid
<1> SUFFICES ASSUME frame'[p] # frame[p]
             PROVE  /\ CommitTransition(p) /\ frame[p].act = "confirm_transcribe"
                    /\ frame'[p].sid = frame[p].sid
  OBVIOUS
<1>1. Turn(p, frame[p], frame'[p])
  BY BotStepIsStep, StepMoves, ProcTypes DEF Moves, FrameMoves
<1>2. Continues(frame[p], frame'[p])
  BY <1>1, FrameFields DEF Turn, Resting, IdleFrame, LoopFrame, EndedFrame, Begins
<1>3. /\ At(p, "commit") /\ frame[p].act = "confirm_transcribe"
      /\ frame'[p].sid = frame[p].sid
  BY <1>2, FrameFields DEF Continues, At
<1>4. ~At(p, "await") /\ ~At(p, "idle")
  BY <1>3 DEF At
<1>5. BotResume(p)
  <2>1. ASSUME NEW q \in Slots, NEW s \in Sessions, Request(q, s)
        PROVE  FALSE
    BY <1>4, <2>1, RequestsLeave, ProcTypes
  <2>2. ~UserStep
    BY <2>1, AsksRequest, CreatesRequest DEF UserStep, SendLink, ChooseSchedule, JoinRefused,
       DateRefused, Command, JoinNow, SendDate, Press, vars, gatewayVars
  <2>3. ASSUME NEW q \in Slots, BotResume(q)
        PROVE  q = p
    BY <1>4, <2>3, CoroutinesLeave, ProcTypes DEF BotResume
  <2> QED
    BY <1>4, <2>2, <2>3, OthersLeaveWork DEF HeardStep, HandlerStep, PollJoin, PollTranscript, vars,
       gatewayVars
<1>6. CommitTransition(p)
  BY <1>3, <1>5 DEF BotResume, Resume, CreateInsert, CreateArm, Publish, Lookup, Timeout, Reap,
     ExpireCommit, Reload, PublishJob, Spawn, At
<1> QED
  BY <1>3, <1>6

(* JobsAhead is inductive, as long as no two requests work on one session: the
   other one of two could be a "leave" that commits `recorded`. *)
LEMMA JobsAheadStep ==
  ASSUME TypeOK, CommittersKnown, JobsAhead, [BotNext]_allVars, HeardStep, Alone
  PROVE  JobsAhead'
<1> SUFFICES ASSUME NEW p \in Slots, frame'[p].pc = "publish_job"
             PROVE  status'[frame'[p].sid] # "recorded"
  BY DEF JobsAhead, At
<1>1. CASE CommitTransition(p) /\ frame[p].act = "confirm_transcribe" /\ frame'[p].sid = frame[p].sid
  <2>1. frame[p].sid \in Sessions
    BY <1>1, Holding, ProcTypes DEF CommitTransition, At
  <2> QED
    BY <1>1, <2>1, Targets DEF CommitTransition, TypeOK, RowTypes
<1>2. CASE frame'[p] = frame[p]
  <2> DEFINE s == frame[p].sid
  <2>1. At(p, "publish_job") /\ status[s] # "recorded" /\ s \in Sessions
    BY <1>2, Holding, ProcTypes DEF JobsAhead, At
  <2>2. ASSUME status'[s] = "recorded"
        PROVE  FALSE
    <3>1. PICK q \in Procs : /\ CommitTransition(q) /\ frame[q].sid = s
                             /\ frame[q].act \in Action /\ status'[s] = To(frame[q].act)
      BY <2>1, <2>2, RowsMove
    <3>2. q \in Slots
      BY <2>2, <3>1, LeadsTo DEF CommittersKnown, Committer
    <3>3. q = p
      BY <2>1, <3>1, <3>2 DEF Alone
    <3> QED
      BY <2>1, <3>1, <3>3 DEF CommitTransition, At
  <2> QED
    BY <1>2, <2>2
<1> QED
  BY <1>1, <1>2, JobsFollow

-----------------------------------------------------------------------------
(* A keyboard is only ever edited away by the handler it has started, when the
   request of that has succeeded ... *)
LEMMA ShownStays ==
  ASSUME BotTypes, HeardStep, NEW s \in Sessions, NEW kb \in shown[s], kb \notin shown'[s]
  PROVE  \E p \in Slots : /\ BotResume(p) /\ frame'[p] = IdleFrame /\ ~Fails(frame[p])
                          /\ task[p].kb = kb /\ task[p].sid = s /\ task[p].todo \in Edits
<1>1. shown \in [Sessions -> SUBSET Keyboard]
  BY DEF BotTypes, BotTypeOK
<1>2. ASSUME NEW t, NEW kbs, Show(t, kbs)
      PROVE  FALSE
  BY <1>1, <1>2 DEF Show
<1>3. PICK p \in Slots : BotResume(p)
  BY <1>2 DEF HeardStep, UserStep, SendLink, ChooseSchedule, JoinRefused, DateRefused, Command, JoinNow,
     SendDate, Create, Press, HandlerStep, PollJoin, PollTranscript, NoticeStep, ListenerResume,
     ListenerTakes, PublishNote, Remind, Receive, Unnoticed, botVars, allVars
<1>4. /\ frame'[p] = IdleFrame /\ ~Fails(frame[p])
      /\ \E gone \in SUBSET ({task[p].kb} \cap Keyboard) :
           /\ task[p].todo \notin Edits => gone = {}
           /\ shown' = [shown EXCEPT ![task[p].sid] = (@ \ gone) \cup Following(task[p].todo)]
  BY <1>3 DEF BotResume, Answered
<1> QED
  BY <1>1, <1>3, <1>4

(* ... so that it goes with the status it was for, or just before the job for
   which the status has changed. *)
LEMMA EditsMove ==
  ASSUME TypeOK, BotTypes, HandlersFollow, ButtonsPressed, HeardStep,
         NEW s \in Sessions, NEW kb \in shown[s] \cap {"recording", "leave", "in_call", "transcribe"},
         kb \notin shown'[s]
  PROVE  \/ kb = "recording" /\ status'[s] = "capture_stopped"
         \/ kb = "leave" /\ status'[s] \in {"in_call", "recorded"}
         \/ kb = "in_call" /\ status'[s] = "recorded"
         \/ /\ kb = "transcribe" /\ status'[s] = status[s]
            /\ \E p \in Slots : At(p, "publish_job") /\ frame[p].sid = s
<1>1. PICK p \in Slots : /\ BotResume(p) /\ frame'[p] = IdleFrame /\ ~Fails(frame[p])
                         /\ task[p].kb = kb /\ task[p].sid = s /\ task[p].todo \in Edits
  BY ShownStays
<1> DEFINE todo == task[p].todo
<1>2. todo \in Buttons[kb]
  BY <1>1, Keyboards DEF ButtonsPressed
<1>3. /\ kb = "recording" => todo = "stop_recording"
      /\ kb = "leave" => todo \in {"leave", "decline_leave"}
      /\ kb = "in_call" => todo = "leave"
      /\ kb = "transcribe" => todo = "confirm_transcribe"
  BY <1>1, <1>2 DEF Buttons, Edits
<1>4. frame[p].act = todo /\ frame[p].sid = s /\ frame[p].act \in Replied
  BY <1>1, <1>3 DEF HandlersFollow, Replied
<1>5. (CommitTransition(p) /\ todo # "confirm_transcribe") \/ PublishJob(p)
  BY <1>1, <1>4, GoesOnOrEnds DEF BotResume
<1>6. CASE CommitTransition(p) /\ todo # "confirm_transcribe"
  <2>1. status'[s] = To(todo)
    BY <1>4, <1>6 DEF CommitTransition, TypeOK, RowTypes
  <2> QED
    BY <1>3, <1>6, <2>1, Targets
<1>7. CASE PublishJob(p)
  <2>1. At(p, "publish_job") /\ UNCHANGED status
    BY <1>7 DEF PublishJob, rowVars
  <2>2. frame[p] \in Suspended
    BY ProcTypes DEF TypeOK, FrameTypes
  <2>3. todo = "confirm_transcribe"
    BY <1>4, <2>1, <2>2 DEF At, Suspended, Frame, IdleFrame, LoopFrame, EndedFrame
  <2> QED
    BY <1>3, <1>4, <2>1, <2>3
<1> QED
  BY <1>5, <1>6, <1>7

(* A session is left to its user by a request whose handler then sends the
   next keyboard, or by the listener, which announces the recording. *)
LEMMA LeftWithKeyboard ==
  ASSUME TypeOK, BotTypes, CommittersKnown, AnswersAwaited, AllHeard, HeardStep,
         NEW s \in Sessions, status'[s] # status[s]
  PROVE  /\ status'[s] = "recording" => draft' = Note("recording", s)
         /\ status'[s] = "capture_stopped" => "leave" \in shown'[s]
         /\ status'[s] = "in_call" => "in_call" \in shown'[s]
         /\ status'[s] = "recorded" => "transcribe" \in shown'[s]
<1> SUFFICES ASSUME status'[s] \notin {"queued", "scheduled"}
             PROVE  /\ status'[s] = "recording" => draft' = Note("recording", s)
                    /\ status'[s] = "capture_stopped" => "leave" \in shown'[s]
                    /\ status'[s] = "in_call" => "in_call" \in shown'[s]
                    /\ status'[s] = "recorded" => "transcribe" \in shown'[s]
  OBVIOUS
<1>1. PICK p \in Procs : /\ CommitTransition(p) /\ frame[p].sid = s
                         /\ frame[p].act \in Action /\ status'[s] = To(frame[p].act)
                         /\ p \in Slots => BotResume(p)
                         /\ p = Listener => ListenerResume
  BY RowsMove
<1> DEFINE act == frame[p].act
<1>2. Committer(p, frame[p])
  BY DEF CommittersKnown
<1>3. CASE act = "recording"
  <2>1. draft' = Note("recording", s)
    BY <1>1, <1>2, <1>3, Announces DEF Committer, ListenerResume, CommitTransition, At
  <2> QED
    BY <1>1, <1>3, <2>1, Targets
<1>4. CASE act \in {"stop_recording", "decline_leave", "leave"}
  <2>1. p \in Slots /\ BotResume(p) /\ act \in Replied
    BY <1>1, <1>2, <1>4 DEF Committer, Replied
  <2>2. task[p].todo = act /\ task[p].sid = s
    BY <1>1, <2>1 DEF AnswersAwaited
  <2>3. frame'[p] = IdleFrame
    <3>1. Continue(p, act, s) = IdleFrame
      BY <1>4, <2>1, ProcessesAssumption DEF Continue, Rest
    <3> QED
      BY <1>1, <3>1 DEF CommitTransition, Goto, TypeOK, FrameTypes
  <2>4. ~Fails(frame[p])
    BY <1>1 DEF CommitTransition, At, Fails
  <2>5. task[p] # Ready
    BY <1>4, <2>2, HandlerTypes DEF Ready
  <2>6. \E kbs : shown' = [shown EXCEPT ![s] = kbs \cup Following(act)]
    BY <2>1, <2>2, <2>3, <2>4, <2>5 DEF BotResume, Answered
  <2>7. Following(act) \subseteq shown'[s]
    BY <2>6 DEF BotTypes, BotTypeOK
  <2> QED
    BY <1>1, <1>4, <2>7, Follows, Targets
<1>5. CASE act \notin {"recording", "stop_recording", "decline_leave", "leave"}
  BY <1>1, <1>5, LeadsTo
<1> QED
  BY <1>3, <1>4, <1>5

(* Keyboard kb of session s is in the chat, or on its way as a notification. *)
Comes(kb, s) ==
  \/ kb \in shown[s]
  \/ draft = Note(kb, s)
  \/ \E i \in DOMAIN notes : notes[i] = Note(kb, s)

(* A session that is left to its user has the keyboard of its status. *)
KeyboardsLeft ==
  \A s \in Sessions :
    /\ status[s] = "recording" => Comes("recording", s)
    /\ status[s] = "capture_stopped" => "leave" \in shown[s]
    /\ status[s] = "in_call" => "in_call" \in shown[s]
    /\ status[s] = "recorded" => "transcribe" \in shown[s]

(* The notification of a recording ends as its keyboard in the chat, which
   stays until the recording is stopped. *)
LEMMA RecordingComes ==
  ASSUME TypeOK, BotTypes, HandlersFollow, ButtonsPressed, HeardStep,
         NEW s \in Sessions, Comes("recording", s), status'[s] = "recording"
  PROVE  Comes("recording", s)'
<1>1. CASE "recording" \in shown[s]
  BY <1>1, EditsMove DEF Comes
<1>2. CASE draft = Note("recording", s)
  <2>1. draft # NoNote
    BY <1>2 DEF NoNote, Note
  <2> QED
    BY <1>2, <2>1, DraftStays DEF Comes
<1>3. ASSUME NEW i \in DOMAIN notes, notes[i] = Note("recording", s)
      PROVE  Comes("recording", s)'
  <2>1. CASE Receive /\ notes[i] = Head(notes)
    <3>1. Head(notes).kind = "recording" /\ Head(notes).sid = s
      BY <1>3, <2>1 DEF Note
    <3>2. "recording" \in shown'[s]
      BY <2>1, <3>1, Keyboards DEF Receive, Show, BotTypes, BotTypeOK
    <3> QED
      BY <3>2 DEF Comes
  <2> QED
    BY <1>3, <2>1, NotesStay DEF Comes
<1> QED
  BY <1>1, <1>2, <1>3 DEF Comes

(* KeyboardsLeft is inductive. *)
LEMMA KeyboardsLeftStep ==
  ASSUME TypeOK, BotTypes, HandlersFollow, ButtonsPressed, CommittersKnown, AnswersAwaited, JobsAhead,
         KeyboardsLeft, AllHeard, HeardStep
  PROVE  KeyboardsLeft'
<1> SUFFICES ASSUME NEW s \in Sessions
             PROVE  /\ status'[s] = "recording" => Comes("recording", s)'
                    /\ status'[s] = "capture_stopped" => "leave" \in shown'[s]
                    /\ status'[s] = "in_call" => "in_call" \in shown'[s]
                    /\ status'[s] = "recorded" => "transcribe" \in shown'[s]
  BY DEF KeyboardsLeft
<1>1. CASE status'[s] # status[s]
  BY <1>1, LeftWithKeyboard DEF Comes
<1>2. CASE status'[s] = status[s]
  <2>1. status'[s] = "recording" => Comes("recording", s)'
    BY <1>2, RecordingComes DEF KeyboardsLeft
  <2>2. ASSUME status'[s] = "capture_stopped", "leave" \notin shown'[s]
        PROVE  FALSE
    <3>1. "leave" \in shown[s] \cap {"recording", "leave", "in_call", "transcribe"}
      BY <1>2, <2>2 DEF KeyboardsLeft
    <3>2. status'[s] \in {"in_call", "recorded"}
      BY <2>2, <3>1, EditsMove
    <3> QED
      BY <2>2, <3>2
  <2>3. status'[s] = "in_call" => "in_call" \in shown'[s]
    BY <1>2, EditsMove DEF KeyboardsLeft
  <2>4. status'[s] = "recorded" => "transcribe" \in shown'[s]
    BY <1>2, EditsMove DEF KeyboardsLeft, JobsAhead
  <2> QED
    BY <2>1, <2>2, <2>3, <2>4
<1> QED
  BY <1>1, <1>2

(* KeyboardsLeft with what it rests on. *)
WayInv ==
  /\ CommittersKnown /\ ButtonsPressed /\ AnswersAwaited
  /\ AllHeard => JobsAhead /\ KeyboardsLeft

(* WayInv is inductive, without ends of meetings and as long as no two requests
   work on one session. *)
LEMMA WayStep ==
  ASSUME TypeOK, BotTypes, AskInv, EventsLeft, WayInv, [BotNext]_allVars, Alone
  PROVE  WayInv'
<1>1. CommittersKnown' /\ ButtonsPressed' /\ AnswersAwaited'
  BY CommittersStep, ButtonsStep, AwaitedStep, BotStepIsStep DEF WayInv
<1>2. ASSUME AllHeard'
      PROVE  JobsAhead' /\ KeyboardsLeft'
  <2>1. AllHeard /\ HeardStep
    BY <1>2, HeardSteps
  <2>2. CommittersKnown /\ ButtonsPressed /\ AnswersAwaited /\ JobsAhead /\ KeyboardsLeft
    BY <2>1 DEF WayInv
  <2>3. HandlersFollow
    BY DEF AskInv
  <2>4. JobsAhead'
    BY <2>1, <2>2, JobsAheadStep
  <2>5. KeyboardsLeft'
    BY <2>1, <2>2, <2>3, KeyboardsLeftStep
  <2> QED
    BY <2>4, <2>5
<1> QED
  BY <1>1, <1>2 DEF WayInv

(* It holds before anybody has sent a link: there is no row, and no work. *)
LEMMA WayInit == BotInit => WayInv
<1> SUFFICES ASSUME BotInit PROVE WayInv
  OBVIOUS
<1>1. /\ \A p \in Procs : frame[p] = IdleFrame
      /\ \A s \in Sessions : status[s] = "absent"
  BY DEF BotInit, Init
<1>2. \A p \in Slots : task[p] = Ready
  BY DEF BotInit
<1>3. IdleFrame.act = "none" /\ IdleFrame.pc = "idle"
  BY FrameFields DEF IdleFrame
<1>4. Ready.kb = "none" /\ "none" \notin Keyboard
  BY HandlerTypes, Keyboards DEF Ready
<1>5. CommittersKnown
  BY <1>1, <1>3 DEF CommittersKnown, Committer
<1>6. ButtonsPressed
  BY <1>2, <1>4 DEF ButtonsPressed
<1>7. AnswersAwaited /\ JobsAhead
  BY <1>1, <1>3, ProcTypes DEF AnswersAwaited, JobsAhead, At, Replied
<1>8. KeyboardsLeft
  BY <1>1 DEF KeyboardsLeft
<1> QED
  BY <1>5, <1>6, <1>7, <1>8 DEF WayInv

(* The button of each keyboard applies to the status it is left with. *)
LEMMA ButtonsApply ==
  /\ "stop_recording" \in Buttons["recording"] /\ Applies("recording", "stop_recording")
  /\ "leave" \in Buttons["leave"] /\ Applies("capture_stopped", "leave")
  /\ "leave" \in Buttons["in_call"] /\ Applies("in_call", "leave")
  /\ "confirm_transcribe" \in Buttons["transcribe"] /\ Applies("recorded", "confirm_transcribe")
BY DEF Buttons, Applies, Transitions

(* A session that waits for its user alone has a button in the chat that takes
   it on: the answers and the notification that bring the keyboards agree with
   the commits that change the row, whatever else goes on at the time, as long
   as no two requests or join jobs overlap for one session.  With two "leave"
   for one session this is wrong: the second can commit `recorded` over the
   transcription that the answer to the first has made possible. *)
THEOREM WayIsForward ==
  ASSUME "meeting_ended" \notin ProviderEvents
  PROVE  BotSpec /\ []Alone => []WayForward
<1>1. BotInit => BotTypes /\ WayInv
  BY BotInitTypes, WayInit
<1>2. TypeOK /\ BotTypes /\ [BotNext]_allVars => BotTypes'
  BY BotStepTypes
<1>3. TypeOK /\ BotTypes /\ AskInv /\ LeaveInv /\ WayInv /\ Alone /\ [BotNext]_allVars => WayInv'
  BY WayStep DEF LeaveInv
<1>4. WayInv => WayForward
  <2> SUFFICES ASSUME WayInv, NEW s \in Sessions, AllHeard, Settled(s),
                      status[s] \in {"recording", "capture_stopped", "in_call", "recorded"}
               PROVE  \E kb \in shown[s] : \E act \in Buttons[kb] : Applies(status[s], act)
    BY DEF WayForward
  <2>1. status[s] = "recording" => "recording" \in shown[s]
    BY DEF WayInv, KeyboardsLeft, Comes, Settled, Note
  <2> QED
    BY <2>1, ButtonsApply DEF WayInv, KeyboardsLeft
<1>5. Spec => []LeaveInv
  BY LeaveAlways
<1> QED
  BY <1>1, <1>2, <1>3, <1>4, <1>5, AskAlways, BotIsUser, TypeCorrect, PTL DEF BotSpec
=============================================================================
