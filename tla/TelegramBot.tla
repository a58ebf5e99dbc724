---------------------------- MODULE TelegramBot ----------------------------
(***************************************************************************)
(* services/tg_bot: the dialogue, in place of the free user of Recorder.   *)
(* A user sends links, dates and commands, and presses the buttons of the  *)
(* keyboards the bot has put into the chat.  A handler of the bot waits    *)
(* for the request p \in Slots that it has the gateway serve (clients/     *)
(* gateway.py), then answers or edits; two of them go on polling.          *)
(* notifications.py sends what the gateway publishes on its own account    *)
(* (notifier.py).                                                          *)
(*                                                                         *)
(* A handler whose request is refused raises, or says so, and changes      *)
(* nothing; _active_sessions is written and never read.  Whether a         *)
(* keyboard that is edited away is in a second message too, nobody keeps   *)
(* track of: both cases are considered.                                    *)
(*                                                                         *)
(* Bounds: MaxBotFaults bounds restarts of the bot, answers and messages   *)
(* that are lost; MaxQueued also stops the reminders of the followup.      *)
(***************************************************************************)
EXTENDS Recorder

CONSTANTS
  Silent,         \* sessions in which whisper recognises no speech
  MaxBotFaults

ASSUME BotAssumption == Silent \subseteq Sessions /\ MaxBotFaults \in Nat

VARIABLES
  links,      \* users in _pending_links
  awaiting,   \* users in _awaiting_schedule
  shown,      \* the keyboards in the chat, for each session
  task,       \* the handler that waits for request p, or polls
  draft,      \* the notification the listener is about to publish
  notes,      \* the undelivered entries of the stream notifications
  delivered,  \* sessions whose transcript has been sent
  botFaults

dialogue == <<links, awaiting>>
stream == <<draft, notes>>
botVars == <<dialogue, shown, task, stream, delivered, botFaults>>
allVars == <<vars, botVars>>

-----------------------------------------------------------------------------
(* keyboards/session.py: a button is named by the request it leads to. *)
Buttons ==
  [recording |-> {"stop_recording"},
   leave |-> {"leave", "decline_leave"},
   in_call |-> {"leave"},
   transcribe |-> {"confirm_transcribe", "decline_transcribe"},
   cancel_scheduled |-> {"cancel"},
   delete_audio |-> {"delete_audio", "retain_audio"}]

Keyboard == DOMAIN Buttons

(* What is sent when a request has succeeded: the next keyboard, which the
   handlers of Edits put in place of the one that was pressed. *)
Edits == {"stop_recording", "leave", "decline_leave", "confirm_transcribe", "cancel"}

NextKeyboard ==
  [stop_recording |-> {"leave"}, leave |-> {"transcribe"}, decline_leave |-> {"in_call"},
   decline_transcribe |-> {"delete_audio"}, future |-> {"cancel_scheduled"}]

(* Mutants: declining to leave, or to transcribe, is answered by text alone. *)
FollowingStuck(todo) ==
  IF todo \in DOMAIN NextKeyboard \ {"decline_leave"} THEN NextKeyboard[todo] ELSE {}
FollowingUnasked(todo) ==
  IF todo \in DOMAIN NextKeyboard \ {"decline_transcribe"} THEN NextKeyboard[todo] ELSE {}

Following(todo) == IF todo \in DOMAIN NextKeyboard THEN NextKeyboard[todo] ELSE {}

Handler(todo, kb, s) == [todo |-> todo, kb |-> kb, sid |-> s]
Ready == Handler("nothing", "none", NoSession)

Note(kind, s) == [kind |-> kind, sid |-> s]
NoNote == Note("none", NoSession)

(* The keyboard of a notification (the show_ flags). *)
NoteKeyboard ==
  [recording |-> "recording", transcribe |-> "transcribe",
   transcript |-> "delete_audio", reminder |-> "delete_audio"]

Show(s, kbs) == shown' = [shown EXCEPT ![s] = @ \cup kbs]

BotInit ==
  /\ Init
  /\ links = {} /\ awaiting = {}
  /\ shown = [s \in Sessions |-> {}]
  /\ task = [p \in Slots |-> Ready]
  /\ draft = NoNote /\ notes = <<>>
  /\ delivered = {}
  /\ botFaults = 0

-----------------------------------------------------------------------------
(* Messages of the user. *)

HasActive(u) == \E t \in Sessions : Owner[t] = u /\ Active(t)

(* on_text.  While a date is awaited any text is taken for one: a link is
   answered "Не понял формат" and changes nothing. *)
SendLink(u) ==
  /\ u \notin awaiting
  /\ links' = links \cup {u}
  /\ UNCHANGED <<vars, awaiting, shown, task, stream, delivered, botFaults>>

ChooseSchedule(u) ==
  /\ u \in links
  /\ awaiting' = awaiting \cup {u}
  /\ UNCHANGED <<vars, links, shown, task, stream, delivered, botFaults>>

(* gateway.create_session for the link, which is used up whatever becomes of
   it. *)
Create(p, s, mode) ==
  /\ task[p] = Ready
  /\ CreateCheck(p, s, mode)
  /\ task' = [task EXCEPT ![p] = Handler(mode, "none", s)]
  /\ links' = links \ {Owner[s]}
  /\ UNCHANGED <<shown, stream, delivered, botFaults>>

JoinNow(p, s) ==
  /\ Owner[s] \in links
  /\ Create(p, s, "now")
  /\ UNCHANGED awaiting

JoinRefused(u) ==
  /\ u \in links /\ HasActive(u)
  /\ links' = links \ {u}
  /\ UNCHANGED <<vars, awaiting, shown, task, stream, delivered, botFaults>>

(* _handle_schedule_datetime, for a text that is a date. *)
SendDate(p, s, mode) ==
  /\ Owner[s] \in awaiting \cap links
  /\ mode # "now"
  /\ Create(p, s, mode)
  /\ awaiting' = awaiting \ {Owner[s]}

DateRefused(u) ==
  /\ u \in awaiting
  /\ u \notin links \/ HasActive(u)
  /\ awaiting' = awaiting \ {u}
  /\ links' = links \ {u}
  /\ UNCHANGED <<vars, shown, task, stream, delivered, botFaults>>

(* get_active_session: a request that finds no session, or more than one,
   raises inside the router's try, and what is raised goes through
   _http_error, HTTPException(404) too. *)
ActiveOf(u) == {t \in Sessions : Owner[t] = u /\ Active(t)}

HttpError(exc) ==
  CASE exc = "PermissionError" -> 403
    [] exc = "LookupError" -> 404
    [] exc = "ValueError" -> 400
    [] exc = "InvalidTransitionError" -> 409
    [] OTHER -> 500

ActiveCurrent(u) ==
  CASE \E s \in Sessions : ActiveOf(u) = {s} -> 200
    [] ActiveOf(u) = {} -> HttpError("HTTPException")
    [] OTHER -> HttpError("MultipleResultsFound")

(* The client takes 404 for no session and raises on any other error, which
   nobody catches: the command stays without an answer. *)
CommandReply(u) ==
  CASE ActiveCurrent(u) = 200 -> "session"
    [] ActiveCurrent(u) = 404 -> "no session"
    [] OTHER -> "silence"

(* /status sends the stop keyboard, /cancel the one to cancel with. *)
Command(u, s) ==
  /\ CommandReply(u) = "session" /\ s \in ActiveOf(u)
  /\ \/ status[s] = "recording" /\ Show(s, {"recording"})
     \/ status[s] = "scheduled" /\ Show(s, {"cancel_scheduled"})
  /\ UNCHANGED <<vars, dialogue, task, stream, delivered, botFaults>>

(* A button.  The request that deletes a file may be refused at once. *)
Ask(p, s, act) ==
  \/ RequestTransition(p, s, act) \/ RequestSend(p, s, act)
  \/ act = "cancel" /\ RequestCancel(p, s)
  \/ act = "delete_audio" /\ RequestDelete(p, s)
  \/ act = "retain_audio" /\ RequestRetain(p, s)

Press(p, s, kb, act) ==
  /\ task[p] = Ready
  /\ kb \in shown[s] /\ act \in Buttons[kb]
  /\ Ask(p, s, act)
  /\ task' = IF frame'[p] = IdleFrame THEN task
             ELSE [task EXCEPT ![p] = Handler(act, kb, s)]
  /\ UNCHANGED <<dialogue, shown, stream, delivered, botFaults>>

-----------------------------------------------------------------------------
(* The gateway's answers. *)

(* Mutant: the errors of the handshake are not raised. *)
FailsOnRefusal(f) ==
  \/ f.pc = "arm" /\ f.act = "past"
  \/ f.pc = "publish_job" /\ audio[f.sid] # "present"
  \/ f.pc = "expire" /\ f.act = "none"

(* The request ends in an error: a wait that timed out, a date in the past,
   an audio file that is not there, a refused retain_audio. *)
Fails(f) ==
  \/ f.pc \in {"await", "orphan"}
  \/ f.pc = "arm" /\ f.act = "past"
  \/ f.pc = "publish_job" /\ audio[f.sid] # "present"
  \/ f.pc = "expire" /\ f.act = "none"

(* on_join_now and on_confirm_transcribe go on with _poll_until. *)
Poll == [now |-> "poll_join", confirm_transcribe |-> "poll_transcript"]
AfterSuccess(t) ==
  IF t.todo \in DOMAIN Poll THEN Handler(Poll[t.todo], "none", t.sid) ELSE Ready

Answered(p) ==
  LET t == task[p]
  IN IF Fails(frame[p])
       THEN /\ task' = [task EXCEPT ![p] = Ready]
            /\ UNCHANGED shown
       ELSE /\ task' = [task EXCEPT ![p] = AfterSuccess(t)]
            /\ \E gone \in SUBSET ({t.kb} \cap Keyboard) :
                 /\ t.todo \notin Edits => gone = {}
                 /\ shown' = [shown EXCEPT ![t.sid] = (@ \ gone) \cup Following(t.todo)]

BotResume(p) ==
  /\ Resume(p)
  /\ IF frame'[p] = IdleFrame /\ task[p] # Ready
       THEN Answered(p) ELSE UNCHANGED <<shown, task>>
  /\ UNCHANGED <<dialogue, stream, delivered, botFaults>>

(* Mutant: the poll goes on as if the transcript were there. *)
DownloadableAlways(s) == s \notin Silent

(* read_transcript: an empty file is no transcript. *)
Downloadable(s) == transcript[s] /\ s \notin Silent

(* _poll_until ends, in one of the statuses it waits for or with its timeout,
   and the handler with it.  A transcript that cannot be downloaded raises. *)
PollJoin(p) ==
  LET s == task[p].sid
  IN /\ task[p].todo = "poll_join"
     /\ task' = [task EXCEPT ![p] = Ready]
     /\ IF status[s] = "failed" THEN UNCHANGED shown ELSE Show(s, {"recording"})
     /\ UNCHANGED <<vars, dialogue, stream, delivered, botFaults>>

PollTranscript(p) ==
  LET s == task[p].sid
      sent == status[s] # "failed" /\ Downloadable(s)
  IN /\ task[p].todo = "poll_transcript"
     /\ task' = [task EXCEPT ![p] = Ready]
     /\ Show(s, IF sent THEN {"delete_audio"} ELSE {})
     /\ delivered' = IF sent THEN delivered \cup {s} ELSE delivered
     /\ UNCHANGED <<vars, dialogue, stream, botFaults>>

-----------------------------------------------------------------------------
(* Notifications. *)

(* Mutants: no controls with the recording; transcripts are not attached;
   every transition is announced under its own name. *)
AnnouncedBare(f) ==
  CASE f.act = "leave" -> Note("transcribe", f.sid)
    [] f.act = "await_audio_disposal" -> Note("transcript", f.sid)
    [] OTHER -> NoNote
AnnouncedUnattached(f) ==
  CASE f.act = "recording" -> Note("recording", f.sid)
    [] f.act = "leave" -> Note("transcribe", f.sid)
    [] f.act = "await_audio_disposal" -> Note("reminder", f.sid)
    [] OTHER -> NoNote
AnnouncedRaw(f) == Note(f.act, f.sid)

(* What the listener tells the user when coroutine frame f of it is done. *)
Announced(f) ==
  CASE f.act = "recording" -> Note("recording", f.sid)
    [] f.act = "leave" -> Note("transcribe", f.sid)
    [] f.act = "await_audio_disposal" -> Note("transcript", f.sid)
    [] OTHER -> NoNote

(* The listener publishes before it reads the next event. *)
ListenerResume ==
  LET f == frame[Listener]
  IN /\ draft = NoNote
     /\ Resume(Listener)
     /\ draft' = IF f.pc = "commit" \/ frame'[Listener] = IdleFrame
                   THEN Announced(f) ELSE NoNote
     /\ UNCHANGED <<dialogue, shown, task, notes, delivered, botFaults>>

ListenerTakes ==
  /\ draft = NoNote
  /\ \/ (ListenerReact \/ ListenerSignal) /\ UNCHANGED draft
     \/ /\ ListenerIgnore
        /\ draft' = IF Head(events).ev = "transcript_ready"
                      THEN Note("transcript", Head(events).sid) ELSE draft
  /\ UNCHANGED <<dialogue, shown, task, notes, delivered, botFaults>>

PublishNote ==
  /\ draft # NoNote
  /\ notes' = Append(notes, draft)
  /\ draft' = NoNote
  /\ UNCHANGED <<vars, dialogue, shown, task, delivered, botFaults>>

(* The followup reminds of a record it has selected as pending. *)
Remind(s) ==
  /\ AwareTimestamps
  /\ At(Followup, "idle") /\ Pending(s)
  /\ Len(notes) < MaxQueued
  /\ notes' = Append(notes, Note("reminder", s))
  /\ UNCHANGED <<vars, dialogue, shown, task, draft, delivered, botFaults>>

(* run_notification_listener. *)
Receive ==
  LET n == Head(notes)
  IN /\ notes # <<>>
     /\ notes' = Tail(notes)
     /\ Show(n.sid, {NoteKeyboard[n.kind]})
     /\ delivered' = IF n.kind = "transcript" /\ Downloadable(n.sid)
                       THEN delivered \cup {n.sid} ELSE delivered
     /\ UNCHANGED <<vars, dialogue, task, draft, botFaults>>

-----------------------------------------------------------------------------
(* Faults. *)

BotFault == botFaults < MaxBotFaults /\ botFaults' = botFaults + 1

(* The bot restarts: dialogues and handlers are gone, the requests they wait
   for go on, and of the notifications it had read (at most 10) none is
   delivered again. *)
BotRestart ==
  /\ BotFault
  /\ links' = {} /\ awaiting' = {}
  /\ task' = [p \in Slots |-> Ready]
  /\ \E n \in 0..10 : n <= Len(notes) /\ notes' = SubSeq(notes, n + 1, Len(notes))
  /\ UNCHANGED <<vars, shown, draft, delivered>>

(* httpx gives up after 120 s, which is how long the gateway itself waits for a
   stop: the request goes on without anybody who reads its answer. *)
ClientTimeout(p) ==
  /\ BotFault
  /\ task[p].todo = "stop_recording" /\ frame[p].pc \in {"await", "orphan", "commit"}
  /\ task' = [task EXCEPT ![p] = Ready]
  /\ UNCHANGED <<vars, dialogue, shown, stream, delivered>>

(* send_message raises: the notification is acknowledged all the same. *)
NoteLost ==
  /\ BotFault
  /\ notes # <<>> /\ notes' = Tail(notes)
  /\ UNCHANGED <<vars, dialogue, shown, task, draft, delivered>>

(* When the gateway restarts, requests fail, and polls that ask meanwhile. *)
Outage ==
  /\ GatewayRestart
  /\ \E hit \in SUBSET Slots :
       /\ {p \in Slots : frame[p] # IdleFrame} \subseteq hit
       /\ task' = [p \in Slots |-> IF p \in hit THEN Ready ELSE task[p]]
  /\ draft' = NoNote
  /\ UNCHANGED <<dialogue, shown, notes, delivered, botFaults>>

(* The listener raises before it publishes; afterwards, see NoteLost. *)
ListenerFails ==
  /\ draft = NoNote
  /\ ListenerFail
  /\ UNCHANGED botVars

-----------------------------------------------------------------------------
UserStep ==
  \/ \E u \in Users : SendLink(u) \/ ChooseSchedule(u) \/ JoinRefused(u) \/ DateRefused(u)
  \/ \E u \in Users, s \in Sessions : Command(u, s)
  \/ \E p \in Slots, s \in Sessions :
       \/ "now" \in CreateModes /\ JoinNow(p, s)
       \/ \E mode \in CreateModes : SendDate(p, s, mode)
       \/ \E kb \in Keyboard, act \in Action : Press(p, s, kb, act)

(* What goes on without the bot. *)
Elsewhere ==
  \/ \E p \in Sessions \cup {Followup} : Resume(p)
  \/ \E s \in Sessions : FireJoin(s) \/ WorkerStep(s) \/ WorkerCrash(s)
  \/ FollowupStep \/ Sweep
  \/ \E s \in Sessions, ev \in ProviderEvents : Watch(s, ev)
  \/ TranscriberStep \/ TranscriberCrash

Unnoticed(A) == A /\ UNCHANGED botVars

HandlerStep(p) == BotResume(p) \/ PollJoin(p) \/ PollTranscript(p)
NoticeStep == ListenerResume \/ ListenerTakes \/ PublishNote

BotNext ==
  \/ UserStep
  \/ \E p \in Slots : HandlerStep(p)
  \/ NoticeStep
  \/ \E s \in Sessions : Remind(s)
  \/ Receive
  \/ Unnoticed(Elsewhere)
  \/ BotRestart \/ NoteLost \/ Outage \/ ListenerFails \/ \E p \in Slots : ClientTimeout(p)

BotSpec == BotInit /\ [][BotNext]_allVars

(* The fairness of Recorder, and the same for the bot's tasks: handlers get
   their answers, polling ends, both readers keep reading. *)
BotFairness ==
  /\ \A p \in Slots : WF_allVars(HandlerStep(p))
  /\ WF_allVars(NoticeStep)
  /\ WF_allVars(Receive)
  /\ \A p \in Sessions \cup {Followup} : WF_allVars(Unnoticed(Resume(p)))
  /\ \A s \in Sessions : /\ WF_allVars(Unnoticed(FireJoin(s)))
                         /\ WF_allVars(Unnoticed(WorkerStep(s)))
  /\ WF_allVars(Unnoticed(FollowupStep))
  /\ WF_allVars(Unnoticed(TranscriberStep))

BotFairSpec == BotSpec /\ BotFairness

-----------------------------------------------------------------------------
NoteKind == DOMAIN NoteKeyboard

BotTypeOK ==
  /\ links \subseteq Users /\ awaiting \subseteq Users
  /\ shown \in [Sessions -> SUBSET Keyboard]
  /\ task \in [Slots -> [todo : Action \cup Mode \cup {"nothing", "poll_join", "poll_transcript"},
                         kb : Keyboard \cup {"none"}, sid : Sessions \cup {NoSession}]]
  /\ draft \in [kind : NoteKind, sid : Sessions] \cup {NoNote}
  /\ notes \in Seq([kind : NoteKind, sid : Sessions])
  /\ delivered \subseteq Sessions
  /\ botFaults \in Nat

(* The keyboard that deletes is in the chat only of a session for which
   Recorder lets the user ask it: the abstraction Deletable leaves out no
   button the bot really sends, however late or lost its messages are. *)
DeleteOffered ==
  \A s \in Sessions : "delete_audio" \in shown[s] => s \in Deletable

(* The bot asks what to do after a recording only when there is one: its
   keyboards follow answers, not presses, and answers follow the worker's. *)
AfterCapture == {"leave", "in_call", "transcribe", "delete_audio"}

AskedBacked ==
  \A s \in Sessions : shown[s] \cap AfterCapture # {} => audio[s] # "none"

(* Nobody is about to do or to say anything about session s. *)
Settled(s) ==
  /\ ~InFlight(s)
  /\ \A p \in Slots : task[p].sid # s
  /\ draft.sid # s
  /\ \A i \in DOMAIN notes : notes[i].sid # s
  /\ \A i \in DOMAIN events : events[i].sid # s

(* Nothing of the gateway or the bot has crashed, no answer has been lost. *)
AllHeard == faults = 0 /\ botFaults = 0

(* The dialogue does not end in the middle of itself: a session that waits for
   its user alone has a button in the chat that takes it on. *)
WayForward ==
  \A s \in Sessions :
    AllHeard /\ Settled(s) /\ status[s] \in {"recording", "capture_stopped", "in_call", "recorded"}
      => \E kb \in shown[s] : \E act \in Buttons[kb] : Applies(status[s], act)

(* A session in which speech was recognised, and whose audio is up for the
   decision or decided about, has had its transcript sent: the poll and the
   notification may each fail to find it, not both. *)
TranscriptSent ==
  \A s \in Sessions \ Silent :
    AllHeard /\ Settled(s) /\ transcript[s] /\ status[s] \in {"pending_audio_disposal", "completed"}
      => s \in delivered

(* A meeting that is being recorded can be stopped: the keyboard arrives. *)
StopOffered ==
  \A s \in Sessions : status[s] = "recording"
    ~> "recording" \in shown[s] \/ status[s] # "recording"

(* The question about the audio reaches the chat, whichever way the session
   came to it. *)
DisposalAsked ==
  \A s \in Sessions : status[s] = "pending_audio_disposal" ~> "delete_audio" \in shown[s]
=============================================================================
