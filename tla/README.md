# telemost-recorder in TLA+

A model of telemost-recorder: the gateway's requests, event listener and
scheduled jobs, the meeting workers, the transcriber, the rows, files and Redis
streams they share, the Telegram bot in front of them and the browser page
behind them. TLC checks it on small instances; TLAPS proves its invariants and
the safety part of its refinements for every instance.

    tlc -config Lifecycle.cfg MCRecorder      # section 3 names the module of each .cfg
    tlapm RowProofs.tla                       # section 5 names the module of each theorem

## 1. The system

A user talks to a Telegram bot, the bot calls the gateway over HTTP, the
gateway spawns one `meeting_worker` process per session. The worker joins the
call with a browser, records until it is told to stop, and leaves. Then the user
decides about a transcription, which a single transcriber process makes, and
about the audio file.

| Component | State | Operations | Talks to |
|---|---|---|---|
| State machine (`session_fsm.py`) | none: a table | `apply_transition` | called by service, listener, jobs |
| Session service (`session_service.py`, router) | the row of a session, its files | create, stop_recording, leave, decline_leave, transcribe, decline_transcribe, delete_recording, retain_audio, cancel | worker manager, scheduler, streams, files |
| Worker manager (`worker_manager.py`) | process table, two Events per session | spawn, send_stop_capture, send_leave, wait_*, notify_*, stop_process | command stream; woken by the listener |
| Event listener (`event_listener.py`) | its place in `session.events` | one handler per event | rows, Events, notifications |
| Join scheduler (`scheduler.py`) | APScheduler jobs, in memory | schedule, unschedule, `_fire_join`, `restore_pending` | rows, worker manager |
| Cleanup followup (`audio_cleanup_followup.py`) | none between runs | remind, or delete / keep after a delay | rows, files, notifications |
| Retention sweeper (`retention_sweeper.py`) | none between runs | delete expired audio | rows, files |
| Meeting worker (`meeting_worker/runner.py`) | a process and its watch task | join, STOP_CAPTURE, LEAVE, report | provider, streams, wav file |
| Provider, wav sink, storage | browser, page, chunks of sound, paths | join, stop_capture, leave, watch_events | worker |
| Transcriber (`transcriber/runner.py`, `engine.py`) | the job at hand | one job at a time | job and event streams, files |
| Redis streams (`session_queue.py`) | commands, events, jobs, notifications | XADD, XREADGROUP ">", XACK | all processes |
| Telegram bot (`tg_bot/`) | pending links, awaited dates, handlers that wait | links, dates, buttons, commands, polling | gateway |
| Notifications (`notifier.py`, `notifications.py`) | a stream | publish, send to the chat | listener, followup, bot |
| Simulated meeting (`session_service.py`) | sleeping tasks | stand for the worker and the transcriber | rows, files |
| LLM summary, configuration, authentication | - | - | gateway |

### What is hard about it

- **Stale rows.** `_transition` judges the `SessionRecord` it was given and
  writes the result with an UPDATE that has no condition on the old status. A
  stop or a leave waits up to two minutes between the read and the write. Two
  overlapping requests, a request and the listener, a cancel and a join job
  overwrite each other.
- **A handshake over two media.** stop and leave go out through a stream and
  come back through another stream, a listener and an `asyncio.Event` that the
  next request replaces, with a timeout on the waiting side.
- **One consumer group for all workers.** A command is delivered to one worker,
  possibly that of another session, which acknowledges and drops it.
- **Effects before checks.** A date in the past is refused after the row was
  committed; the file is unlinked, and the expiry stored, before the transition
  that goes with it may be refused; transcribe commits before it looks for the
  audio.
- **Crashes.** Jobs, Events, coroutines, worker processes, pending links and the
  bot's waiting handlers live in memory; streams are read with ">" only, so what
  a reader had taken is not delivered again.
- **Several deciders about one file.** The user, the followup and the sweeper
  delete or keep the same audio, and a repeated stop may write it once more.
- **Two ways into one chat.** What a handler answers and what the gateway
  publishes reach the user in any order; each keyboard stays until it is used,
  and each way may fail alone.
- **A page nobody reads.** The browser keeps handing over sound while the worker
  stops, the meeting may end or refuse the bot, and the task that should notice
  has ended before the page is open.

`PROJECT.json` lists every such hazard at its line, with the properties that
would catch it going wrong, or the reason why none does.

### What makes the components correct

| Component | Properties |
|---|---|
| Service, worker manager, worker | `AudioBacked` (with `AudioInv`), `OneVisit`, `LeftMeansGone`, `RequestsAnswered`, `JoinResolves` |
| Service, listener, jobs against each other | `FollowsTable`, `MovesOn`, `SettledIsFinal`; not kept: `TerminalIsFinal`, `OneActivePerUser` |
| Scheduler | `ScheduledIsArmed`, `OneVisit` |
| Followup, sweeper, delete / keep | `DeletedMeansGone`, `DisposalResolves`, `RemindedOnce`, `ResolvedInTime` |
| Transcriber | `TranscriptBacked`, `TranscriptionResolves` |
| Provider and sink | `ActsAsWorker`, `RewriteIsSame`, `LeftMeansClosed` |
| Bot, notifications | `WayForward`, `TranscriptSent`, `DeleteOffered`, `AskedBacked`, `StopOffered`, `DisposalAsked` |
| Simulated meeting | `TranscriptBacked`, `JoinResolves`, `TranscriptionResolves` of the same rows |

## 2. The modules

The first eight each EXTEND the one before; `Recorder` composes them. The others
use it, or stand beside it.

| Module | Models |
|---|---|
| `SessionFSM` | `_TRANSITIONS`, `apply_transition` (`Applies`, `To`) |
| `RecorderState` | the constants and variables, frames of coroutines, Init, `TypeOK` |
| `SessionService` | the requests, the worker manager's handshake and spawn, the commit of a transition |
| `EventListener` | the listener, and the refresh before a second transition |
| `GatewayJobs` | join jobs, followup, sweeper, restart of the gateway |
| `MeetingWorker` | worker process, watch task, the provider behind its contract |
| `Transcriber` | the transcriber process |
| `Recorder` | Next, Spec, fairness, the properties of the whole |
| `SessionLifecycle`, `Recording` | abstract: a status that moves along the table; one visit, one capture, one transcript |
| `Promises` | the refinement mappings from `Recorder` to these two |
| `CleanupFollowup` | the followup against the clock, for one pending row |
| `TelemostProvider` | one worker process from the inside: run(), page, capture script, sink; implements `MeetingWorker` |
| `TelegramBot` | `Recorder` with the bot's dialogue in place of the free user, and notifications |
| `Simulation` | `Recorder` with the stand-ins for worker and transcriber |
| `MCRecorder`, `MCBot`, `MCSimulation` | who owns which session, and the symmetry, for TLC |
| `RecorderTypes`, `RecordingProofs`, `RecorderSteps`, `RowProofs` | proofs about `Recorder`: types, files and visits, what a step moves, rows |
| `FollowupProofs`, `ProviderProofs`, `BotProofs`, `SimulationProofs` | proofs about the other four |

### State of `Recorder`

| Variable | In the code |
|---|---|
| `status`, `deletedAt`, `expires` | columns `status`, `audio_deleted_at is not None`, `audio_expires_at is not None`; `"absent"` is a row not inserted yet |
| `audio`, `transcript` | the wav file (`none` never written, `present`, `deleted`) and `transcript.txt` |
| `frame[p]` | where coroutine `p` of the gateway is suspended, for which action and session |
| `overdue` | the rows the running followup has selected and not reached |
| `armed` | the join jobs in APScheduler |
| `signal` | the worker manager's Events that are set |
| `commands`, `events`, `jobs` | entries of the streams not yet read |
| `worker`, `watch` | the worker process of a session, and what its provider may still report |
| `transcriber` | the transcriber and its job |
| `offered` | sessions whose delete/keep keyboard the user has received |
| `faults` | crashes, restarts and failures of the listener so far |

### Actions of `Recorder`

The gateway is one asyncio loop: a coroutine runs undisturbed from one await to
the next. An action is therefore the code of one coroutine between two awaits at
which someone else can change what it relies on; awaits at which nobody can are
inside the action. `frame[p].pc` names the await:

| `pc` | Suspended |
|---|---|
| `insert`, `arm` | in `create_session`, between the check and the INSERT, between the INSERT and `schedule_join` |
| `publish`, `lookup` | in `send_stop_capture` / `send_leave` before the XADD; after it, before the Event is looked up |
| `await`, `orphan` | in `wait_for` on the session's current Event; on one that has been replaced since |
| `reap` | in `leave`, woken, before `stop_process` |
| `commit` | with a transition decided from the row as read, before its UPDATE is committed |
| `expire`, `reload` | before `audio_expires_at` is committed; before `db.refresh` |
| `spawn`, `publish_job` | between the commit and the effect that follows it |
| `loop` | the followup between two records |
| `ended` | the listener, once Redis has failed it |

`"commit"` is where the stale row lives: the action that takes a coroutine there
tests `Applies(status[s], act)`, and `CommitTransition` writes `To(act)` without
another look. Requests that are refused without any change (403, 404, 409) are
stuttering steps. Requests that change something before they are refused are
actions that end in `idle`.

Other processes take their own steps: a worker joins, takes a command, writes
the file and answers, leaves; the transcriber takes a job, answers from the file
if there is one, else loads, writes, or fails. `GatewayRestart` empties the
coroutines, Events, jobs and the process table, drops a prefix of the events that
had been read in a batch, and runs `restore_pending`. It ends any of the worker
processes: in the container they all go, but `lifespan` (`app.py:15`) ends none
itself, so a gateway outside of one may leave some running, which then go on with
their commands. `ListenerFail` is a handler that raises: its event is acknowledged
and lost; when it is Redis that fails, the acknowledgement raises too
(`event_listener.py:140`), or the next read does, and the listener ends until the
gateway is started again. `Sweep` unlinks first; its commit may fail, and the next
sweep repeats it. A worker killed while stopping may or may not have written
the file, and the transcriber killed while writing may or may not have written
the transcript.

### The other modules

- **`CleanupFollowup`** counts time. `age` and `due` are the clocks of one pending
  row and of the job; `Run` is one pass over the row, with `FollowupAction`
  translated from `_classify_followup_action`. A run may be late (`Lag`) or
  dropped by APScheduler (`Misfire`), a restart starts the interval anew
  (`Restart`), and `onupdate` makes the row young again (`Update`).
- **`TelemostProvider`** splits a worker at the awaits of `run()`, `join`,
  `stop_capture` and `leave` (`main`). The page, its capture script (`active`) and
  the chunks on their way to `onAudioChunk` (`pipe`) move on their own; `call` is
  where the bot really is, which no code asks.
- **`TelegramBot`** adds the bot's memory (`links`, `awaiting`, the handlers `task`),
  the chat (`shown`, `delivered`) and the notifications (`draft`, `notes`). A
  handler calls the gateway's request in the same slot and goes on when that is
  done. Buttons may be pressed at any later time, also in an old message.
- **`Simulation`** replaces `Spawn` by a sleeping task, the handshake by nothing,
  the wav file by a stand-in, and, if that is simulated too, the transcriber by a
  stub that moves the row it read before it slept.

### Abstractions

- Clock time. In `Recorder` a join job may fire when it is armed, a session may be
  overdue when it is pending, a wait may time out at once, an expiry may be in the
  past as soon as it is stored; only `CleanupFollowup` counts. `RetentionOutlasts`
  is the one assumption about durations: with TRUE a retained file does not expire
  before its session has ended (seven days by default). The safety invariants of
  `Recorder` are checked with FALSE.
- `Deletable` is the set of sessions for which `Recorder`'s free user may press
  delete or keep. `DeleteOffered` shows, with the bot's dialogue in place of that
  user, that the keyboard is in the chat of no other session.
- `ProviderEvents` is what `watch_events` yields. With the Telemost provider
  that is nothing: the worker starts watching before `join` has opened a page,
  and the generator returns at once (`provider.py:136`). `ActsAsWorker` shows
  this, and the runs about the deployed program use `{}`; `Faults` uses everything
  the contract in `shared/contracts/meeting.py` lets a provider report, except
  KICKED, which the worker has no branch for.
- `CreateModes` names the dates a user can ask for: `now`, `future`, `past`. The
  passing runs leave out `past` (section 6). A scheduled request without any date,
  which the bot never sends, is refused after its commit like one in the past,
  and `restore_pending` skips its row.
- `AwareTimestamps`: whether the database keeps time zones (Postgres does).
- `Punctual`: whether every join job starts within APScheduler's grace time of one
  second. With FALSE a job may be dropped without a call, as when `stop_process`
  blocks the event loop (`worker_manager.py:83`).
- The database and Redis: one that raises is modelled in the listener and in the
  sweeper. A request that loses its commit or its XADD is modelled by the restart
  that loses everything in flight.

## 3. The runs

One run for each question. `CHECK_DEADLOCK FALSE` everywhere: once every session
of the bound has ended and the faults are spent, nothing is left to do.

### Passing

| Run | Module | Instance | Distinct states | Shows |
|---|---|---|---|---|
| `Lifecycle` | `MCRecorder` | 1 session, 2 requests at once, now and future, auto-delete | 120314 | `TypeOK`, `AudioInv`, `LeftMeansGone`, `DeletedMeansGone`, `SettledIsFinal`, `OneVisit` with two requests, listener, scheduler, followup and sweeper interleaved |
| `Faults` | `MCRecorder` | 1 session, 1 request, 2 faults, all provider events, auto-retain, fairness | 209563 | `AudioBacked`, `TranscriptBacked`, `ScheduledIsArmed`, `OneVisit`, `SettledIsFinal`, `JoinResolves`, `TranscriptionResolves` whatever dies when and whatever the provider says |
| `TwoUsers` | `MCRecorder` | 2 sessions of 2 users, 1 request | 322889 | `AudioBacked`, `LeftMeansGone` although workers take each other's commands |
| `Sequential` | `MCRecorder` | 1 session started at once, 1 request, 2 faults, fairness | 9170 | `FollowsTable`, `MovesOn`, `DisposalResolves`, `RequestsAnswered`: the recorder as `SessionLifecycle` |
| `Followup` | `CleanupFollowup` | 30 / 180 / 10 minutes, 2 disturbances | 33764 | `RemindedOnce`, `ResolvedInTime` |
| `Dialogue` | `MCBot` | 1 session, 1 handler, 1 fault of the gateway and 1 of the bot | 1086997 | `BotTypeOK`, `WayForward`, `TranscriptSent`, `DeleteOffered`, `AskedBacked` |
| `DialogueLive` | `MCBot` | 1 silent session, now and future, no faults, fairness | 198122 | `StopOffered`, `DisposalAsked` |
| `Provider` | `TelemostProvider` | 2 chunks, 3 commands, 1 kill | 9878 | `ProviderTypeOK`, `LeftMeansClosed`, `ActsAsWorker`, `RewriteIsSame` |
| `Simulated` | `MCSimulation` | 1 session, 1 restart, transcription simulated or not, fairness | 983 | `SimTypeOK`, `TranscriptBacked`, `JoinResolves`, `TranscriptionResolves` |

- `AudioBacked`: a session past its capture has had its wav file written. The
  status is moved by a request that an Event woke, or that held an old row; the
  property relates it to what another process did before it answered.
- `LeftMeansGone`: a session shown as recorded, or anywhere from there to the
  decision about the audio, has no bot in the call. It is true of the deployed
  provider only (section 6). A completed session is left out: a cancel that
  overlaps a join commits `completed` beside a living worker, the overlap of run
  `Cancelled`.
- `DeletedMeansGone`: `audio_deleted_at` is never followed by the file coming
  back, in particular not through a stop that is executed late.
- `SettledIsFinal`: a finished session that no coroutine is working on is not
  taken up again by a late event, a forgotten job or a request.
- `OneVisit`: `Recorder` implements `Recording`. The bot of a session comes, enters
  and goes once, the file is written only while it is in the call, discarded
  only after that, and a transcript is made only from a file that was written.
  The mapping reads the bot's whereabouts off the state of its process.
- `FollowsTable`, `MovesOn`: `Recorder` implements `SessionLifecycle`, with the
  identity as mapping, as long as requests and join jobs of one session do not
  overlap: then every commit applies a table action to the status the row really
  has, although it was read before. `Sequential` has one request at a time and no
  scheduled sessions. With the overlaps of `Cancelled` it does not hold.
- `TranscriptBacked`: `transcript_ready`, in a row or in the stream, means that
  the transcript exists.
- `ScheduledIsArmed`: a scheduled session has a job, or the coroutine that will
  arm, fire or cancel it, across restarts, if join jobs start in time: `Faults` is
  the one run with `Punctual` (section 6).
- `JoinResolves`, `TranscriptionResolves`, `DisposalResolves`,
  `RequestsAnswered`: what must happen in the end.
- `RemindedOnce`, `ResolvedInTime`: the reminder goes out in a window as wide as
  the job's interval, so undisturbed runs hit it exactly once; a row waits at most
  one interval too long, and one more for each disturbance.
- `ActsAsWorker`: every step of the process with its page is a step `MeetingWorker`
  describes (an answer follows the stop, the file is there before it, nothing is
  reported by the watch task), or one the gateway does not see. The wav file counts
  from the moment the worker answers.
- `RewriteIsSame`: a repeated stop writes the recording that was announced: the
  provider stops capturing before the file is written, so no late chunk gets in.
- `LeftMeansClosed`: after `left` the page is gone.
- `WayForward`: a session that only its user can take on has a button in the chat
  that does it. `AskedBacked`: no question about a
  recording is in the chat before there is one.
- `TranscriptSent`: of the poll and the notification at least one sends the
  transcript. `StopOffered`, `DisposalAsked`: the keyboards arrive.

**Bounds.** `Sessions`: every property but two speaks of one session at a time,
and sessions interact only through the streams and the owner's check, for which
two are enough (`TwoUsers`, `OneActive`). `Slots`: two requests suffice
for one to hold a stale row, or to replace the other's Event. They are
interchangeable, which `Lifecycle` uses as a symmetry; its `SettledIsFinal` and
`OneVisit` are symmetric safety properties. `MaxQueued` (2, in `Dialogue` 1) stops
the *user*, and the reminders, while that many stream entries are unread; the
system itself is never held back, so longer queues still occur. `MaxFaults = 2`
lets a restart interrupt the recovery from another crash. `MaxBotFaults = 1` is one
restart of the bot, one answer or one message lost. In `TelemostProvider` three
commands are a stop, its repetition and a leave; two chunks are one before and
one after the stop. `MaxDisturbed = 2` is a disturbance of a disturbed schedule.
A slot has at most one simulated transcription under way. The proofs of section 5
need none of the bounds of `Recorder` and `CleanupFollowup`.

**Fairness.** `FairSpec` asks weak fairness of the steps the event loop, the
scheduler and the operating system give every runnable task: each suspended
coroutine (`Resume`; a wait ends in its timeout at the latest), the listener, each
join job, the followup, the sweeper, each worker and the transcriber. All but the listener are in loops without an exit, the listener leaves its own only
in a step that counts as a fault, and none of them can be overtaken for ever by
another. `BotFairness` asks the same of the bot's handlers, of whoever publishes
notifications and of their reader; `SimFairness` of the tasks that stand for
worker and transcriber. Nothing obliges the user to click, nor a fault to happen.
`Join` and `JoinFail` share one fairness condition, so a join may fail but not
hang: the provider bounds it with its own timeouts. Three properties except a run
of the system in which something has died (`Undisturbed`, and `faults = 0` in
`MovesOn`): a crash between the commit of `joining` and the spawn leaves the
session joining, and a transcriber that dies leaves it transcribing; nothing in
the code recovers either. `WayForward` and `TranscriptSent` except in the same way
(`AllHeard`) lost answers and messages. `RequestsAnswered` and `DisposalResolves`
hold in spite of faults. The liveness runs have one request at a time; two
concurrent transcribe requests can leave a session queued (section 6).

### Violated, and what that says of the program

Each of these checks one statement the repository makes about itself, and TLC
returns a behaviour of the code that breaks it; `findings` in `PROJECT.json`
quotes the lines.

| Run | Statement | What happens |
|---|---|---|
| `Cancelled` | `TerminalIsFinal` | `_fire_join` has read the row as scheduled; the cancel removes no job and commits `completed`; the job commits `joining` over it and spawns the worker |
| `OneActive` | `OneActivePerUser` | two `create_session` of one user both find no active session; from then on the lookup of the active session raises |
| `LocalDatabase` | `DisposalResolves` | SQLite returns timestamps without a time zone; the followup raises at the first pending record, at every run |

## 4. Mutants

A definition that ends a comment "Mutant:" is a plausible mistake in the code the
next definition models: a timeout that counts as an answer, a listener that does
not look at the status, jobs that are not restored, an unlink that does not
happen, a keyboard that is not sent. Every property of a passing run is broken by
one of them (`mutants` in `PROJECT.json`). They are part of no specification.

## 5. The proofs

TLAPS proves, for every set of sessions, users and concurrent requests, every
`ProviderEvents`, both auto actions and any number of faults:

| Theorem | Statement |
|---|---|
| `RecorderTypes!TypeCorrect` | `Spec => []TypeOK` |
| `RecordingProofs!AudioAgreed` | `Spec => []AudioInv` |
| `RecordingProofs!AudioIsBacked` | `Spec => []AudioBacked` |
| `RecordingProofs!VisitsOnce` | `Spec => OneVisit` |
| `RowProofs!SettledStaysFinal` | `Spec => SettledIsFinal` |
| `RowProofs!TranscriptsBacked` | `Spec => []TranscriptBacked` |
| `RowProofs!ScheduledStaysArmed` | `Spec => []ScheduledIsArmed`, if `Punctual` and `"past" \notin CreateModes` |
| `RowProofs!LeftStaysGone` | `Spec => []LeftMeansGone`, if `"meeting_ended" \notin ProviderEvents` |
| `RowProofs!DeletedStaysGone` | `Spec => []DeletedMeansGone`, if `"meeting_ended" \notin ProviderEvents` |
| `RowProofs!TableFollowed` | `Spec /\ []Alone => FollowsTable`, if `ProviderEvents \subseteq {"waiting_room"}` |
| `BotProofs!BotIsUser` | `BotSpec => Spec` |
| `BotProofs!BotTyped` | `BotSpec => []BotTypeOK` |
| `BotProofs!DeleteIsOffered` | `BotSpec => []DeleteOffered` |
| `BotProofs!AskedIsBacked` | `BotSpec => []AskedBacked` |
| `BotProofs!TranscriptIsSent` | `BotSpec => []TranscriptSent` |
| `BotProofs!WayIsForward` | `BotSpec /\ []Alone => []WayForward`, if `"meeting_ended" \notin ProviderEvents` |
| `SimulationProofs!SimulationTyped` | `SimSpec => []SimTypeOK` |
| `SimulationProofs!SimulatedTranscriptsBacked` | `SimSpec => []TranscriptBacked` |

from the assumptions `ProcessesAssumption` (the names of coroutines are distinct),
`SettingsAssumption` (modes and provider events are those of the code), both in
`RecorderState`, and `BotAssumption` (`TelegramBot`). By `BotIsUser` the
ten above it hold of the composed system too. Of the worker process from the inside,
for any number of chunks, commands and kills, from `ProviderAssumption` (two
sessions that differ, bounds that are numbers):

| Theorem | Statement |
|---|---|
| `ProviderProofs!ProviderTyped` | `Spec => []ProviderTypeOK` |
| `ProviderProofs!NoPageAfterLeft` | `Spec => []LeftMeansClosed` |
| `ProviderProofs!RewritesTheSame` | `Spec => RewriteIsSame` |
| `ProviderProofs!ProviderIsWorker` | `Spec => ActsAsWorker` |

and of `CleanupFollowup`, for all periods, from `PeriodAssumption` (the
reminder's window ends before the limit, a run is late by less than an interval):

| Theorem | Statement |
|---|---|
| `FollowupProofs!OneReminder` | `Spec => []RemindedOnce` |
| `FollowupProofs!InTime` | `Spec => []ResolvedInTime` |

Nothing is assumed to be finite. Five theorems have a hypothesis:

- `"past" \notin CreateModes`: a date in the past is refused only after its row has
  been committed as scheduled (`session_service.py:155`, section 6).
- `Punctual`: a join job that starts more than a second late is dropped, and its
  session stays scheduled; `stop_process` can block the loop up to five seconds
  (`worker_manager.py:83`, section 6).
- `"meeting_ended" \notin ProviderEvents`: the listener moves a session on when its
  meeting ends and tells the worker nothing (`event_listener.py:83`). `watch_events`
  of the one provider in the repository yields nothing (`provider.py:136`), and
  `ProviderIsWorker` shows that its process never takes the step `Watch`.
- `ProviderEvents \subseteq {"waiting_room"}`: `recording` and `failed` come from the
  end of `join` only, as with Telemost. A provider that reports `failed` besides breaks
  the property: the failure is committed, and then the stop that was waiting, over
  it. With `recording` or `meeting_ended` TLC finds no violation (one session, two
  requests, two faults), but the invariant does not cover them: it would have to
  follow the order of the events in the stream.
- `Alone`: no two of the coroutines of requests and join jobs work on the same
  session at the same time. Nothing in the code sees to that; where it fails, a row
  leaves the table as in run `Cancelled`, and of two "leave" the second commits
  `recorded` over the transcription the user has asked for in the meantime, whose
  answer takes the last button away (`WayIsForward`, section 6). Requests for
  different sessions, the listener, the followup, the sweeper, the workers, restarts
  and crashes are not restricted.

But for what is said of `recording` and `meeting_ended`, the properties are false
without them.

*Types.* `TypeOK` is inductive because `Suspended` says which frames exist: a
coroutine at `spawn` is at `start_join`, one at `reap` at `leave`. Without that,
`CommitTransition` could not be known to write a status. One lemma per action
treats the groups of variables the action changes (`UnchangedTypes` covers the
rest); `StepTypes` collects them.

*Audio.* `AudioBacked` alone is not inductive: a commit writes a status the row may
no longer justify. `AudioInv` adds what the coroutine, Event and stream entry
that lead there claim:

- `FramesBacked`: a coroutine that holds a late action (one that applies only past
  the capture), or commits `stop_recording`, works on a session whose file was
  written;
- `SignalsBacked`: an Event that is set for `stop_recording` was set by an answer;
- `AnswersBacked`: a `capture_stopped` in the stream was sent after the file was
  written.

Its conjuncts are kept because a file's history never returns to `none`
(`AudioLasts`), so a step disturbs only what it writes (`Kept`). The cases that
carry the argument are `LateSources` (whoever reads a row for a late action reads
one past its capture), `LookupBacked` and `ListenerSignalBacked` (from answer to
Event to coroutine), `StopCaptureBacked` (the file before the answer) and
`CommitTransitionBacked` (from coroutine to row).

*Visits.* Nothing in the code remembers that a session has been joined. That `Spec`
implements `Recording` therefore needs an invariant about who may still start it,
`VisitInv`: the coroutine that creates it, its join job and the coroutine that
joins it are never two (`OneStarter`), whoever it is finds no worker yet
(`StartsFresh`), and what has been spawned is not scheduled again, by a restart
for example (`StaysStarted`). `WritesFromAudio` adds that the transcriber only
writes what it has loaded. `StepRefines` then maps every action to a step of
`Recording` in each session, or to a stutter.

*Followup.* `OnTime` says that, undisturbed, the number of reminders is a function
of the age at which the last run was due; runs are exactly one interval apart, so
one of them falls into the window. `NextRunInTime` bounds the age the row will
have at the next run, with one `Gap` for every disturbance so far.

*Steps.* The invariants below speak of several variables at a time, and an action
disturbs most of them. So `RecorderSteps` proves once what a step may do to each
part of the state (`StepMoves`, `Moves` its conclusion): `StatusMoves` says that a
status changes by an insert, or by the commit of a coroutine that stands at one;
`FrameMoves` says with what a coroutine may begin (`Begins`), who is entitled to
(`Entitled`), and how it goes on (`Continues`); the others treat files, jobs, streams
and processes. The proofs of `RowProofs`
and `BotProofs` take their cases from `Moves` and not from `Next`.

*Rows.* `SettledIsFinal` is shown of each step (`StepSettles`): nobody was at work on
the session, so whoever is now has just begun; the table allows no action in a
finished status, and what may begin without looking at it (an expiry, the
followup's deletion of a record it had selected) ends the session once more. `TranscriptInv` adds to `TranscriptBacked` that
whoever is about to commit `transcript_ready` has heard it from the transcriber
(`AnnouncersBacked`). `ScheduleInv` names who decides about a session that is
scheduled and not armed (`Expected`): the coroutine that created it and has still
to arm it, or one that has taken the job away and has still to commit. The
listener is not among them, as its handler may fail; it need not be, as it takes
no job away (`ArmedMoves`). `LeaveInv` is the chain from the
answer of a worker that has left to the row: `FramesLeft` (who commits the leave
has been woken by it), `RowsLeft` (status, transcript, offer, expiry),
`JobsLeft` and `EventsLeft` (the transcriber's job and its answer). Whoever
has gone stays gone because of `VisitInv` (`StaysGone`), so a stop that is
executed late finds nobody to write the file, and `DeletersUnlinked` (who commits
`delete_audio` has unlinked the file) makes `DeletedMeansGone` inductive.

*Table.* `FollowsTable` needs that a row read some awaits ago is as good as new. Its
invariant `TableInv` has that as `Fits`: what a coroutine is going to commit still
applies to the row as it is. `Roles` says what each kind of coroutine may be working
at. Requests and join jobs do not meet, by `Alone`; the listener meets them, but the
statuses in which the user decides (`RequestSources`) are not those in which the
machine does (`ListenerSources`), so neither moves the row of the other. The
exception is `fail`, which applies to nearly every row: `TurnedAway` and `Ordered`
say that a refusal in the stream, or a transcriber at work, is of a session that
still waits for it, and `NotYetIn` that a `recording` in the stream is the
first. The followup may find its record decided by the user (`SelectedFit`): it then
completes what is complete. `RowStep` concludes that a changed status is
one the table allows, `OneRow` that a step changes one row, `StepLife` that this is a
step of `SessionLifecycle`.

*Provider.* `ProviderInv` says at which points of `run()` what has been reported:
nothing before the join (`SilentUntilJoined`), `left` last and with the page closed
(`LeavesLast`), `capture_stopped` with the file written (`FileAnnounced`) and the
sink closed for good (`SinkClosed`). With it every action of the process is an
action of `MeetingWorker`, or leaves phase, file, streams and kills alone (`Sight`).

*Dialogue.* `BotIsUser` maps the steps of a handler to the user's request, and
everything else of the bot to a stutter. The other theorems need what a keyboard is
there for: `Grounds` ties it to the row and the file, in the chat, in the stream of
notifications and in the draft the listener is about to publish. New ones come from
handlers that waited for the very request that earns them (`HandlersFollow`) and
from announcements of rows (`PendingOffered`, `TranscriptsRecorded`); old ones
stay true, since files, transcripts and offers are not taken back (`GroundsStay`).

`TranscriptSent` and `WayForward` speak of runs in which nothing has crashed and no
answer was lost; `HeardSteps` shows that these consist of the steps without
faults. `TranscriptsTold` follows the word of a transcript: it is in the stream of
events, in the hands of the listener, its draft, a notification, or delivered;
each step passes it on (`ResumeTells`, `TakesTells`, `NotesStay`, `DraftStays`). `WayInv`
says who may leave a session to its user (`CommittersKnown`), that whoever does so
for a request has a handler waiting (`AnswersAwaited`), which a button of the
keyboard to be replaced has started (`ButtonsPressed`). So a row and its keyboard
change together (`LeftWithKeyboard`), and a keyboard goes only with the status it
was for (`EditsMove`); the one that goes later, when the job is published, needs
that nobody makes the row `recorded` again in between (`JobsAhead`): of all who commit only a "leave" could, and
by `Alone` there is none beside it.

*Simulation.* `Either` shows that every step is one of `Recorder`, or one of seven in
which a task stands in for a process (`StandIn`); the lemmas about `Next` take care of
the former. The types need `StopsAsked`: only a request stops a recording, so the file
to be written is a request's. `TranscriptBacked` needs `StubsBacked`: a stub about to
announce a transcript has written it.

Only model-checked:

- every liveness property and the fair refinement `MovesOn`: fairness and ENABLED are
  outside the prover;
- the three runs that end in a violation.

## 6. Not covered

**Not modelled**: the LLM summary (one HTTP call, one file, no session state),
authentication, schemas and configuration (they decide who may send a request,
not what it does), wording, the conversion of samples, the paths, trimming and
encoding of stream entries, start-up of the database.

**Known not to hold, and promised nowhere**:

- A date in the past is refused after its row is committed: the row stays
  scheduled without a job until it is cancelled or a restart arms it
  (`session_service.py:155`). The same goes for a session whose join job starts more
  than a second late, and is dropped (`scheduler.py:65`).
- With two requests for one session, one that read the row earlier commits over
  what the other has made of it, `completed` included (`session_service.py:75`).
  `WayForward` fails then: a second "leave" makes a session `recorded` again whose
  transcription has been asked for, and no button for it is left.
- `TranscriptionResolves` with two overlapping transcribe requests: the second
  commit of `transcription_queued` covers `transcribing` (`session_service.py:257`).
- `JoinResolves` and `TranscriptionResolves` across a crash (section 3, fairness).
- The followup deletes the file of a record it selected before the user chose to
  keep it (`audio_cleanup_followup.py:77`).
- A restart of the gateway can place the reminder's window between two runs: no
  reminder is sent (`audio_cleanup_followup.py:30`, `app.py:32`).
- `MAX_CONCURRENT_SESSIONS` is read by nobody (`settings.py:26`).
- `LeftMeansGone` with a provider that reports `meeting_ended`: the session moves
  on and its worker stays (`event_listener.py:83`).
- The end of a meeting is never noticed (`provider.py:136`), and a bot that
  stands outside the call is announced as recording (`provider.py:76`).
- The dialogue stops where a restart of the bot, or the client's timeout of 120 s,
  takes the handler that was to answer (`session_flow.py:227`,
  `clients/gateway.py:15`); `/status` brings back the keyboard of a recording only.
- The stop keyboard is shown also when the poll for the recording has run out
  (`session_flow.py:109`).
- Once Redis has failed the listener, no event moves a row and no answer wakes a
  request until the gateway is restarted (`event_listener.py:140`).
- `/status` and `/cancel` stay silent when there is no session
  (`routers/sessions.py:62`): the 404 becomes a 500.
- The transcript of a meeting in which nobody spoke is not sent
  (`routers/sessions.py:223`).
- A simulated meeting that is sent to the real transcriber ends as failed
  (`session_service.py:228`). Its stop writes the file after the row was committed,
  so neither `AudioBacked` nor, with two requests, `DeletedMeansGone` hold of it.

## 7. Plan

Done, in this order: state machine, shared state, requests with their handshake,
listener, jobs, worker, transcriber, composition; types and the audio invariant
proved; the abstract specifications and their refinement, with the one of
`Recording` proved; what a step moves, and the invariants of the rows proved; the
followup's clock, checked and proved; the bot with its notifications, and the
provider from the inside, checked and proved; the refinement of `SessionLifecycle`
proved; the simulation modes, checked and proved. To come:

1. `TableFollowed` for a provider that repeats `recording`, or reports the end of a
   meeting: the order of the events in the stream.
2. `ScheduledIsArmed` of the simulated meeting, which its run does not check yet.
