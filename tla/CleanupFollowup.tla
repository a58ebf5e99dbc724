-------------------------- MODULE CleanupFollowup --------------------------
(***************************************************************************)
(* audio_cleanup_followup.py against the clock: when a session that waits  *)
(* for the decision about its audio is reminded and when it is resolved.   *)
(* GatewayJobs says what resolving does; here time is counted, in ticks    *)
(* as fine as one likes, and one pending row is followed.                  *)
(*                                                                         *)
(* APScheduler runs the job every Interval from the start of the gateway,  *)
(* each run up to Late ticks late; a run it could start only later than    *)
(* its misfire grace time is dropped.                                      *)
(*                                                                         *)
(* Bound: MaxDisturbed ticks of lateness, dropped runs, restarts and       *)
(* updates of the row.                                                     *)
(***************************************************************************)
EXTENDS Integers

CONSTANTS
  ReminderAfter, AutoAfter, Interval,   \* AUDIO_CLEANUP_*_MINUTES
  Late,
  MaxDisturbed

ASSUME PeriodAssumption ==
  /\ ReminderAfter \in Nat \ {0} /\ AutoAfter \in Nat /\ Interval \in Nat \ {0}
  /\ ReminderAfter + Interval <= AutoAfter
  /\ Late \in Nat /\ Late < Interval
  /\ MaxDisturbed \in Nat

VARIABLES
  age,        \* time since updated_at of the pending row
  due,        \* time until the next run is due, negative while it is late
  reminders,  \* how often the user has been reminded
  outcome,    \* "pending", "auto" once the job has resolved it, "user"
  disturbed

vars == <<age, due, reminders, outcome, disturbed>>

(* The row may become pending anywhere between two runs. *)
Init ==
  /\ age = 0 /\ due \in 1..Interval
  /\ reminders = 0 /\ outcome = "pending" /\ disturbed = 0

(* Mutants: the reminder has no end; the resolution has one. *)
ActionWide(a) ==
  IF a >= AutoAfter THEN "auto" ELSE IF a >= ReminderAfter THEN "remind" ELSE "none"
ActionNarrow(a) ==
  IF AutoAfter <= a /\ a < AutoAfter + Interval THEN "auto"
  ELSE IF ReminderAfter <= a /\ a < ReminderAfter + Interval THEN "remind" ELSE "none"

(* _classify_followup_action. *)
FollowupAction(a) ==
  IF a >= AutoAfter THEN "auto"
  ELSE IF ReminderAfter <= a /\ a < ReminderAfter + Interval THEN "remind" ELSE "none"

Tick ==
  /\ outcome = "pending" /\ due > 0
  /\ age' = age + 1 /\ due' = due - 1
  /\ UNCHANGED <<reminders, outcome, disturbed>>

(* process_pending_audio_cleanup, for this row. *)
Run ==
  /\ outcome = "pending" /\ due <= 0
  /\ due' = due + Interval
  /\ reminders' = IF FollowupAction(age) = "remind" THEN reminders + 1 ELSE reminders
  /\ outcome' = IF FollowupAction(age) = "auto" THEN "auto" ELSE outcome
  /\ UNCHANGED <<age, disturbed>>

(* The user presses a button: the row is not pending any more. *)
Decide ==
  /\ outcome = "pending" /\ outcome' = "user"
  /\ UNCHANGED <<age, due, reminders, disturbed>>

Disturbed ==
  /\ outcome = "pending"
  /\ disturbed < MaxDisturbed /\ disturbed' = disturbed + 1

(* The event loop is busy when the run is due. *)
Lag ==
  /\ Disturbed
  /\ due <= 0 /\ due > -Late
  /\ age' = age + 1 /\ due' = due - 1
  /\ UNCHANGED <<reminders, outcome>>

(* stop_process has blocked the event loop for too long. *)
Misfire ==
  /\ Disturbed
  /\ due <= 0 /\ due' = due + Interval
  /\ UNCHANGED <<age, reminders, outcome>>

(* The interval starts anew with the gateway. *)
Restart ==
  /\ Disturbed
  /\ due' = Interval
  /\ UNCHANGED <<age, reminders, outcome>>

(* A commit that leaves the row pending, such as the keys the listener stores
   for a repeated transcript_ready: onupdate sets updated_at. *)
Update ==
  /\ Disturbed
  /\ age' = 0
  /\ UNCHANGED <<due, reminders, outcome>>

Next == Tick \/ Lag \/ Run \/ Decide \/ Misfire \/ Restart \/ Update

Spec == Init /\ [][Next]_vars

-----------------------------------------------------------------------------
(* "Sends one reminder": with every run on time, a user who lets the time run
   out has been reminded, and nobody is reminded twice. *)
RemindedOnce ==
  disturbed = 0 => reminders <= 1 /\ (outcome = "auto" => reminders = 1)

(* Nobody is left waiting: as long as the row is pending it is younger than
   the limit by at most one interval, and one more for every disturbance. *)
ResolvedInTime ==
  outcome = "pending" => age < AutoAfter + (Interval + Late) * (disturbed + 1)
=============================================================================
