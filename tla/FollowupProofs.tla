--------------------------- MODULE FollowupProofs ---------------------------
(***************************************************************************)
(* CleanupFollowup for every choice of the periods.                        *)
(***************************************************************************)
EXTENDS CleanupFollowup, TLAPS

-----------------------------------------------------------------------------
(* As long as nothing has disturbed the runs, the number of reminders is known
   from the age at which the last run was due, and what has been resolved was
   old enough. *)
LastRun == age + due - Interval
OnTime ==
  /\ age \in Nat /\ due \in 0..Interval
  /\ outcome # "auto" => LastRun < AutoAfter
  /\ outcome = "auto" => LastRun >= AutoAfter
  /\ reminders = IF LastRun >= ReminderAfter THEN 1 ELSE 0

Punctual == disturbed \in Nat /\ (disturbed = 0 => OnTime)

(* The inductive step behind OneReminder: each run is exactly one interval
   after the last, so exactly one of them falls into the reminder's window. *)
LEMMA PunctualStep ==
  ASSUME Punctual, [Next]_vars
  PROVE  Punctual'
  <1> USE PeriodAssumption DEF Punctual
  <1>1. CASE Tick
    BY <1>1 DEF Tick, OnTime, LastRun
  <1>2. CASE Run
    <2> SUFFICES ASSUME disturbed = 0, OnTime PROVE OnTime'
      BY <1>2 DEF Run
    <2>1. due = 0 /\ due' = Interval /\ age' = age /\ LastRun' = age
      BY <1>2 DEF Run, OnTime, LastRun
    <2>2. LastRun = age - Interval /\ LastRun < AutoAfter
      BY <1>2, <2>1 DEF Run, OnTime, LastRun
    <2>3. /\ outcome' # "auto" => LastRun' < AutoAfter
          /\ outcome' = "auto" => LastRun' >= AutoAfter
      BY <1>2, <2>1 DEF Run, OnTime, FollowupAction
    <2>4. reminders' = IF LastRun' >= ReminderAfter THEN 1 ELSE 0
      <3>1. CASE age < ReminderAfter
        BY <1>2, <2>1, <2>2, <3>1 DEF Run, OnTime, FollowupAction
      <3>2. CASE ReminderAfter <= age /\ age < ReminderAfter + Interval
        BY <1>2, <2>1, <2>2, <3>2 DEF Run, OnTime, FollowupAction
      <3>3. CASE ReminderAfter + Interval <= age
        BY <1>2, <2>1, <2>2, <3>3 DEF Run, OnTime, FollowupAction
      <3> QED BY <3>1, <3>2, <3>3 DEF OnTime
    <2> QED BY <2>1, <2>3, <2>4 DEF OnTime
  <1>3. CASE Decide
    BY <1>3 DEF Decide, OnTime, LastRun
  <1>4. CASE Lag \/ Misfire \/ Restart \/ Update
    BY <1>4 DEF Lag, Misfire, Restart, Update, Disturbed
  <1>5. CASE UNCHANGED vars
    BY <1>5 DEF vars, OnTime, LastRun
  <1> QED BY <1>1, <1>2, <1>3, <1>4, <1>5 DEF Next

(* With every run on time and nothing in between, a user who does not answer
   is reminded exactly once before the audio is disposed of, whatever the
   periods are, as long as the window ends before the resolution. *)
THEOREM OneReminder == Spec => []RemindedOnce
  <1>1. Init => Punctual
    BY PeriodAssumption DEF Init, Punctual, OnTime, LastRun
  <1>2. Punctual /\ [Next]_vars => Punctual'
    BY PunctualStep
  <1>3. Punctual => RemindedOnce
    BY PeriodAssumption DEF Punctual, OnTime, RemindedOnce, LastRun
  <1> QED BY <1>1, <1>2, <1>3, PTL DEF Spec

-----------------------------------------------------------------------------
(* Late, dropped and restarted runs. *)

Gap == Interval + Late

(* The inductive form of ResolvedInTime: the age the row will have when the
   next run is due. *)
NextRunInTime ==
  /\ age \in Nat /\ disturbed \in Nat
  /\ due \in Int /\ -Late <= due /\ due <= Interval
  /\ outcome = "pending" => age + due < AutoAfter + Interval + Gap * disturbed

(* One disturbance more allows for one gap more. *)
LEMMA OneGapMore ==
  ASSUME NEW d \in Nat
  PROVE  /\ Gap * (d + 1) = Gap * d + Gap
         /\ Gap * d \in Nat
  BY PeriodAssumption DEF Gap

(* Every action keeps it. *)
LEMMA NextRunStep ==
  ASSUME NextRunInTime, [Next]_vars
  PROVE  NextRunInTime'
  <1> USE PeriodAssumption DEF NextRunInTime
  <1> DEFINE G == Gap * disturbed
  <1>1. G \in Nat /\ Gap * (disturbed + 1) = G + Gap
    BY OneGapMore
  <1>2. CASE Tick
    BY <1>1, <1>2 DEF Tick
  <1>3. CASE Run
    <2>1. outcome' = "pending" => age < AutoAfter
      BY <1>3 DEF Run, FollowupAction
    <2> QED BY <1>1, <1>3, <2>1 DEF Run
  <1>4. CASE Decide
    BY <1>4 DEF Decide
  <1>5. CASE Misfire
    BY <1>1, <1>5 DEF Misfire, Disturbed, Gap
  <1>6. CASE Restart
    BY <1>1, <1>6 DEF Restart, Disturbed, Gap
  <1>7. CASE Update
    BY <1>1, <1>7 DEF Update, Disturbed, Gap
  <1>8. CASE UNCHANGED vars
    BY <1>8 DEF vars
  <1>9. CASE Lag
    BY <1>1, <1>9 DEF Lag, Disturbed, Gap
  <1> QED BY <1>2, <1>3, <1>4, <1>5, <1>6, <1>7, <1>8, <1>9 DEF Next

(* A pending row is resolved in time: each run that is late or dropped, each
   restart and each update of the row delays it by one interval at most. *)
THEOREM InTime == Spec => []ResolvedInTime
  <1>1. Init => NextRunInTime
    BY PeriodAssumption, OneGapMore DEF Init, NextRunInTime
  <1>2. NextRunInTime /\ [Next]_vars => NextRunInTime'
    BY NextRunStep
  <1>3. NextRunInTime => ResolvedInTime
    BY PeriodAssumption, OneGapMore DEF NextRunInTime, ResolvedInTime, Gap
  <1> QED BY <1>1, <1>2, <1>3, PTL DEF Spec
=============================================================================
