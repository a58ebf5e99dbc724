----------------------------- MODULE SessionFSM -----------------------------
(***************************************************************************)
(* The status of a recording session and the transition table of           *)
(* services/gateway/services/session_fsm.py.  Every service writes a       *)
(* status only through apply_transition, so the table is the vocabulary of *)
(* the whole system.                                                       *)
(***************************************************************************)

Status == {"scheduled", "queued", "joining", "waiting_room", "recording",
           "capture_stopped", "in_call", "recorded", "transcription_queued",
           "transcribing", "transcript_ready", "pending_audio_disposal",
           "completed", "failed"}

(* _TRANSITIONS: for each action, the statuses it is allowed from and the
   status it leads to. *)
Transitions ==
  [schedule |-> [from |-> {"queued"}, to |-> "scheduled"],
   start_join |-> [from |-> {"queued", "scheduled"}, to |-> "joining"],
   waiting_room |-> [from |-> {"joining"}, to |-> "waiting_room"],
   recording |-> [from |-> {"joining", "waiting_room"}, to |-> "recording"],
   stop_recording |-> [from |-> {"recording"}, to |-> "capture_stopped"],
   decline_leave |-> [from |-> {"capture_stopped"}, to |-> "in_call"],
   leave |-> [from |-> {"capture_stopped", "in_call"}, to |-> "recorded"],
   confirm_transcribe |-> [from |-> {"recorded"}, to |-> "transcription_queued"],
   decline_transcribe |-> [from |-> {"recorded"}, to |-> "pending_audio_disposal"],
   transcribing |-> [from |-> {"transcription_queued"}, to |-> "transcribing"],
   transcript_ready |-> [from |-> {"transcribing"}, to |-> "transcript_ready"],
   await_audio_disposal |-> [from |-> {"transcript_ready"}, to |-> "pending_audio_disposal"],
   delete_audio |-> [from |-> {"pending_audio_disposal"}, to |-> "completed"],
   retain_audio |-> [from |-> {"pending_audio_disposal"}, to |-> "completed"],
   cancel |-> [from |-> {"scheduled"}, to |-> "completed"],
   fail |-> [from |-> {"queued", "scheduled", "joining", "waiting_room",
                       "recording", "capture_stopped", "in_call",
                       "transcription_queued", "transcribing"}, to |-> "failed"]]

Action == DOMAIN Transitions

(* Mutants: leave is allowed while recording; a failed join is no failure. *)
AppliesEarly(st, act) ==
  st \in Transitions[act].from \cup (IF act = "leave" THEN {"recording"} ELSE {})
AppliesUnlessJoining(st, act) ==
  st \in Transitions[act].from \ (IF act = "fail" THEN {"joining"} ELSE {})

(* apply_transition returns To when Applies, and raises
   InvalidTransitionError otherwise. *)
Applies(st, act) == st \in Transitions[act].from
To(act) == Transitions[act].to

(* The two statuses with which a session no longer counts as active. *)
Terminal == {"completed", "failed"}
=============================================================================
