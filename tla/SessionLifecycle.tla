-------------------------- MODULE SessionLifecycle --------------------------
(***************************************************************************)
(* What the transition table promises: a session is created once, and from *)
(* then on every change of its status is one action of the table, applied  *)
(* to the status it really has.  In the statuses of Machine it waits for   *)
(* no user and moves on.                                                   *)
(***************************************************************************)
EXTENDS SessionFSM

CONSTANT Sessions

VARIABLE status

Init == status = [s \in Sessions |-> "absent"]

Become(s, st) == status' = [status EXCEPT ![s] = st]

Create(s) == status[s] = "absent" /\ \E st \in {"queued", "scheduled"} : Become(s, st)
Move(s) == \E act \in Action : Applies(status[s], act) /\ Become(s, To(act))

Next == \E s \in Sessions : Create(s) \/ Move(s)

Spec == Init /\ [][Next]_status

Machine == {"queued", "joining", "transcription_queued", "transcribing",
            "transcript_ready", "pending_audio_disposal"}

Advance(s) == status[s] \in Machine /\ Move(s)

Progress == \A s \in Sessions : WF_status(Advance(s))
=============================================================================
