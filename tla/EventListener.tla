--------------------------- MODULE EventListener ---------------------------
(***************************************************************************)
(* services/gateway/services/event_listener.py: the task that applies the  *)
(* events of the stream session.events to the rows, one event at a time.   *)
(* An event is acknowledged whatever its handler did (the finally clause), *)
(* so taking it from the stream and deciding what to do with it is one     *)
(* step; the commit it decides on is another (CommitTransition), because   *)
(* the row may change in between.                                          *)
(***************************************************************************)
EXTENDS SessionService

Consume == events' = Tail(events)

(* The transitions an event may call for in a row of status st. *)
Wanted(ev, st) ==
  {act \in Action :
     \/ ev \in {"waiting_room", "recording", "transcribing"} /\ act = ev
     \/ ev = "transcript_ready" /\ act \in {"transcript_ready", "await_audio_disposal"}
     \/ ev \in {"failed", "transcription_failed"} /\ act = "fail"
     \/ ev = "meeting_ended" /\ act = "leave" /\ st = "in_call"}

(* Mutant: the handlers do not look at the status they have read. *)
ReactionUnchecked(ev, st) == Wanted(ev, st)

Reaction(ev, st) == {act \in Wanted(ev, st) : Applies(st, act)}

ListenerReact ==
  /\ At(Listener, "idle") /\ events # <<>>
  /\ \E act \in Reaction(Head(events).ev, status[Head(events).sid]) :
       Goto(Listener, Frame("commit", act, Head(events).sid))
  /\ Consume
  /\ UNCHANGED <<rowVars, fileVars, overdue, armed, signal, commands, jobs, workerVars,
                 transcriber, offered, faults>>

(* notify_capture_stopped and notify_left: the session's current Event is set
   and its waiters resume, whatever the status is. *)
ListenerSignal ==
  LET s == Head(events).sid
      act == IF Head(events).ev = "left" THEN "leave" ELSE "stop_recording"
  IN /\ At(Listener, "idle") /\ events # <<>>
     /\ Head(events).ev \in {"capture_stopped", "left"}
     /\ signal' = [signal EXCEPT ![s] = @ \cup {act}]
     /\ frame' = [p \in Procs |-> IF Waiting(p, act, s)
                                    THEN Woken(act, frame[p].sid) ELSE frame[p]]
     /\ Consume
     /\ UNCHANGED <<rowVars, fileVars, overdue, armed, commands, jobs, workerVars,
                    transcriber, offered, faults>>

(* Any other event is dropped when the status does not fit it; for
   transcript_ready the user is still sent the delete/keep keyboard. *)
ListenerIgnore ==
  /\ At(Listener, "idle") /\ events # <<>>
  /\ Head(events).ev \notin {"capture_stopped", "left"}
  /\ Reaction(Head(events).ev, status[Head(events).sid]) = {}
  /\ offered' = IF Head(events).ev = "transcript_ready"
                  THEN offered \cup {Head(events).sid} ELSE offered
  /\ Consume
  /\ UNCHANGED <<rowVars, fileVars, frame, overdue, armed, signal, commands, jobs,
                 workerVars, transcriber, faults>>

(* The handler raises: the event is acknowledged all the same, and what it
   stood for is lost, or the second half of it.  When Redis fails, so does the
   acknowledgement, or the next read, which nothing catches: the listener ends,
   and only a restart of the gateway starts another. *)
ListenerFail ==
  /\ faults < MaxFaults
  /\ faults' = faults + 1
  /\ \/ At(Listener, "idle") /\ events # <<>> /\ Consume /\ UNCHANGED frame
     \/ frame[Listener].pc \in {"commit", "reload"} /\ Finish(Listener) /\ UNCHANGED events
     \/ /\ frame[Listener].pc \in {"idle", "commit", "reload"}
        /\ Goto(Listener, EndedFrame) /\ UNCHANGED events
  /\ UNCHANGED <<rowVars, fileVars, overdue, armed, signal, commands, jobs, workerVars,
                 transcriber, offered>>

(* db.refresh before a second transition.  The listener skips the transition
   when the row has moved on; in the followup job it raises
   InvalidTransitionError, which abandons the records not yet resolved. *)
Reload(p) ==
  LET s == frame[p].sid
      act == frame[p].act
      fits == Applies(status[s], act)
  IN /\ At(p, "reload")
     /\ Goto(p, IF fits THEN Frame("commit", act, s) ELSE IdleFrame)
     /\ overdue' = IF p = Followup /\ ~fits THEN {} ELSE overdue
     /\ offered' = IF p = Listener /\ ~fits THEN offered \cup {s} ELSE offered
     /\ UNCHANGED <<rowVars, fileVars, armed, signal, streamVars, workerVars,
                    transcriber, faults>>
=============================================================================
