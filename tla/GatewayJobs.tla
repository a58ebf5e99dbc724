---------------------------- MODULE GatewayJobs ----------------------------
(***************************************************************************)
(* What APScheduler runs in the gateway, and the gateway's own restart:    *)
(* scheduler.py (join jobs of scheduled sessions), retention_sweeper.py,   *)
(* audio_cleanup_followup.py and the lifespan of app.py.                   *)
(*                                                                         *)
(* Time is abstract: a join job may fire as soon as it is armed, a session *)
(* may be overdue as soon as it is pending, a retained file may expire as  *)
(* soon as its expiry is stored.  The followup's reminder sends a keyboard *)
(* that the session has been offered already, and changes nothing else.    *)
(***************************************************************************)
EXTENDS EventListener

(* Mutant: the job does not look at the status of its session. *)
JoinableAlways(s) == s \in Sessions

Joinable(s) == status[s] = "scheduled"

(* Mutant: the job repeats, for as long as its session has not ended. *)
FireJoinAgain(s) ==
  /\ s \in armed /\ At(s, "idle") /\ Active(s)
  /\ Goto(s, Frame("commit", "start_join", s))
  /\ UNCHANGED <<rowVars, fileVars, overdue, armed, signal, streamVars, workerVars,
                 transcriber, offered, faults>>

(* _fire_join up to its commit; the scheduler drops a date job as it fires,
   and also without a call when it is late by more than a second. *)
FireJoin(s) ==
  /\ s \in armed /\ At(s, "idle")
  /\ armed' = armed \ {s}
  /\ \/ frame' = [frame EXCEPT ![s] = IF Joinable(s)
                                        THEN Frame("commit", "start_join", s) ELSE @]
     \/ ~Punctual /\ UNCHANGED frame
  /\ UNCHANGED <<rowVars, fileVars, overdue, signal, streamVars, workerVars,
                 transcriber, offered, faults>>

(* Mutant: only files somebody wanted to keep are followed up. *)
PendingKept(s) == status[s] = "pending_audio_disposal" /\ ~deletedAt[s] /\ expires[s]

Pending(s) == status[s] = "pending_audio_disposal" /\ ~deletedAt[s]

(* process_pending_audio_cleanup: one SELECT; those of its rows that are old
   enough are resolved one after the other, without being read again (except
   by retain's refresh).  The age of a row whose updated_at has no time zone
   cannot be computed: the job raises at the first one. *)
FollowupSelect ==
  /\ AwareTimestamps
  /\ At(Followup, "idle")
  /\ \E old \in (SUBSET {s \in Sessions : Pending(s)}) \ {{}} : overdue' = old
  /\ Goto(Followup, LoopFrame)
  /\ UNCHANGED <<rowVars, fileVars, armed, signal, streamVars, workerVars,
                 transcriber, offered, faults>>

FollowupResolve(s) ==
  /\ At(Followup, "loop") /\ s \in overdue
  /\ overdue' = overdue \ {s}
  /\ IF AutoAction = "delete"
       THEN /\ Unlink(s)
            /\ Goto(Followup, Frame("commit", "delete_audio", s))
       ELSE /\ Goto(Followup, Frame("expire", "retain_audio", s))
            /\ UNCHANGED audio
  /\ UNCHANGED <<rowVars, transcript, armed, signal, streamVars, workerVars,
                 transcriber, offered, faults>>

(* A stored expiry that can lie in the past.  It was set audio_retention_days
   ago: if that is longer than a session takes, the session has ended. *)
Expirable(s) ==
  /\ expires[s] /\ ~deletedAt[s]
  /\ RetentionOutlasts => status[s] \in Terminal

(* sweep_expired_audio, which does not look at the status: nothing awaits
   between the result of its SELECT and the commit.  The files go first; the
   commit may fail, or the process die before it (a restart may follow). *)
Sweep ==
  \E old \in (SUBSET {s \in Sessions : Expirable(s)}) \ {{}} :
    /\ audio' = [s \in Sessions |-> IF s \in old /\ audio[s] = "present"
                                      THEN "deleted" ELSE audio[s]]
    /\ \/ /\ deletedAt' = [s \in Sessions |-> deletedAt[s] \/ s \in old]
          /\ UNCHANGED faults
       \/ /\ faults < MaxFaults /\ faults' = faults + 1
          /\ UNCHANGED deletedAt
    /\ UNCHANGED <<status, expires, transcript, gatewayVars, streamVars, workerVars,
                   transcriber, offered>>

-----------------------------------------------------------------------------
(* The wav file of a capture the worker was told to stop is written by the
   worker just before it answers: a worker killed there may have written it. *)
Written(S) == {w \in SUBSET S : \A s \in w : worker[s] = "stopping"}

(* Mutant: the jobs are not restored. *)
RestoredNone == {}

(* restore_pending arms every scheduled session again. *)
Restored == {s \in Sessions : status[s] = "scheduled"}

(* The gateway restarts.  Its coroutines, Events and jobs go, and so does its
   process table.  Some of the meeting_worker processes it started may be
   spared: all end with a container, but nothing in lifespan ends them.  Those
   spared go on, and no later stop_process reaches them: they end when they are
   told to leave.  Of the events it had read in a batch (at most 10) none is
   delivered again: the stream is read with ">" only. *)
GatewayRestart ==
  /\ faults < MaxFaults
  /\ faults' = faults + 1
  /\ frame' = [p \in Procs |-> IdleFrame]
  /\ overdue' = {}
  /\ signal' = [s \in Sessions |-> {}]
  /\ armed' = Restored
  /\ \E n \in 0..10 : /\ n <= Len(events)
                      /\ events' = SubSeq(events, n + 1, Len(events))
  /\ \E spared \in SUBSET Sessions :
       /\ \E w \in Written(Sessions \ spared) :
            audio' = [s \in Sessions |-> IF s \in w THEN "present" ELSE audio[s]]
       /\ worker' = [s \in Sessions |-> IF s \notin spared /\ worker[s] \in Alive
                                          THEN "exited" ELSE worker[s]]
       /\ watch' = [s \in Sessions |-> IF s \in spared THEN watch[s] ELSE {}]
  /\ UNCHANGED <<rowVars, transcript, commands, jobs, transcriber, offered>>
=============================================================================
