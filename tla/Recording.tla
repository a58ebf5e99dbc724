----------------------------- MODULE Recording -----------------------------
(***************************************************************************)
(* What the recorder promises of each session, whatever overlaps, is late  *)
(* or dies: one visit to the call, audio that is written during that       *)
(* visit, a transcript made from it.                                       *)
(***************************************************************************)
CONSTANT Sessions

VARIABLES
  bot,         \* "away", "coming", "in" the call, "gone"
  audio,       \* "none", "present", "deleted"
  transcript   \* BOOLEAN

Init ==
  /\ bot = [s \in Sessions |-> "away"]
  /\ audio = [s \in Sessions |-> "none"]
  /\ transcript = [s \in Sessions |-> FALSE]

SameBot(s) == bot'[s] = bot[s]
SameFiles(s) == audio'[s] = audio[s] /\ transcript'[s] = transcript[s]

Come(s) == bot[s] = "away" /\ bot'[s] = "coming" /\ SameFiles(s)
Enter(s) == bot[s] = "coming" /\ bot'[s] = "in" /\ SameFiles(s)

(* The file is complete as soon as it is there; a capture may be written
   again, and the bot may be killed just after it has written one. *)
Save(s) ==
  /\ bot[s] = "in" /\ bot'[s] \in {"in", "gone"}
  /\ audio'[s] = "present" /\ transcript'[s] = transcript[s]

(* The bot leaves, gives up joining, or dies. *)
Go(s) == bot[s] \in {"coming", "in"} /\ bot'[s] = "gone" /\ SameFiles(s)

Discard(s) ==
  /\ audio[s] = "present" /\ audio'[s] = "deleted"
  /\ SameBot(s) /\ transcript'[s] = transcript[s]

Transcribe(s) ==
  /\ audio[s] # "none" /\ transcript'[s]
  /\ SameBot(s) /\ audio'[s] = audio[s]

Step(s) == Come(s) \/ Enter(s) \/ Save(s) \/ Go(s) \/ Discard(s) \/ Transcribe(s)

(* A restart, or one sweep, takes a step in several sessions at once. *)
Next == \A s \in Sessions : Step(s) \/ (SameBot(s) /\ SameFiles(s))

Spec == Init /\ [][Next]_<<bot, audio, transcript>>
=============================================================================
