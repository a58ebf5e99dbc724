------------------------------- MODULE MCBot -------------------------------
(***************************************************************************)
(* TelegramBot for TLC.                                                    *)
(***************************************************************************)
EXTENDS TelegramBot, TLC

CONSTANTS u1, u2, s1

SameOwner == [s \in Sessions |-> u1]
Interchangeable == Permutations(Slots)
=============================================================================
