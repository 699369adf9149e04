------------------------ MODULE MC_ConditionVariable ------------------------
(* Small instances of ConditionVariable for TLC. *)
EXTENDS ConditionVariable

CONSTANTS w1, w2, n1

MCWaiters == {w1, w2}
MCNotifiers == {w2, n1}
=============================================================================
