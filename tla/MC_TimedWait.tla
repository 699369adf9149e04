---------------------------- MODULE MC_TimedWait ----------------------------
(***************************************************************************)
(* A small instance of TimedWait for TLC.  The conversion of durations is  *)
(* checked in the same run, by a walk over its grid while time has not     *)
(* begun.                                                                  *)
(***************************************************************************)
EXTENDS TimedWait, TickGrid

MCDurations == {-1, 0, 1, 3, 4, 5, 6, 7, 10, 11}

ASSUME InstanceFits == DurationsFit /\ CountFits

MCInit == Init /\ GridInit

MCNext ==
  \/ GridInit /\ Next /\ UNCHANGED gridVars
  \/ Init /\ GridNext /\ UNCHANGED vars

MCSpec == MCInit /\ [][MCNext]_<<vars, gridVars>>
=============================================================================
