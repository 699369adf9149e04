------------------------------- MODULE TickGrid -------------------------------
(***************************************************************************)
(* TickConversion over every duration of a small width and every frequency *)
(* of a small second: a walk over the grid of both.                        *)
(***************************************************************************)
EXTENDS TickConversion

VARIABLES
  usec,    (* the duration  *)
  freq     (* the frequency *)

gridVars == <<usec, freq>>

GridInit == usec = -RepHalf /\ freq = 1

NextDuration ==
  /\ usec' = IF usec < RepHalf - 1 THEN usec + 1 ELSE -RepHalf
  /\ UNCHANGED freq

NextFrequency ==
  /\ freq' = IF freq < Den THEN freq + 1 ELSE 1
  /\ UNCHANGED usec

GridNext == NextDuration \/ NextFrequency

GridSpec == GridInit /\ [][GridNext]_gridVars

InGrid == usec \in -RepHalf .. RepHalf - 1 /\ freq \in 1 .. Den

Fits == usec >= 0 /\ usec * freq < RepHalf /\ usec * freq < TickMod * Den

(* Where neither the product nor the ticks overflow, the truncating        *)
(* arithmetic of the code counts the whole ticks of a duration.            *)
ExactWhenItFits ==
  Fits => /\ Convert(usec, freq) * Den <= usec * freq
          /\ usec * freq < (Convert(usec, freq) + 1) * Den

(* condition_variable::wait passes microseconds::max(): with an even       *)
(* frequency below one tick per microsecond its product wraps to less than *)
(* one tick, and the wait polls.                                           *)
UntimedWaitPolls ==
  usec = RepHalf - 1 /\ freq % 2 = 0 /\ freq < Den => Convert(usec, freq) = 0

(* The test for durations that need more than 32 bits means them to wait   *)
(* forever.                                                                *)
LongWaitsForever ==
  usec * freq < RepHalf /\ usec * freq >= TickMod * Den
    => Convert(usec, freq) = WaitForever
=============================================================================
