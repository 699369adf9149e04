----------------------------- MODULE StdSemaphore -----------------------------
(***************************************************************************)
(* What a counting semaphore promises: release adds its whole count at     *)
(* once, and each acquire takes one.  A caller that releases more than the *)
(* maximum allows, or a negative count, is promised nothing from then on.  *)
(***************************************************************************)
EXTENDS Integers

CONSTANTS
  Max,       (* counting_semaphore::max()         *)
  Updates    (* the counts that callers release   *)

VARIABLES
  made,      (* there is a semaphore              *)
  counter,   (* the counter                       *)
  defined    (* callers have kept to the rules    *)

vars == <<made, counter, defined>>

Init == made = FALSE /\ counter = 0 /\ defined = TRUE

Construct == ~made /\ made' /\ counter' \in 0 .. Max /\ UNCHANGED defined

Destroy == made /\ ~made' /\ counter' = 0 /\ UNCHANGED defined

Release ==
  /\ made
  /\ \E n \in Updates :
       IF n >= 0 /\ counter + n <= Max THEN counter' = counter + n /\ UNCHANGED defined
                                       ELSE ~defined'
  /\ UNCHANGED made

Acquire == made /\ counter > 0 /\ counter' = counter - 1 /\ UNCHANGED <<made, defined>>

Next == IF defined THEN Construct \/ Destroy \/ Release \/ Acquire ELSE ~defined'

Spec == Init /\ [][Next]_vars
=============================================================================
