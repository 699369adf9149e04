--------------------------- MODULE TickConversion ---------------------------
(***************************************************************************)
(* The expression every timed operation of the library uses to turn its    *)
(* duration into a number of kernel ticks: a product of 64-bit signed      *)
(* integers, a division that truncates, a cast to 32 bits, and a test for  *)
(* values that do not fit, made after the cast.  The widths are parameters *)
(* so that TLC can enumerate a whole range of them; the proofs are for any *)
(* width.                                                                  *)
(***************************************************************************)
EXTENDS Integers

CONSTANTS
  RepHalf,    (* durations are in -RepHalf .. RepHalf - 1: 2^63            *)
  TickMod,    (* tick counts are in 0 .. TickMod - 1: 2^32                 *)
  Den         (* microseconds in a second, microseconds::period::den: 10^6 *)

ASSUME WidthAssumption ==
  /\ RepHalf \in Nat \ {0}
  /\ TickMod \in Nat \ {0}
  /\ Den \in 1 .. RepHalf

(* osWaitForever, which is also the largest number of ticks. *)
WaitForever == TickMod - 1

(* Mutated: a product that does not fit saturates. *)
Saturate(x) == IF x >= RepHalf THEN RepHalf - 1 ELSE IF x < -RepHalf THEN -RepHalf ELSE x

(* A product that does not fit is undefined; every build wraps it. *)
Wrap(x) == ((x + RepHalf) % (2 * RepHalf)) - RepHalf

(* Division truncates toward zero. *)
TruncDiv(x) == IF x >= 0 THEN x \div Den ELSE -((-x) \div Den)

Cast(x) == x % TickMod

Clamp(ticks) == IF ticks > TickMod - 1 THEN WaitForever ELSE ticks

(* Mutated: a duration is rounded down one tick too far. *)
ConvertOneLess(usec, freq) ==
  LET t == Cast(TruncDiv(Wrap(usec * freq))) IN IF t > 0 THEN t - 1 ELSE 0

(* What usec microseconds are at freq ticks per second. *)
Convert(usec, freq) == Clamp(Cast(TruncDiv(Wrap(usec * freq))))

(* system_clock::now: the time that a count of ticks stands for. *)
ToUsec(count, freq) == (count * Den) \div freq
=============================================================================
