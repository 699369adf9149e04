------------------------------ MODULE TimedWait ------------------------------
(***************************************************************************)
(* How long a thread is blocked by the timed operations of the library:    *)
(* the waits of Mutex, Semaphore, MessageQueue, EventFlag and ThreadFlag   *)
(* for a duration, this_thread::sleep_for and sleep_until, and the loops   *)
(* of ConditionVariable.h over a deadline and a predicate.                 *)
(*                                                                         *)
(* Time advances by a microsecond a step.  The kernel counts Freq ticks a  *)
(* second in a counter that wraps, and a thread that is blocked for n      *)
(* ticks is ready at the n-th tick after its call.  A thread that is ready *)
(* runs before time goes on: it is as late as the code makes it, not as    *)
(* late as a busy processor might.                                         *)
(***************************************************************************)
EXTENDS TickConversion

CONSTANTS
  Freq,        (* osKernelGetTickFreq()                             *)
  FirstCount,  (* the tick count when the observation starts        *)
  Durations,   (* the durations callers ask for, in microseconds    *)
  MaxNow       (* the length of the observation                     *)

ASSUME TimeAssumption ==
  /\ Freq \in 1 .. Den
  /\ FirstCount \in 0 .. TickMod - 1
  /\ Durations \subseteq Int
  /\ MaxNow \in Nat

VARIABLES
  now,      (* microseconds since the observation started                *)
  count,    (* osKernelGetTickCount()                                    *)
  call,     (* the operation under way and what its caller asked for     *)
  left,     (* the ticks the thread is still blocked for                 *)
  last      (* how the last operation ended                              *)

vars == <<now, count, call, left, last>>

NoCall == [op |-> "none", requested |-> 0, started |-> 0, deadline |-> 0]

Init ==
  /\ now = 0
  /\ count = FirstCount
  /\ call = NoCall
  /\ left = 0
  /\ last = [outcome |-> "none", requested |-> 0, elapsed |-> 0]

(* system_clock::now() *)
Clock == ToUsec(count, Freq)

Call(op, d) == [op |-> op, requested |-> d, started |-> now, deadline |-> Clock + d]

(* The end of call c, which may be the step that began it. *)
End(c, outcome) ==
  /\ call' = NoCall
  /\ left' = 0
  /\ last' = [outcome |-> outcome, requested |-> c.requested, elapsed |-> now - c.started]

(* Call c is blocked in the kernel for the ticks of a duration. *)
Block(c, rest) ==
  /\ call' = c
  /\ left' = Convert(rest, Freq)
  /\ UNCHANGED last

-----------------------------------------------------------------------------
(* try_lock_for, try_acquire_for, put, get and wait for a duration: a      *)
(* negative one is refused.                                                *)
WaitFor(d) ==
  /\ call.op = "none"
  /\ LET c == Call("waitFor", d) IN
     \/ d < 0 /\ End(c, "exception")
     \/ d >= 0 /\ Block(c, d)
  /\ UNCHANGED <<now, count>>

(* try_lock_until and the others: a deadline that is past is a timeout.    *)
WaitUntil(d) ==
  /\ call.op = "none"
  /\ LET c == Call("waitUntil", d) IN
     \/ d < 0 /\ End(c, "timeout")
     \/ d >= 0 /\ Block(c, d)
  /\ UNCHANGED <<now, count>>

(* A sleep of no time returns at once.  osDelay may refuse 0 ticks, which  *)
(* is what less than a tick converts to.                                   *)
SleepFor(d) ==
  /\ call.op = "none"
  /\ LET c == Call("sleepFor", d) IN
     \/ d <= 0 /\ End(c, "timeout")
     \/ d > 0 /\ Block(c, d)
     \/ d > 0 /\ Convert(d, Freq) = 0 /\ End(c, "exception")
  /\ UNCHANGED <<now, count>>

(* With a clock that says it is steady, as the two of this library do,     *)
(* sleep_until sleeps once, for the difference; with std's system_clock,   *)
(* which counts the same ticks, it sleeps until its deadline is past.      *)
SleepUntil(d) ==
  /\ call.op = "none"
  /\ \E op \in {"sleepUntil", "sleepLoop"} :
       LET c == Call(op, d) IN
       \/ d <= 0 /\ End(c, "timeout")
       \/ d > 0 /\ Block(c, d)
       \/ d > 0 /\ Convert(d, Freq) = 0 /\ End(c, "exception")
  /\ UNCHANGED <<now, count>>

(* condition_variable::wait_for with a predicate that is false: the        *)
(* deadline is fixed first.                                                *)
PredicateWait(d) ==
  /\ call.op = "none"
  /\ LET c == Call("predicate", d) IN
     \/ d < 0 /\ End(c, "timeout")
     \/ d >= 0 /\ Block(c, d)
  /\ UNCHANGED <<now, count>>

-----------------------------------------------------------------------------
(* Mutated: a wakeup starts the whole duration anew. *)
SignalAnew ==
  /\ call.op = "predicate"
  /\ \/ End(call, "success")
     \/ Block(call, call.requested)
  /\ UNCHANGED <<now, count>>

(* What was waited for arrives.  A wait with a predicate returns if the    *)
(* predicate holds, and else waits for what is left until its deadline.    *)
Signal ==
  /\ call.op \in {"waitFor", "waitUntil", "predicate"}
  /\ \/ End(call, "success")
     \/ /\ call.op = "predicate"
        /\ \/ call.deadline < Clock /\ End(call, "timeout")
           \/ call.deadline >= Clock /\ Block(call, call.deadline - Clock)
  /\ UNCHANGED <<now, count>>

(* A deadline that the loop of sleep_until still has before it. *)
Unfinished == call.op = "sleepLoop" /\ Clock < call.deadline

(* The ticks are over, and nothing but that loop looks at the clock again. *)
Expire ==
  /\ call.op # "none" /\ ~Unfinished
  /\ left = 0
  /\ End(call, "timeout")
  /\ UNCHANGED <<now, count>>

(* What is left may be less than a tick: the loop is then a busy one,      *)
(* unless osDelay refuses it.                                              *)
SleepAgain ==
  /\ Unfinished
  /\ left = 0
  /\ LET rest == call.deadline - Clock IN
     \/ Block(call, rest)
     \/ Convert(rest, Freq) = 0 /\ End(call, "exception")
  /\ UNCHANGED <<now, count>>

(* Mutated: a tick counts down threads that are not blocked. *)
AdvanceAll ==
  /\ call.op = "none" \/ left > 0
  /\ now < MaxNow
  /\ now' = now + 1
  /\ IF (now' * Freq) \div Den > (now * Freq) \div Den
     THEN /\ count' = (count + 1) % TickMod
          /\ left' = IF left = WaitForever THEN left ELSE left - 1
     ELSE UNCHANGED <<count, left>>
  /\ UNCHANGED <<call, last>>

(* A microsecond goes by, and with some of them a tick. *)
Advance ==
  /\ call.op = "none" \/ left > 0 \/ (Unfinished /\ Convert(call.deadline - Clock, Freq) = 0)
  /\ now < MaxNow
  /\ now' = now + 1
  /\ IF (now' * Freq) \div Den > (now * Freq) \div Den
     THEN /\ count' = (count + 1) % TickMod
          /\ left' = IF left \in {0, WaitForever} THEN left ELSE left - 1
     ELSE UNCHANGED <<count, left>>
  /\ UNCHANGED <<call, last>>

(* The end of the observation. *)
Horizon ==
  /\ now = MaxNow
  /\ UNCHANGED vars

Next ==
  \/ \E d \in Durations :
       \/ WaitFor(d) \/ WaitUntil(d)
       \/ SleepFor(d) \/ SleepUntil(d)
       \/ PredicateWait(d)
  \/ Signal \/ Expire \/ SleepAgain \/ Advance \/ Horizon

Spec == Init /\ [][Next]_vars

-----------------------------------------------------------------------------
(* Clocks, calls and the kernel's tick counts keep their types. *)
TypeOK ==
  /\ now \in 0 .. MaxNow
  /\ count \in 0 .. TickMod - 1
  /\ call \in [op : {"none", "waitFor", "waitUntil", "sleepFor", "sleepUntil", "sleepLoop",
                     "predicate"},
               requested : Int, started : 0 .. MaxNow, deadline : Int]
  /\ left \in 0 .. WaitForever
  /\ last \in [outcome : {"none", "success", "timeout", "exception"},
               requested : Int, elapsed : 0 .. MaxNow]

(* The ticks of the first t microseconds. *)
TicksAt(t) == (t * Freq) \div Den

(* What the bounds below need: durations that the conversion does not cut, *)
(* and a tick count that does not wrap while it is observed.               *)
DurationsFit ==
  \A d \in Durations : d * Freq < RepHalf /\ d * Freq < TickMod * Den

CountFits == FirstCount + TicksAt(MaxNow) < TickMod

TimedOut == last.outcome = "timeout"

(* The standard promises that a timed operation does not give up before    *)
(* the time is over.  What the code keeps of it for durations that fit:    *)
(* the conversion rounds down, the first tick may be about to come, and    *)
(* the clock that a loop reads again drops the fraction of a microsecond,  *)
(* so an operation gives up less than two ticks and a microsecond too      *)
(* early, with or without wakeups in between.                              *)
EarlyByTwoTicks ==
  TimedOut => (last.requested - last.elapsed) * Freq < 2 * Den + Freq

(* No operation stays blocked past what was asked for by a tick and a      *)
(* microsecond: the loop over a deadline does not start its time anew at   *)
(* each wakeup.                                                            *)
DeadlineIsMet ==
  call.op # "none" /\ left < WaitForever =>
    (now - call.started - call.requested) * Freq < Den + Freq
=============================================================================
