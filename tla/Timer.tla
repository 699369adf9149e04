------------------------------- MODULE Timer -------------------------------
(***************************************************************************)
(* cmsis::timer (include/Timer.h, src/Timer.cpp): clients that start, stop *)
(* and destroy timers at any moment, also from a callback, while the timer *)
(* thread of the RTOS handles their expiries one by one.  handler() tests  *)
(* that its timer is running, calls its callback, and stops the timer if   *)
(* that returned false; anything may happen between two of these steps.    *)
(*                                                                         *)
(* The RTOS is RTX5: the tick handler queues an expiry for the timer       *)
(* thread, and a one-shot timer is no longer running from then on.  Where  *)
(* the queue is full it calls osRtxErrorNotify, which hangs the program.   *)
(* A move assignment destroys the timer it replaces.                       *)
(***************************************************************************)
EXTENDS Naturals, Sequences

CONSTANTS
  Timers,       (* the objects of class cmsis_timer                     *)
  Once,         (* those of type once                                   *)
  QueueLength   (* the expiries that the timer thread can lag behind    *)

ASSUME ConstantsAssumption ==
  /\ Once \subseteq Timers
  /\ QueueLength \in Nat \ {0}

VARIABLES
  timer,     (* "none", "stopped", "running" or "destroyed", for each timer *)
  aged,      (* whether ticks have passed since each timer was (re)started  *)
  expiries,  (* the queue of the timer thread                               *)
  at,        (* where the timer thread is                                   *)
  handled,   (* the timer whose expiry it handles                           *)
  program,   (* "running", "terminated", "hung" in an interrupt handler, or *)
             (* "undefined" after a use of a timer that has been destroyed  *)
  stopper,   (* who stopped each timer since it was last started            *)
  late       (* the callbacks begun since each timer was last stopped       *)

vars == <<timer, aged, expiries, at, handled, program, stopper, late>>

Init ==
  /\ timer = [t \in Timers |-> "none"]
  /\ aged = [t \in Timers |-> FALSE]
  /\ expiries = << >>
  /\ at = "idle"
  /\ handled \in Timers
  /\ program = "running"
  /\ stopper = [t \in Timers |-> "nobody"]
  /\ late = [t \in Timers |-> 0]

Alive(t) == timer[t] \in {"stopped", "running"}

(* Calls of clients. *)
Construct(t) ==
  /\ program = "running" /\ timer[t] = "none"
  /\ timer' = [timer EXCEPT ![t] = "stopped"]
  /\ UNCHANGED <<aged, expiries, at, handled, program, stopper, late>>

(* start() also restarts a timer that is running: its ticks begin anew. *)
Start(t) ==
  /\ program = "running" /\ Alive(t)
  /\ timer' = [timer EXCEPT ![t] = "running"]
  /\ aged' = [aged EXCEPT ![t] = FALSE]
  /\ stopper' = [stopper EXCEPT ![t] = "nobody"]
  /\ late' = [late EXCEPT ![t] = 0]
  /\ UNCHANGED <<expiries, at, handled, program>>

(* stop() throws, and changes nothing, if the timer is not running. *)
Stop(t) ==
  /\ program = "running" /\ timer[t] = "running"
  /\ timer' = [timer EXCEPT ![t] = "stopped"]
  /\ stopper' = [stopper EXCEPT ![t] = "client"]
  /\ UNCHANGED <<aged, expiries, at, handled, program, late>>

(* osTimerDelete does not take an expiry back from the queue. *)
Destroy(t) ==
  /\ program = "running" /\ Alive(t)
  /\ timer' = [timer EXCEPT ![t] = "destroyed"]
  /\ UNCHANGED <<aged, expiries, at, handled, program, stopper, late>>

-----------------------------------------------------------------------------
QueueFull == Len(expiries) = QueueLength

(* A mutated form of the action below, for testing the properties: no      *)
(* definition uses it.  The length of the queue is not looked at.          *)
ExpireAlways(t) ==
  /\ program = "running" /\ timer[t] = "running" /\ aged[t]
  /\ expiries' = Append(expiries, t)
  /\ aged' = [aged EXCEPT ![t] = FALSE]
  /\ UNCHANGED <<timer, stopper, at, handled, program, late>>

-----------------------------------------------------------------------------
(* The tick handler of the RTOS.  Ticks pass, all but the last. *)
Elapse(t) ==
  /\ program = "running" /\ timer[t] = "running"
  /\ aged' = [aged EXCEPT ![t] = TRUE]
  /\ UNCHANGED <<timer, expiries, at, handled, program, stopper, late>>

(* The last tick: a periodic timer begins again. *)
Expire(t) ==
  /\ program = "running" /\ timer[t] = "running" /\ aged[t] /\ ~QueueFull
  /\ expiries' = Append(expiries, t)
  /\ aged' = [aged EXCEPT ![t] = FALSE]
  /\ IF t \in Once
     THEN /\ timer' = [timer EXCEPT ![t] = "stopped"]
          /\ stopper' = [stopper EXCEPT ![t] = "expiry"]
     ELSE UNCHANGED <<timer, stopper>>
  /\ UNCHANGED <<at, handled, program, late>>

(* The last tick with a full queue: osRtxErrorNotify is called in the tick *)
(* handler, and never returns.                                             *)
Overflow(t) ==
  /\ program = "running" /\ timer[t] = "running" /\ aged[t] /\ QueueFull
  /\ program' = "hung"
  /\ UNCHANGED <<timer, aged, expiries, at, handled, stopper, late>>

-----------------------------------------------------------------------------
(* A use of a timer that has been destroyed has no defined outcome. *)
Undefined ==
  /\ program' = "undefined"
  /\ UNCHANGED <<timer, aged, expiries, at, handled, stopper, late>>

(* Mutated forms of the actions below, for testing the properties: no      *)
(* definition uses them.                                                   *)

(* handler does not ask whether the timer is running. *)
HandleAll ==
  /\ program = "running" /\ at = "idle" /\ expiries # << >>
  /\ \/ /\ Alive(Head(expiries))
        /\ expiries' = Tail(expiries)
        /\ handled' = Head(expiries)
        /\ at' = "call"
        /\ UNCHANGED <<timer, aged, program, stopper, late>>
     \/ ~Alive(Head(expiries)) /\ Undefined

(* handler returns if the timer is running. *)
HandleStopped ==
  /\ program = "running" /\ at = "idle" /\ expiries # << >>
  /\ \/ /\ Alive(Head(expiries))
        /\ expiries' = Tail(expiries)
        /\ handled' = Head(expiries)
        /\ at' = IF timer[Head(expiries)] = "running" THEN "idle" ELSE "call"
        /\ UNCHANGED <<timer, aged, program, stopper, late>>
     \/ ~Alive(Head(expiries)) /\ Undefined

-----------------------------------------------------------------------------
(* The timer thread: handler() begins, and returns if its timer is not     *)
(* running any more.                                                       *)
Handle ==
  /\ program = "running" /\ at = "idle" /\ expiries # << >>
  /\ \/ /\ Alive(Head(expiries))
        /\ expiries' = Tail(expiries)
        /\ handled' = Head(expiries)
        /\ at' = IF timer[Head(expiries)] = "running" THEN "call" ELSE "idle"
        /\ UNCHANGED <<timer, aged, program, stopper, late>>
     \/ ~Alive(Head(expiries)) /\ Undefined

Call ==
  /\ program = "running" /\ at = "call"
  /\ \/ /\ Alive(handled)
        /\ at' = "callback"
        /\ late' = [late EXCEPT ![handled] = IF stopper[handled] = "nobody" THEN 0 ELSE @ + 1]
        /\ UNCHANGED <<timer, aged, expiries, handled, program, stopper>>
     \/ ~Alive(handled) /\ Undefined

(* The callback returns true or false. *)
CallbackReturns ==
  /\ program = "running" /\ at = "callback"
  /\ \/ /\ Alive(handled) /\ at' \in {"idle", "stop"}
        /\ UNCHANGED <<timer, aged, expiries, handled, program, stopper, late>>
     \/ ~Alive(handled) /\ Undefined

(* Or it lets an exception out, which nothing in the timer thread catches. *)
CallbackThrows ==
  /\ program = "running" /\ at = "callback" /\ Alive(handled)
  /\ program' = "terminated"
  /\ UNCHANGED <<timer, aged, expiries, at, handled, stopper, late>>

(* The stop() of handler throws if the timer has been stopped meanwhile;   *)
(* nothing catches that either.                                            *)
StopAfterFalse ==
  /\ program = "running" /\ at = "stop"
  /\ \/ /\ timer[handled] = "running"
        /\ timer' = [timer EXCEPT ![handled] = "stopped"]
        /\ stopper' = [stopper EXCEPT ![handled] = "handler"]
        /\ at' = "idle"
        /\ UNCHANGED <<aged, expiries, handled, program, late>>
     \/ /\ timer[handled] = "stopped"
        /\ program' = "terminated"
        /\ UNCHANGED <<timer, aged, expiries, at, handled, stopper, late>>
     \/ ~Alive(handled) /\ Undefined

TimerThread == Handle \/ Call \/ CallbackReturns \/ CallbackThrows \/ StopAfterFalse

(* The program has ended, or has no timer to use any more. *)
Stopped ==
  /\ program # "running" \/ \A t \in Timers : timer[t] = "destroyed"
  /\ UNCHANGED vars

Next ==
  \/ \E t \in Timers : Construct(t) \/ Start(t) \/ Stop(t) \/ Destroy(t)
  \/ \E t \in Timers : Elapse(t) \/ Expire(t) \/ Overflow(t)
  \/ TimerThread
  \/ Stopped

Spec == Init /\ [][Next]_vars

(* Callbacks end and the timer thread is scheduled.  Time passes: the last *)
(* tick of a timer comes, unless the timer is stopped or restarted first,  *)
(* and whatever the queue holds by then.                                   *)
Fairness ==
  /\ WF_vars(TimerThread)
  /\ \A t \in Timers : WF_vars(Elapse(t)) /\ WF_vars(Expire(t) \/ Overflow(t))

FairSpec == Spec /\ Fairness

-----------------------------------------------------------------------------
(* The variables keep their types, and the queue its length. *)
TypeOK ==
  /\ timer \in [Timers -> {"none", "stopped", "running", "destroyed"}]
  /\ aged \in [Timers -> BOOLEAN]
  /\ expiries \in Seq(Timers) /\ Len(expiries) <= QueueLength
  /\ at \in {"idle", "call", "callback", "stop"}
  /\ handled \in Timers
  /\ program \in {"running", "terminated", "hung", "undefined"}
  /\ stopper \in [Timers -> {"nobody", "client", "expiry", "handler"}]
  /\ late \in [Timers -> Nat]

(* Timer.h:42 "If callback return false, the timer is stopped": once the   *)
(* handler has stopped it, no callback begins until it is started again,   *)
(* also if more of its expiries were waiting in the queue.                 *)
NoCallbackAfterFalse == \A t \in Timers : stopper[t] = "handler" => late[t] = 0

(* After a stop() has returned one callback may still begin, the one that  *)
(* the handler was about to make, but not a second one, however many       *)
(* expiries were waiting in the queue.                                     *)
OneLateCallback == \A t \in Timers : late[t] <= 1

(* The stop() of the handler throws in the timer thread, and ends the      *)
(* program, only if a client stopped the timer or it expired for good      *)
(* after the handler had found it running.                                 *)
TerminatedByARace ==
  program = "terminated" /\ at = "stop" => stopper[handled] \in {"client", "expiry"}

(* A periodic timer that is running gets its callback called, again and    *)
(* again, however far behind the timer thread is, or it is stopped or      *)
(* destroyed, or the program has ended or hangs; but not a timer that is   *)
(* restarted for ever, each time before its last tick.                     *)
PeriodicIsCalled ==
  \A t \in Timers \ Once :
    \/ timer[t] = "running" ~> \/ at = "callback" /\ handled = t
                               \/ timer[t] # "running"
                               \/ program # "running"
    \/ []<><<Start(t)>>_vars

-----------------------------------------------------------------------------
(* The inductive invariant of the proofs: who stopped a timer is known for *)
(* every timer that does not run but has run, the handler works on a timer *)
(* that has been started, and it is done with one that it has stopped.     *)
HistoryInv ==
  \A t \in Timers :
    /\ timer[t] = "running" => stopper[t] = "nobody"
    /\ stopper[t] = "nobody" => late[t] = 0

HandlerInv ==
  /\ at # "idle" => timer[handled] # "none" /\ stopper[handled] # "handler"
  /\ at # "idle" /\ timer[handled] = "stopped" => stopper[handled] # "nobody"
  /\ at = "call" => late[handled] = 0

IndInv ==
  /\ TypeOK
  /\ HistoryInv
  /\ HandlerInv
  /\ NoCallbackAfterFalse
  /\ OneLateCallback
  /\ TerminatedByARace
=============================================================================
