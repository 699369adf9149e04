----------------------------- MODULE TimerProofs -----------------------------
(***************************************************************************)
(* For any number of timers of either type and any length of the expiry    *)
(* queue: a timer that has been stopped begins at most one more callback,  *)
(* none if its own callback stopped it, and the timer thread ends the      *)
(* program only in a race.                                                 *)
(***************************************************************************)
EXTENDS Timer, SequenceTheorems, TLAPS

LEMMA InitInv == Init => IndInv
<1> SUFFICES ASSUME Init PROVE IndInv
  OBVIOUS
<1>1. << >> \in Seq(Timers) /\ Len(<< >>) = 0
  OBVIOUS
<1>2. TypeOK
  BY <1>1, ConstantsAssumption DEF Init, TypeOK
<1> QED
  BY <1>2 DEF Init, IndInv, HistoryInv, HandlerInv, NoCallbackAfterFalse,
              OneLateCallback, TerminatedByARace

(* The queue of the timer thread holds timers and keeps its bound. *)
LEMMA QueueType ==
  ASSUME TypeOK
  PROVE  /\ \A t \in Timers : ~QueueFull =>
              Append(expiries, t) \in Seq(Timers) /\ Len(Append(expiries, t)) <= QueueLength
         /\ expiries # << >> =>
              /\ Head(expiries) \in Timers
              /\ Tail(expiries) \in Seq(Timers) /\ Len(Tail(expiries)) <= QueueLength
<1>1. expiries \in Seq(Timers) /\ Len(expiries) \in Nat /\ Len(expiries) <= QueueLength
  BY LenProperties DEF TypeOK
<1>2. ASSUME NEW t \in Timers, ~QueueFull
      PROVE  Append(expiries, t) \in Seq(Timers) /\ Len(Append(expiries, t)) <= QueueLength
  <2>1. Append(expiries, t) \in Seq(Timers) /\ Len(Append(expiries, t)) = Len(expiries) + 1
    BY <1>1, AppendProperties
  <2> QED BY <1>1, <1>2, <2>1, ConstantsAssumption DEF QueueFull
<1>3. ASSUME expiries # << >>
      PROVE  /\ Head(expiries) \in Timers
             /\ Tail(expiries) \in Seq(Timers) /\ Len(Tail(expiries)) <= QueueLength
  <2>1. /\ Head(expiries) \in Timers
        /\ Tail(expiries) \in Seq(Timers) /\ Len(Tail(expiries)) = Len(expiries) - 1
    BY <1>1, <1>3, HeadTailProperties
  <2> QED BY <1>1, <2>1, ConstantsAssumption
<1> QED BY <1>2, <1>3

(* A step that finds a destroyed timer leaves everything but program. *)
LEMMA UndefinedInv ==
  ASSUME IndInv, Undefined
  PROVE  IndInv'
BY DEF IndInv, Undefined, TypeOK, HistoryInv, HandlerInv, NoCallbackAfterFalse,
       OneLateCallback, TerminatedByARace

(* Calls of clients, at any moment, from any thread. *)
LEMMA ClientInv ==
  ASSUME IndInv, NEW t \in Timers, Construct(t) \/ Start(t) \/ Stop(t) \/ Destroy(t)
  PROVE  IndInv'
<1> USE DEF IndInv, TypeOK, HistoryInv, HandlerInv, NoCallbackAfterFalse,
            OneLateCallback, TerminatedByARace
<1>1. CASE Construct(t)
  BY <1>1 DEF Construct
<1>2. CASE Start(t)
  BY <1>2 DEF Start, Alive
<1>3. CASE Stop(t)
  BY <1>3 DEF Stop
<1>4. CASE Destroy(t)
  BY <1>4 DEF Destroy, Alive
<1> QED BY <1>1, <1>2, <1>3, <1>4

(* The tick handler. *)
LEMMA ElapseInv ==
  ASSUME IndInv, NEW t \in Timers, Elapse(t)
  PROVE  IndInv'
BY DEF Elapse, IndInv, TypeOK, HistoryInv, HandlerInv, NoCallbackAfterFalse,
       OneLateCallback, TerminatedByARace

LEMMA ExpireInv ==
  ASSUME IndInv, NEW t \in Timers, Expire(t)
  PROVE  IndInv'
<1>1. expiries' \in Seq(Timers) /\ Len(expiries') <= QueueLength
  BY QueueType DEF Expire, IndInv
<1> QED
  BY <1>1 DEF Expire, IndInv, TypeOK, HistoryInv, HandlerInv, NoCallbackAfterFalse,
              OneLateCallback, TerminatedByARace

LEMMA OverflowInv ==
  ASSUME IndInv, NEW t \in Timers, Overflow(t)
  PROVE  IndInv'
BY DEF Overflow, IndInv, TypeOK, HistoryInv, HandlerInv, NoCallbackAfterFalse,
       OneLateCallback, TerminatedByARace

(* The steps of the timer thread. *)
LEMMA TimerThreadInv ==
  ASSUME IndInv, TimerThread
  PROVE  IndInv'
<1>1. CASE Undefined
  BY <1>1, UndefinedInv
<1>2. CASE Handle /\ ~Undefined
  <2>1. /\ Head(expiries) \in Timers
        /\ expiries' \in Seq(Timers) /\ Len(expiries') <= QueueLength
    BY <1>2, QueueType DEF Handle, IndInv
  <2> QED
    BY <1>2, <2>1 DEF Handle, Alive, IndInv, TypeOK, HistoryInv, HandlerInv,
                      NoCallbackAfterFalse, OneLateCallback, TerminatedByARace
<1>3. CASE Call /\ ~Undefined
  <2>1. handled \in Timers /\ at = "call" /\ at' = "callback" /\ program = "running"
        /\ UNCHANGED <<timer, aged, expiries, handled, program, stopper>>
    BY <1>3 DEF Call, IndInv, TypeOK
  <2>2. /\ late \in [Timers -> Nat] /\ late' \in [Timers -> Nat]
        /\ \A t \in Timers \ {handled} : late'[t] = late[t]
        /\ late'[handled] = IF stopper[handled] = "nobody" THEN 0 ELSE 1
    <3>1. late \in [Timers -> Nat] /\ late[handled] = 0
      BY <2>1 DEF IndInv, TypeOK, HandlerInv
    <3>2. late' = [late EXCEPT ![handled] = IF stopper[handled] = "nobody" THEN 0 ELSE @ + 1]
      BY <1>3 DEF Call
    <3> QED BY <2>1, <3>1, <3>2
  <2>3. TypeOK'
    <3>1. aged' \in [Timers -> BOOLEAN]
      BY <2>1 DEF IndInv, TypeOK
    <3>2. /\ timer' \in [Timers -> {"none", "stopped", "running", "destroyed"}]
          /\ expiries' \in Seq(Timers) /\ Len(expiries') <= QueueLength
          /\ at' \in {"idle", "call", "callback", "stop"}
          /\ handled' \in Timers
          /\ program' \in {"running", "terminated", "hung", "undefined"}
          /\ stopper' \in [Timers -> {"nobody", "client", "expiry", "handler"}]
      BY <2>1 DEF IndInv, TypeOK
    <3> QED BY <2>2, <3>1, <3>2 DEF TypeOK
  <2>4. HandlerInv' /\ TerminatedByARace'
    BY <2>1, <2>2 DEF IndInv, HandlerInv, TerminatedByARace
  <2>5. HistoryInv' /\ NoCallbackAfterFalse' /\ OneLateCallback'
    <3>1. ASSUME NEW t \in Timers
          PROVE  /\ timer'[t] = "running" => stopper'[t] = "nobody"
                 /\ stopper'[t] = "nobody" => late'[t] = 0
                 /\ stopper'[t] = "handler" => late'[t] = 0
                 /\ late'[t] <= 1
      <4>1. CASE t = handled
        BY <2>1, <2>2, <4>1 DEF IndInv, HistoryInv, HandlerInv
      <4>2. CASE t # handled
        BY <2>1, <2>2, <4>2 DEF IndInv, HistoryInv, NoCallbackAfterFalse, OneLateCallback
      <4> QED BY <4>1, <4>2
    <3> QED BY <3>1 DEF HistoryInv, NoCallbackAfterFalse, OneLateCallback
  <2> QED BY <2>3, <2>4, <2>5 DEF IndInv
<1>4. CASE CallbackReturns /\ ~Undefined
  BY <1>4 DEF CallbackReturns, Alive, IndInv, TypeOK, HistoryInv, HandlerInv,
              NoCallbackAfterFalse, OneLateCallback, TerminatedByARace
<1>5. CASE StopAfterFalse /\ ~Undefined
  BY <1>5 DEF StopAfterFalse, Alive, IndInv, TypeOK, HistoryInv, HandlerInv,
              NoCallbackAfterFalse, OneLateCallback, TerminatedByARace
<1>6. CASE CallbackThrows
  BY <1>6 DEF CallbackThrows, IndInv, TypeOK, HistoryInv, HandlerInv,
              NoCallbackAfterFalse, OneLateCallback, TerminatedByARace
<1> QED BY <1>1, <1>2, <1>3, <1>4, <1>5, <1>6 DEF TimerThread

LEMMA NextInv == IndInv /\ [Next]_vars => IndInv'
<1> SUFFICES ASSUME IndInv, [Next]_vars PROVE IndInv'
  OBVIOUS
<1>1. CASE \E t \in Timers : Construct(t) \/ Start(t) \/ Stop(t) \/ Destroy(t)
  BY <1>1, ClientInv
<1>2. CASE \E t \in Timers : Elapse(t) \/ Expire(t) \/ Overflow(t)
  BY <1>2, ElapseInv, ExpireInv, OverflowInv
<1>3. CASE TimerThread
  BY <1>3, TimerThreadInv
<1>4. CASE UNCHANGED vars
  BY <1>4 DEF vars, IndInv, TypeOK, HistoryInv, HandlerInv, NoCallbackAfterFalse,
              OneLateCallback, TerminatedByARace
<1> QED BY <1>1, <1>2, <1>3, <1>4 DEF Next, Stopped

(* The inductive invariant holds in every reachable state. *)
THEOREM Inductive == Spec => []IndInv
BY InitInv, NextInv, PTL DEF Spec

(* The queue of expiries keeps its bound, and every variable its type. *)
THEOREM TypeCorrect == Spec => []TypeOK
<1>1. IndInv => TypeOK
  BY DEF IndInv
<1> QED BY <1>1, Inductive, PTL

(* Timer.h:42: a timer whose callback returned false stays silent until it *)
(* is started again, whatever its queued expiries.                         *)
THEOREM FalseStopsTheTimer == Spec => []NoCallbackAfterFalse
<1>1. IndInv => NoCallbackAfterFalse
  BY DEF IndInv
<1> QED BY <1>1, Inductive, PTL

(* At most one callback begins after a stop() has returned. *)
THEOREM StopIsAlmostImmediate == Spec => []OneLateCallback
<1>1. IndInv => OneLateCallback
  BY DEF IndInv
<1> QED BY <1>1, Inductive, PTL

(* The stop() of the handler throws only after a stop() or an expiry since *)
(* the handler looked.                                                     *)
THEOREM TerminationNeedsARace == Spec => []TerminatedByARace
<1>1. IndInv => TerminatedByARace
  BY DEF IndInv
<1> QED BY <1>1, Inductive, PTL
=============================================================================
