--------------------------------- MODULE Mutex ---------------------------------
(***************************************************************************)
(* The four mutex classes (include/Mutex.h, src/Mutex.cpp): what they make *)
(* of the results of osMutexAcquire, with several threads, timeouts, and a *)
(* kernel that may be locked.  A call is two steps: what the RTOS does and *)
(* what the class makes of it; any thread may run in between.              *)
(***************************************************************************)
EXTENDS Kernel

CONSTANT MaxCount  (* osRtxMutexLockLimit, 255: how often a mutex can be locked *)

ASSUME MutexAssumption == MaxCount \in Nat \ {0}

VARIABLES
  class,     (* the class of the mutex, or "none" while there is no mutex *)
  owner,     (* the thread the RTOS gave it to                            *)
  count,     (* how often                                                 *)
  asked,     (* the operation each thread is in, and its ticks            *)
  status,    (* what osMutexAcquire returned to it, or "pending"          *)
  belief     (* how often each thread was told that it locked the mutex   *)

mutexVars == <<class, owner, count, asked, status, belief>>

Classes == {"mutex", "recursive_mutex", "timed_mutex", "recursive_timed_mutex"}

(* The argument each class gives to the constructor of its base, and what  *)
(* it passes on of the base's operations.                                  *)
Recursive == class \in {"recursive_mutex", "recursive_timed_mutex"}
Timed == class \in {"timed_mutex", "recursive_timed_mutex"}

NotAsked == [op |-> "none", ticks |-> 0]

MutexInit ==
  /\ class = "none"
  /\ owner = NoThread
  /\ count = 0
  /\ asked = [t \in Threads |-> NotAsked]
  /\ status = [t \in Threads |-> "none"]
  /\ belief = [t \in Threads |-> 0]

-----------------------------------------------------------------------------
(* osMutexAcquire: it gives the mutex away, waits, or says why not.        *)
MutexAcquire(t, ticks) ==
  \/ /\ owner = NoThread \/ (owner = t /\ Recursive /\ count < MaxCount)
     /\ owner' = t
     /\ count' = count + 1
     /\ status' = [status EXCEPT ![t] = "osOK"]
  \/ /\ owner # NoThread
     /\ owner = t => ~Recursive \/ count = MaxCount
     /\ status' = [status EXCEPT ![t] =
                     IF ticks = 0 \/ (owner = t /\ Recursive) THEN "osErrorResource"
                     ELSE IF CanBlock THEN "pending" ELSE "osErrorTimeout"]
     /\ UNCHANGED <<owner, count>>

AskMutex(t, op, ticks) ==
  /\ Ready(t) /\ class # "none"
  /\ IF ticks = Negative
     THEN status' = [status EXCEPT ![t] = "osErrorParameter"] /\ UNCHANGED <<owner, count>>
     ELSE MutexAcquire(t, ticks)
  /\ asked' = [asked EXCEPT ![t] = [op |-> op, ticks |-> ticks]]
  /\ busy' = busy \cup {t}
  /\ UNCHANGED <<class, belief, program>>

(* base_timed_mutex::lock, which the owner of a mutex that is not          *)
(* recursive must not call, try_lock, and try_lock_for with any duration.  *)
MutexLock(t) == (owner = t => Recursive) /\ AskMutex(t, "lock", 2)
TryLock(t) == AskMutex(t, "try_lock", 0)
TryLockFor(t) == Timed /\ \E ticks \in {Negative, 0, 1} : AskMutex(t, "try_lock_for", ticks)

(* The ticks of a call are over; osWaitForever are 2. *)
MutexTimeout(t) ==
  /\ status[t] = "pending" /\ asked[t].ticks < 2
  /\ status' = [status EXCEPT ![t] = "osErrorTimeout"]
  /\ UNCHANGED <<class, owner, count, asked, belief, busy, program>>

(* What each operation makes of a status. *)
LockResult(s) == IF s = "osOK" THEN "true" ELSE "exception"

TryLockResult(s) ==
  IF s \notin {"osOK", "osErrorTimeout"} THEN "exception"
  ELSE IF s # "osErrorTimeout" THEN "true" ELSE "false"

(* Mutated: the errors of a poll all mean false, those of a wait all true. *)
TryLockForSwaps(ticks, s) == IF s = "osOK" \/ ticks > 0 THEN "true" ELSE "false"

TryLockForResult(ticks, s) ==
  IF ticks = 0 /\ s = "osErrorResource" THEN "false" ELSE TryLockResult(s)

MutexResult(a, s) ==
  CASE a.op = "lock" -> LockResult(s)
    [] a.op = "try_lock" -> TryLockResult(s)
    [] a.op = "try_lock_for" -> TryLockForResult(a.ticks, s)

MutexReturns(t) ==
  /\ Runs(t) /\ status[t] \notin {"none", "pending"}
  /\ belief' = [belief EXCEPT ![t] =
                   IF MutexResult(asked[t], status[t]) = "true" THEN @ + 1 ELSE @]
  /\ asked' = [asked EXCEPT ![t] = NotAsked]
  /\ status' = [status EXCEPT ![t] = "none"]
  /\ busy' = busy \ {t}
  /\ UNCHANGED <<class, owner, count, program>>

(* osMutexRelease: the last release passes the mutex on to a thread that   *)
(* waits for it.                                                           *)
Waiting == {t \in Threads : status[t] = "pending"}

MutexRelease ==
  \/ count > 1 /\ count' = count - 1 /\ UNCHANGED <<owner, status>>
  \/ count = 1 /\ Waiting = {} /\ count' = 0 /\ owner' = NoThread /\ UNCHANGED status
  \/ /\ count = 1
     /\ \E w \in Waiting : owner' = w /\ status' = [status EXCEPT ![w] = "osOK"]
     /\ UNCHANGED count

(* base_timed_mutex::unlock; it throws, and changes nothing, unless the    *)
(* thread owns the mutex.                                                  *)
MutexUnlock(t) ==
  /\ Ready(t) /\ owner = t
  /\ MutexRelease
  /\ belief' = [belief EXCEPT ![t] = @ - 1]
  /\ UNCHANGED <<class, asked, busy, program>>

(* A mutex is made, and destroyed when nobody uses it. *)
MutexNew(t) ==
  /\ Ready(t) /\ class = "none"
  /\ class' \in Classes
  /\ UNCHANGED <<owner, count, asked, status, belief, busy, program>>

MutexDestroy(t) ==
  /\ Ready(t) /\ class # "none"
  /\ owner = NoThread /\ \A u \in Threads : status[u] = "none"
  /\ class' = "none"
  /\ UNCHANGED <<owner, count, asked, status, belief, busy, program>>

MutexNext ==
  \E t \in Threads :
    \/ MutexLock(t) \/ TryLock(t) \/ TryLockFor(t)
    \/ MutexTimeout(t) \/ MutexReturns(t) \/ MutexUnlock(t)
    \/ MutexNew(t) \/ MutexDestroy(t)

-----------------------------------------------------------------------------
MutexTypeOK ==
  /\ class \in Classes \cup {"none"}
  /\ owner \in Threads \cup {NoThread}
  /\ count \in 0 .. MaxCount
  /\ asked \in [Threads -> [op : {"none", "lock", "try_lock", "try_lock_for"}, ticks : Ticks]]
  /\ status \in [Threads -> {"none", "pending", "osOK", "osErrorTimeout", "osErrorResource",
                             "osErrorParameter"}]
  /\ belief \in [Threads -> Int]

(* What the operations have told a thread is true: it was told so often    *)
(* that it locked the mutex, less its unlocks, as the RTOS counts it as    *)
(* its owner; so that no two threads believe they have it.                 *)
BeliefIsOwnership ==
  \A t \in Threads :
    belief[t] + (IF status[t] = "osOK" THEN 1 ELSE 0) = (IF owner = t THEN count ELSE 0)

(* A try, of no negative duration, that finds the mutex in the hands of    *)
(* another thread says so, and is not an error.  It does not hold          *)
(* (Mutex.cpp:88).                                                         *)
TryIsNoError ==
  \A t \in Threads :
    /\ asked[t].op \in {"try_lock", "try_lock_for"} /\ asked[t].ticks # Negative
    /\ status[t] \notin {"none", "pending"} /\ owner # t
    => MutexResult(asked[t], status[t]) # "exception"
=============================================================================
