-------------------------- MODULE ConditionVariable --------------------------
(***************************************************************************)
(* cmsis::condition_variable (include/ConditionVariable.h,                 *)
(* src/ConditionVariable.cpp): a list m_wait of pointers to binary         *)
(* semaphores, one on the stack of each call of wait_for_usec, protected   *)
(* by the mutex m_mutex.  A notification releases the semaphore of the     *)
(* oldest entry and drops the entry; a waiter whose semaphore times out    *)
(* erases its own entry through the iterator it kept.                      *)
(*                                                                         *)
(* The steps are those another thread can interleave with.  m_wait is only *)
(* touched under m_mutex, so a critical section is one step unless it      *)
(* releases a semaphore, which lets a waiter run before m_mutex is free.   *)
(*                                                                         *)
(* A program that meets undefined behaviour, or calls std::terminate,      *)
(* takes no further step: "program" says why it stopped.                   *)
(***************************************************************************)
EXTENDS Integers, SequencesExt

CONSTANTS
  Waiters,       (* the threads that call wait, wait_for and wait_until        *)
  Notifiers,     (* the threads that call notify_one and notify_all            *)
  NoThread,      (* the owner of a free mutex                                  *)
  Dangling,      (* an entry of m_wait whose semaphore has been destroyed      *)
  Timeouts,      (* what the durations given to wait_for convert to            *)
  UntimedTicks,  (* what microseconds::max(), used by wait, converts to        *)
  MaxNodes       (* the list nodes the heap has room for                       *)

Threads == Waiters \cup Notifiers

TimeoutKinds == {"negative", "zero", "finite", "forever"}

ASSUME ThreadsAssumption ==
  /\ NoThread \notin Threads
  /\ Dangling \notin Threads

ASSUME TimeoutAssumption ==
  /\ Timeouts \subseteq TimeoutKinds
  /\ UntimedTicks \subseteq TimeoutKinds \ {"negative"}

ASSUME NodesAssumption == MaxNodes \in Nat

VARIABLES
  lockOwner,   (* the owner of the mutex of the caller's unique_lock       *)
  listOwner,   (* the owner of m_mutex                                     *)
  m_wait,      (* the list: each entry is the thread whose semaphore it is *)
  cursor,      (* the entries the notifier that owns m_mutex has released  *)
  sema,        (* the tokens of the semaphore in each thread's wait        *)
  timeout,     (* what the duration of each thread's wait converts to      *)
  result,      (* what each thread's last wait returned                    *)
  pc,          (* the next step of each thread                             *)
  program      (* "running", or why it no longer runs                      *)

vars ==
  <<lockOwner, listOwner, m_wait, cursor, sema, timeout, result, pc, program>>

Pcs == {"idle", "locked", "insert", "unlock", "acquire", "relock",
        "relockTimedOut", "erase", "popFront", "releaseAll"}

Stops == {"misused", "terminated", "staleIterator", "danglingSemaphore"}

Init ==
  /\ lockOwner = NoThread
  /\ listOwner = NoThread
  /\ m_wait = <<>>
  /\ cursor = 0
  /\ sema = [t \in Threads |-> 0]
  /\ timeout = [t \in Threads |-> "forever"]
  /\ result = [t \in Threads |-> "none"]
  /\ pc = [t \in Threads |-> "idle"]
  /\ program = "running"

Goto(t, from, to) ==
  /\ program = "running"
  /\ pc[t] = from
  /\ pc' = [pc EXCEPT ![t] = to]

Return(t, r) == result' = [result EXCEPT ![t] = r]

Stop(reason) ==
  /\ program' = reason
  /\ UNCHANGED <<lockOwner, listOwner, m_wait, cursor, sema, timeout, result, pc>>

(* Where a thread resumes after a notification: it may own its lock. *)
Caller(t) == IF lockOwner = t THEN "locked" ELSE "idle"

-----------------------------------------------------------------------------
(* Mutated forms of the actions below, for testing the properties: no      *)
(* definition uses them.                                                   *)

(* The new entry goes to the front of the list. *)
InsertAtBegin(t) ==
  /\ Goto(t, "insert", "unlock")
  /\ listOwner = NoThread
  /\ Len(m_wait) < MaxNodes
  /\ m_wait' = <<t>> \o m_wait
  /\ UNCHANGED <<lockOwner, listOwner, cursor, sema, timeout, result, program>>

(* A token wakes the waiter up but does not end its wait. *)
AcquireTokenAgain(t) ==
  /\ Goto(t, "acquire", "acquire")
  /\ sema[t] = 1
  /\ sema' = [sema EXCEPT ![t] = 0]
  /\ UNCHANGED <<lockOwner, listOwner, m_wait, cursor, timeout, result, program>>

(* A waiter that gives up still counts its semaphore down. *)
AcquireTimeoutCounts(t) ==
  /\ Goto(t, "acquire", "relockTimedOut")
  /\ timeout[t] \in {"zero", "finite"}
  /\ sema' = [sema EXCEPT ![t] = @ - 1]
  /\ UNCHANGED <<lockOwner, listOwner, m_wait, cursor, timeout, result, program>>

(* The entry of a waiter that gave up stays in the list. *)
EraseNothing(t) ==
  /\ listOwner = NoThread
  /\ Goto(t, "erase", "locked")
  /\ Return(t, "timeout")
  /\ UNCHANGED <<lockOwner, listOwner, m_wait, cursor, sema, timeout, program>>

(* notify_one clears the list. *)
PopEverything(t) ==
  /\ Goto(t, "popFront", Caller(t))
  /\ m_wait' = <<>>
  /\ listOwner' = NoThread
  /\ cursor' = 0
  /\ UNCHANGED <<lockOwner, sema, timeout, result, program>>

(* notify_one leaves the entry it released in the list. *)
PopNothing(t) ==
  /\ Goto(t, "popFront", Caller(t))
  /\ listOwner' = NoThread
  /\ cursor' = 0
  /\ UNCHANGED <<lockOwner, m_wait, sema, timeout, result, program>>

(* notify_one returns with m_mutex locked. *)
PopAndKeepMutex(t) ==
  /\ Goto(t, "popFront", Caller(t))
  /\ m_wait' = Tail(m_wait)
  /\ cursor' = 0
  /\ UNCHANGED <<lockOwner, listOwner, sema, timeout, result, program>>

(* notify_all does not clear the list. *)
ClearNothing(t) ==
  /\ cursor = Len(m_wait)
  /\ Goto(t, "releaseAll", Caller(t))
  /\ listOwner' = NoThread
  /\ cursor' = 0
  /\ UNCHANGED <<lockOwner, m_wait, sema, timeout, result, program>>

-----------------------------------------------------------------------------
(* The mutex of the caller, locked and unlocked outside of wait. *)

Lock(t) ==
  /\ Goto(t, "idle", "locked")
  /\ lockOwner = NoThread
  /\ lockOwner' = t
  /\ UNCHANGED <<listOwner, m_wait, cursor, sema, timeout, result, program>>

Unlock(t) ==
  /\ Goto(t, "locked", "idle")
  /\ lockOwner' = NoThread
  /\ UNCHANGED <<listOwner, m_wait, cursor, sema, timeout, result, program>>

-----------------------------------------------------------------------------
(* wait_for_usec, step by step. *)

(* The entry: owns_lock() holds, the semaphore is created with no token. *)
BeginWait(t, kind) ==
  /\ Goto(t, "locked", "insert")
  /\ sema' = [sema EXCEPT ![t] = 0]
  /\ timeout' = [timeout EXCEPT ![t] = kind]
  /\ UNCHANGED <<lockOwner, listOwner, m_wait, cursor, result, program>>

(* Without memory for the semaphore its constructor throws. *)
NoSemaphore(t) ==
  /\ Goto(t, "locked", "locked")
  /\ Return(t, "exception")
  /\ UNCHANGED <<lockOwner, listOwner, m_wait, cursor, sema, timeout, program>>

(* A call with a lock that is not owned ends in std::terminate. *)
WaitUnowned(t) ==
  /\ program = "running"
  /\ pc[t] = "idle"
  /\ Stop("misused")

Wait(t) == \E kind \in UntimedTicks : BeginWait(t, kind)

WaitFor(t) == \E kind \in Timeouts : BeginWait(t, kind)

(* wait_until returns at once when the deadline is past, and never passes *)
(* a negative duration on.                                                *)
WaitUntil(t) ==
  \/ \E kind \in Timeouts \ {"negative"} : BeginWait(t, kind)
  \/ /\ Goto(t, "locked", "locked")
     /\ Return(t, "timeout")
     /\ UNCHANGED <<lockOwner, listOwner, m_wait, cursor, sema, timeout, program>>

(* m_wait.insert under m_mutex; without memory for the node it throws, the *)
(* semaphore is unwound and the caller still owns its lock.                *)
Insert(t) ==
  /\ listOwner = NoThread
  /\ \/ /\ Len(m_wait) < MaxNodes
        /\ Goto(t, "insert", "unlock")
        /\ m_wait' = Append(m_wait, t)
        /\ UNCHANGED result
     \/ /\ Len(m_wait) >= MaxNodes
        /\ Goto(t, "insert", "locked")
        /\ Return(t, "exception")
        /\ UNCHANGED m_wait
  /\ UNCHANGED <<lockOwner, listOwner, cursor, sema, timeout, program>>

UnlockToWait(t) ==
  /\ Goto(t, "unlock", "acquire")
  /\ lockOwner' = NoThread
  /\ UNCHANGED <<listOwner, m_wait, cursor, sema, timeout, result, program>>

(* try_acquire_for takes the token a notification left ... *)
AcquireToken(t) ==
  /\ Goto(t, "acquire", "relock")
  /\ timeout[t] # "negative"
  /\ sema[t] = 1
  /\ sema' = [sema EXCEPT ![t] = 0]
  /\ UNCHANGED <<lockOwner, listOwner, m_wait, cursor, timeout, result, program>>

(* ... or gives up, without one, after its ticks: at once for 0 ticks ... *)
AcquireTimeout(t) ==
  /\ Goto(t, "acquire", "relockTimedOut")
  /\ timeout[t] \in {"zero", "finite"}
  /\ sema[t] = 0
  /\ UNCHANGED <<lockOwner, listOwner, m_wait, cursor, sema, timeout, result, program>>

(* ... or throws on a negative duration: wait_for_usec unwinds without its *)
(* lock, and destroys the semaphore its entry of m_wait points to.         *)
AcquireThrows(t) ==
  /\ Goto(t, "acquire", "idle")
  /\ timeout[t] = "negative"
  /\ m_wait' = [i \in DOMAIN m_wait |-> IF m_wait[i] = t THEN Dangling ELSE m_wait[i]]
  /\ Return(t, "exception")
  /\ UNCHANGED <<lockOwner, listOwner, cursor, sema, timeout, program>>

(* lock.lock(); a waiter that got a token returns. *)
Relock(t) ==
  /\ lockOwner = NoThread
  /\ lockOwner' = t
  /\ \/ Goto(t, "relock", "locked") /\ Return(t, "no_timeout")
     \/ Goto(t, "relockTimedOut", "erase") /\ UNCHANGED result
  /\ UNCHANGED <<listOwner, m_wait, cursor, sema, timeout, program>>

(* m_wait.erase(it) under m_mutex.  An iterator whose entry a notification *)
(* has already dropped is no longer valid: undefined behaviour.            *)
Erase(t) ==
  /\ listOwner = NoThread
  /\ \/ \E i \in DOMAIN m_wait :
          /\ m_wait[i] = t
          /\ Goto(t, "erase", "locked")
          /\ m_wait' = RemoveAt(m_wait, i)
          /\ Return(t, "timeout")
          /\ UNCHANGED <<lockOwner, listOwner, cursor, sema, timeout, program>>
     \/ /\ program = "running"
        /\ pc[t] = "erase"
        /\ \A i \in DOMAIN m_wait : m_wait[i] # t
        /\ Stop("staleIterator")

-----------------------------------------------------------------------------
(* notify_one and notify_all, called with or without the caller's lock. *)

(* psema->release() of entry i: undefined behaviour if the semaphore is    *)
(* gone; std::terminate if it has its token already, because release then  *)
(* throws and both functions are noexcept.                                 *)
ReleaseEntry(t, i, from, to) ==
  LET w == m_wait[i] IN
  \/ /\ w # Dangling
     /\ sema[w] = 0
     /\ Goto(t, from, to)
     /\ sema' = [sema EXCEPT ![w] = 1]
     /\ listOwner' = t
     /\ cursor' = i
     /\ UNCHANGED <<lockOwner, m_wait, timeout, result, program>>
  \/ /\ program = "running" /\ pc[t] = from
     /\ w # Dangling
     /\ sema[w] = 1
     /\ Stop("terminated")
  \/ /\ program = "running" /\ pc[t] = from
     /\ w = Dangling
     /\ Stop("danglingSemaphore")

(* With an empty list both functions return without a trace. *)
NotifyOne(t) ==
  /\ listOwner = NoThread
  /\ m_wait # <<>>
  /\ ReleaseEntry(t, 1, Caller(t), "popFront")

PopFront(t) ==
  /\ Goto(t, "popFront", Caller(t))
  /\ m_wait' = Tail(m_wait)
  /\ listOwner' = NoThread
  /\ cursor' = 0
  /\ UNCHANGED <<lockOwner, sema, timeout, result, program>>

NotifyAll(t) ==
  /\ listOwner = NoThread
  /\ m_wait # <<>>
  /\ ReleaseEntry(t, 1, Caller(t), "releaseAll")

ReleaseNext(t) ==
  /\ cursor < Len(m_wait)
  /\ ReleaseEntry(t, cursor + 1, "releaseAll", "releaseAll")

Clear(t) ==
  /\ cursor = Len(m_wait)
  /\ Goto(t, "releaseAll", Caller(t))
  /\ m_wait' = <<>>
  /\ listOwner' = NoThread
  /\ cursor' = 0
  /\ UNCHANGED <<lockOwner, sema, timeout, result, program>>

Stopped ==
  /\ program # "running"
  /\ UNCHANGED vars

-----------------------------------------------------------------------------
(* The steps a thread takes once it is inside a call. *)
WaitStep(t) ==
  \/ Insert(t) \/ UnlockToWait(t)
  \/ AcquireToken(t) \/ AcquireTimeout(t) \/ AcquireThrows(t)
  \/ Relock(t) \/ Erase(t)

NotifyStep(t) == PopFront(t) \/ ReleaseNext(t) \/ Clear(t)

Next ==
  \/ \E t \in Threads : Lock(t) \/ Unlock(t)
  \/ \E t \in Waiters :
       \/ Wait(t) \/ WaitFor(t) \/ WaitUntil(t) \/ WaitUnowned(t) \/ NoSemaphore(t)
       \/ WaitStep(t)
  \/ \E t \in Notifiers : NotifyOne(t) \/ NotifyAll(t) \/ NotifyStep(t)
  \/ Stopped

Spec == Init /\ [][Next]_vars

(* A thread inside a call keeps running, and one that holds the caller's   *)
(* mutex gives it up.  A step that takes a mutex is strongly fair: the     *)
(* kernel hands a mutex to its waiters in the order they came.  Nobody has *)
(* to start a wait or a notification.                                      *)
Fairness ==
  /\ \A t \in Threads : WF_vars(Unlock(t))
  /\ \A t \in Waiters :
       /\ WF_vars(UnlockToWait(t))
       /\ WF_vars(AcquireToken(t) \/ AcquireTimeout(t) \/ AcquireThrows(t))
       /\ SF_vars(Insert(t)) /\ SF_vars(Relock(t)) /\ SF_vars(Erase(t))
  /\ \A t \in Notifiers : WF_vars(NotifyStep(t))

FairSpec == Spec /\ Fairness

-----------------------------------------------------------------------------
(* The type of every variable, each of which stands for an object of       *)
(* ConditionVariable.cpp or for a thread's place in it.                    *)
TypeOK ==
  /\ lockOwner \in Threads \cup {NoThread}
  /\ listOwner \in Notifiers \cup {NoThread}
  /\ m_wait \in Seq(Waiters \cup {Dangling})
  /\ cursor \in Nat
  /\ sema \in [Threads -> {0, 1}]
  /\ timeout \in [Threads -> TimeoutKinds]
  /\ result \in [Threads -> {"none", "no_timeout", "timeout", "exception"}]
  /\ pc \in [Threads -> Pcs]
  /\ program \in {"running"} \cup Stops

(* A thread is between the registration of its semaphore in m_wait and its *)
(* return, and has not taken a token.                                      *)
Registered == {"unlock", "acquire", "relockTimedOut", "erase"}

(* A call of wait_for_usec that no notification has reached. *)
Awaiting(t) == pc[t] \in Registered /\ sema[t] = 0

(* The entries of m_wait that no notification has released yet. *)
Pending == {i \in DOMAIN m_wait : i > cursor}

(* No wakeup is lost: a registered waiter without a token is still in the  *)
(* list, past the entries a notifier has released, so that the next        *)
(* notification can reach it.  It fails if a waiter gives its lock up      *)
(* before it is in the list, or is dropped from the list without a token.  *)
NoStrandedWaiter ==
  \A t \in Waiters : Awaiting(t) => \E i \in Pending : m_wait[i] = t

(* A notification that meets entry i of m_wait has a live semaphore without *)
(* a token to release.                                                     *)
Releasable(i) == m_wait[i] \in Waiters /\ Awaiting(m_wait[i])

(* Every entry a notification may still release points to the semaphore of *)
(* a call of wait_for_usec that has not returned: it fails if a waiter     *)
(* returns and leaves its entry behind.                                    *)
PendingEntriesAreLive == \A i \in Pending : Releasable(i)

(* notify_one and notify_all are noexcept: releasing a semaphore that has  *)
(* its token would end in std::terminate.  No interleaving of two          *)
(* notifiers and a waiter's timeout releases a semaphore twice.            *)
NotifyNeverTerminates == program # "terminated"

(* A notified waiter comes back with its lock, whoever else competes for   *)
(* it (unless the program has stopped, or the call is about to throw).     *)
NotifiedWaiterReturns ==
  \A t \in Waiters :
    pc[t] = "acquire" /\ sema[t] = 1 /\ timeout[t] # "negative"
      ~> pc[t] = "locked" \/ program # "running"

(* A wait with a finite timeout comes back even if nobody ever notifies.   *)
TimedWaitReturns ==
  \A t \in Waiters :
    pc[t] = "insert" /\ timeout[t] \in {"zero", "finite"}
      ~> pc[t] = "locked" \/ program # "running"

(* Whatever a notification does to the list, a waiter that times out still *)
(* has an entry to erase.                                                  *)
NoStaleIterator == program # "staleIterator"

(* No notification uses the semaphore of a call that has returned.         *)
NoDanglingSemaphore == program # "danglingSemaphore"

-----------------------------------------------------------------------------
(* The inductive invariant of the proofs. *)

(* A thread that is in a call of wait with its lock, or back from one with *)
(* it, has the lock: also when the list node could not be allocated.       *)
LockInv ==
  \A t \in Threads : pc[t] \in {"locked", "insert", "unlock", "erase"} => lockOwner = t

(* The notifier inside a call is the owner of m_mutex, and the only thread *)
(* that counts entries.                                                    *)
ListMutexInv ==
  /\ listOwner = NoThread => cursor = 0
  /\ cursor <= Len(m_wait)
  /\ \A t \in Threads :
       /\ pc[t] \in {"popFront", "releaseAll"} => listOwner = t
       /\ pc[t] = "popFront" => cursor = 1

(* A thread has one entry at most, pending entries are releasable, and so  *)
(* is the entry a waiter is about to insert.                               *)
EntriesInv ==
  /\ \A i, j \in DOMAIN m_wait : m_wait[i] = m_wait[j] => i = j \/ m_wait[i] = Dangling
  /\ \A i \in Pending : m_wait[i] = Dangling \/ Releasable(i)
  /\ \A t \in Waiters : pc[t] = "insert" => sema[t] = 0

IndInv == TypeOK /\ LockInv /\ ListMutexInv /\ EntriesInv /\ NoStrandedWaiter

-----------------------------------------------------------------------------
(* The condition variable the standard promises: the queue is what m_wait  *)
(* holds beyond the entries already released.                              *)
AbstractStatus(t) ==
  CASE pc[t] \in {"unlock"} -> "enqueued"
    [] pc[t] \in {"acquire", "relock", "relockTimedOut"} -> "asleep"
    [] pc[t] = "erase" -> "leaving"
    [] OTHER -> "out"

Std == INSTANCE StdConditionVariable WITH
         owner  <- lockOwner,
         queue  <- SubSeq(m_wait, cursor + 1, Len(m_wait)),
         woken  <- {t \in Waiters : \/ pc[t] \in Registered /\ sema[t] = 1
                                    \/ pc[t] = "relock"},
         status <- [t \in Threads |-> AbstractStatus(t)]

(* Up to the point where it stops, every behaviour of the code is one of   *)
(* the abstract condition variable: FIFO, no lost notification, the lock   *)
(* held on return, timeout returned only by a waiter nobody notified.      *)
ImplementsStd == Std!Spec
=============================================================================
