-------------------------------- MODULE Kernel --------------------------------
(***************************************************************************)
(* The kernel of the RTOS as src/OS.cpp drives it, the locks of its        *)
(* dispatcher (class dispatch), and the list of threads (src/Threads.cpp). *)
(* The objects that threads wait for are modules of their own; what they   *)
(* share is here: which threads may run, and which are inside a call.      *)
(*                                                                         *)
(* dispatch is used as its comment says, by lock_guard: an object is       *)
(* locked once at a time, and scopes nest.                                 *)
(***************************************************************************)
EXTENDS Integers, Sequences, FiniteSets

CONSTANTS
  Threads,     (* the threads of the program                 *)
  NoThread,    (* no thread                                  *)
  Dispatches   (* the objects of class dispatch              *)

ASSUME KernelAssumption ==
  /\ NoThread \notin Threads
  /\ Dispatches \cap Threads = {}
  /\ IsFiniteSet(Threads)

VARIABLES
  kernel,    (* osKernelGetState()                                           *)
  runner,    (* the thread that runs while the kernel is locked or suspended *)
  saved,     (* m_previous_lock_state of each dispatch object                *)
  held,      (* the dispatch objects that are locked, the outermost first    *)
  alive,     (* the threads that were started and have not ended             *)
  listing,   (* the vector that each call of enumerate fills                 *)
  busy,      (* the threads that are inside a call                           *)
  program    (* "running", or the call that std::terminate ended it in       *)

kernelVars == <<kernel, runner, saved, held, alive, listing>>

(* A thread stands for the dispatch object on its stack in enumerate. *)
Locks == Dispatches \cup Threads

osError == -1

NoListing == [size |-> 0, threads |-> {}, read |-> FALSE]

KernelInit(threads) ==
  /\ kernel = "inactive"
  /\ runner = NoThread
  /\ saved = [d \in Locks |-> osError]
  /\ held = <<>>
  /\ alive = threads
  /\ listing = [t \in Threads |-> NoListing]
  /\ busy = {}
  /\ program = "running"

(* The dispatcher switches threads in a kernel that runs, and in no other. *)
Runs(t) ==
  /\ program = "running"
  /\ t \in alive
  /\ kernel = "running" \/ (kernel \in {"locked", "suspended"} /\ runner = t)

Ready(t) == Runs(t) /\ t \notin busy

(* Elsewhere a call that would wait ends at once. *)
CanBlock == kernel = "running"

(* The time of a call that may wait: negative, less than a tick, a tick or *)
(* more, and osWaitForever.  The calls that take a duration refuse one     *)
(* that is negative before they ask the RTOS.                              *)
Negative == -1
Ticks == Negative .. 2

Held == {held[i] : i \in 1 .. Len(held)}

-----------------------------------------------------------------------------
(* kernel::initialize and kernel::start, by main; both are refused in the  *)
(* other states.                                                           *)
Initialize ==
  /\ kernel = "inactive"
  /\ kernel' = "ready"
  /\ UNCHANGED <<runner, saved, held, alive, listing, busy, program>>

Start ==
  /\ kernel = "ready"
  /\ kernel' = "running"
  /\ UNCHANGED <<runner, saved, held, alive, listing, busy, program>>

(* kernel::suspend and resume: without effect in a locked kernel. *)
Suspend(t) ==
  /\ Ready(t) /\ kernel = "running"
  /\ kernel' = "suspended"
  /\ runner' = t
  /\ UNCHANGED <<saved, held, alive, listing, busy, program>>

Resume(t) ==
  /\ Ready(t) /\ kernel = "suspended"
  /\ kernel' = "running"
  /\ runner' = NoThread
  /\ UNCHANGED <<saved, held, alive, listing, busy, program>>

(* osKernelLock and osKernelRestoreLock *)
PreviousLock == CASE kernel = "running" -> 0 [] kernel = "locked" -> 1 [] OTHER -> osError

RestoreLock(lock) ==
  /\ kernel' = IF lock = 0 THEN "running" ELSE "locked"
  /\ runner' = IF lock = 0 THEN NoThread ELSE runner

(* Mutated: the state before the lock is not kept. *)
LockForgets(t, d) ==
  /\ saved' = [saved EXCEPT ![d] = 0]
  /\ kernel' = "locked"
  /\ runner' = t
  /\ held' = Append(held, d)

(* Mutated: a lock that does not lock. *)
LockNothing(t, d) ==
  /\ saved' = [saved EXCEPT ![d] = PreviousLock]
  /\ held' = Append(held, d)
  /\ UNCHANGED <<kernel, runner>>

(* dispatch::lock, where osKernelLock does not fail. *)
Lock(t, d) ==
  /\ saved' = [saved EXCEPT ![d] = PreviousLock]
  /\ kernel' = "locked"
  /\ runner' = t
  /\ held' = Append(held, d)

(* Mutated: an unlock that leaves the kernel locked. *)
UnlockNothing(d) ==
  /\ held' = SubSeq(held, 1, Len(held) - 1)
  /\ UNCHANGED <<kernel, runner, saved>>

(* dispatch::unlock of the innermost lock. *)
Unlock(d) ==
  /\ held # <<>> /\ held[Len(held)] = d
  /\ saved[d] >= 0
  /\ RestoreLock(saved[d])
  /\ held' = SubSeq(held, 1, Len(held) - 1)
  /\ UNCHANGED saved

(* A lock that fails throws, and its object is left without a state. *)
DispatchLock(t, d) ==
  /\ Ready(t) /\ d \notin Held
  /\ \/ PreviousLock >= 0 /\ Lock(t, d)
     \/ /\ PreviousLock = osError
        /\ saved' = [saved EXCEPT ![d] = osError]
        /\ UNCHANGED <<kernel, runner, held>>
  /\ UNCHANGED <<alive, listing, busy, program>>

DispatchUnlock(t, d) ==
  /\ Ready(t)
  /\ Unlock(d)
  /\ UNCHANGED <<alive, listing, busy, program>>

-----------------------------------------------------------------------------
(* threads::enumerate: the lock and the size of the vector.  The lock      *)
(* throws in a suspended kernel, which ends the program: the function is   *)
(* noexcept.                                                               *)
Enumerate(t) ==
  /\ Ready(t)
  /\ \/ /\ PreviousLock >= 0 /\ Lock(t, t)
        /\ listing' = [listing EXCEPT ![t] = [NoListing EXCEPT !.size = Cardinality(alive)]]
        /\ busy' = busy \cup {t}
        /\ UNCHANGED <<alive, program>>
     \/ /\ PreviousLock = osError
        /\ program' = "enumerate"
        /\ UNCHANGED <<kernelVars, busy>>

(* osThreadEnumerate fills as much of the vector as there are threads, or  *)
(* as it holds.                                                            *)
ReadThreads(t) ==
  /\ Runs(t) /\ listing[t].size > 0 /\ ~listing[t].read
  /\ \E s \in SUBSET alive :
       /\ Cardinality(s) = listing[t].size \/ (s = alive /\ Cardinality(s) < listing[t].size)
       /\ listing' = [listing EXCEPT ![t].threads = s, ![t].read = TRUE]
  /\ UNCHANGED <<kernel, runner, saved, held, alive, busy, program>>

(* The names, states and stacks of the threads in the vector are read, and *)
(* the guard goes out of scope.                                            *)
EnumerateReturns(t) ==
  /\ Runs(t) /\ listing[t].read
  /\ Unlock(t)
  /\ listing' = [listing EXCEPT ![t] = NoListing]
  /\ busy' = busy \ {t}
  /\ UNCHANGED <<alive, program>>

(* Threads end, where the kernel is not locked, and others are started. *)
ThreadExit(t) ==
  /\ Ready(t) /\ kernel = "running"
  /\ alive' = alive \ {t}
  /\ UNCHANGED <<kernel, runner, saved, held, listing, busy, program>>

ThreadNew(t, new) ==
  /\ Ready(t) /\ new \notin alive
  /\ alive' = alive \cup {new}
  /\ UNCHANGED <<kernel, runner, saved, held, listing, busy, program>>

KernelNext(dispatches, suspends) ==
  \/ Initialize \/ Start
  \/ \E t \in Threads : (suspends /\ Suspend(t)) \/ Resume(t)
  \/ \E t \in Threads, d \in dispatches : DispatchLock(t, d) \/ DispatchUnlock(t, d)

ThreadListNext ==
  \E t \in Threads :
    \/ Enumerate(t) \/ ReadThreads(t) \/ EnumerateReturns(t)
    \/ ThreadExit(t)
    \/ \E new \in Threads : ThreadNew(t, new)

-----------------------------------------------------------------------------
KernelTypeOK ==
  /\ kernel \in {"inactive", "ready", "running", "locked", "suspended"}
  /\ runner \in Threads \cup {NoThread}
  /\ saved \in [Locks -> {osError, 0, 1}]
  /\ held \in Seq(Locks)
  /\ alive \subseteq Threads
  /\ listing \in [Threads -> [size : Nat, threads : SUBSET Threads, read : BOOLEAN]]
  /\ busy \subseteq Threads
  /\ program \in {"running", "enumerate", "deleter"}

(* The kernel is locked as long as somebody holds a dispatch object, and   *)
(* not longer: the states that nested locks save fit together, whatever    *)
(* was suspended, resumed or refused meanwhile.                            *)
LockIsBalanced == kernel = "locked" <=> held # <<>>

(* What enumerate reads about a thread it reads of a thread that is there, *)
(* and it misses none: nothing starts or ends between its three steps.     *)
ListIsASnapshot == \A t \in Threads : listing[t].read => listing[t].threads = alive
=============================================================================
