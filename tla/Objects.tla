-------------------------------- MODULE Objects --------------------------------
(***************************************************************************)
(* A program of threads that lock the dispatcher and use the objects of    *)
(* one other class.  The classes do not know each other: what they share   *)
(* is the kernel, whose lock decides which threads run and which calls may *)
(* wait.                                                                   *)
(***************************************************************************)
EXTENDS Mutex, Semaphore, Flags, MemoryPool

(* What a program may use: a class, threads, dispatch objects, and suspend. *)
CONSTANT Plans

Parts == {"mutex", "semaphore", "event", "flags", "pool", "list"}

ASSUME PlansAssumption ==
  Plans \subseteq [part : Parts, threads : SUBSET Threads,
                   locks : SUBSET Dispatches, suspends : BOOLEAN]

VARIABLE plan  (* what this program uses *)

vars == <<plan, busy, program, kernelVars, mutexVars, semaphoreVars, flagsVars, poolVars>>

Init ==
  /\ plan \in Plans
  /\ KernelInit(plan.threads) /\ MutexInit /\ SemaphoreInit /\ FlagsInit /\ PoolInit

KernelStep ==
  /\ KernelNext(plan.locks, plan.suspends)
  /\ UNCHANGED <<plan, mutexVars, semaphoreVars, flagsVars, poolVars>>

ListStep ==
  /\ plan.part = "list" /\ ThreadListNext
  /\ UNCHANGED <<plan, mutexVars, semaphoreVars, flagsVars, poolVars>>

MutexStep ==
  /\ plan.part = "mutex" /\ MutexNext
  /\ UNCHANGED <<plan, kernelVars, semaphoreVars, flagsVars, poolVars>>

SemaphoreStep ==
  /\ plan.part = "semaphore" /\ SemaphoreNext
  /\ UNCHANGED <<plan, kernelVars, mutexVars, flagsVars, poolVars>>

FlagsStep ==
  /\ \/ plan.part = "event" /\ EventsNext
     \/ plan.part = "flags" /\ ThreadFlagsNext
  /\ UNCHANGED <<plan, kernelVars, mutexVars, semaphoreVars, poolVars>>

PoolStep ==
  /\ plan.part = "pool" /\ PoolNext
  /\ UNCHANGED <<plan, kernelVars, mutexVars, semaphoreVars, flagsVars>>

Next == KernelStep \/ ListStep \/ MutexStep \/ SemaphoreStep \/ FlagsStep \/ PoolStep

Spec == Init /\ [][Next]_vars

(* Every component keeps its types. *)
TypeOK ==
  /\ plan \in Plans
  /\ KernelTypeOK /\ MutexTypeOK /\ SemaphoreTypeOK /\ FlagsTypeOK /\ PoolTypeOK
=============================================================================
