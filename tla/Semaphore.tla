------------------------------- MODULE Semaphore -------------------------------
(***************************************************************************)
(* counting_semaphore (include/Semaphore.h, src/Semaphore.cpp): release of *)
(* n is n releases of the RTOS with other threads in between, which stops  *)
(* half way when the semaphore is full; and what the acquiring operations  *)
(* make of the results of osSemaphoreAcquire.                              *)
(***************************************************************************)
EXTENDS Kernel, Functions

CONSTANTS
  MaxTokens,   (* counting_semaphore::max()        *)
  Counts       (* the counts that callers release  *)

ASSUME SemaphoreAssumption ==
  /\ MaxTokens \in Nat \ {0}
  /\ Counts \subseteq Int \ {0}

VARIABLES
  semaphore,   (* there is a semaphore                                        *)
  tokens,      (* the tokens of the RTOS                                      *)
  update,      (* what is left of the count that each thread releases         *)
  taking,      (* the operation each thread acquires by, and its ticks        *)
  taken,       (* what osSemaphoreAcquire returned to it, or "pending"        *)
  balance,     (* the tokens put in, less those threads were told they took   *)
  overbooked,  (* some caller released more than std::counting_semaphore lets *)
  failed       (* some release has thrown                                     *)

semaphoreVars == <<semaphore, tokens, update, taking, taken, balance, overbooked, failed>>

NotTaking == [op |-> "none", ticks |-> 0]

SemaphoreInit ==
  /\ semaphore = FALSE
  /\ tokens = 0
  /\ update = [t \in Threads |-> 0]
  /\ taking = [t \in Threads |-> NotTaking]
  /\ taken = [t \in Threads |-> "none"]
  /\ balance = 0
  /\ overbooked = FALSE
  /\ failed = FALSE

(* The counter as std::counting_semaphore has it: a release adds its count *)
(* when it is called.                                                      *)
Counter == tokens + SumFunction(update)

-----------------------------------------------------------------------------
(* Mutated: a count above the maximum is accepted. *)
SemaphoreNewUnchecked(t) ==
  /\ Ready(t) /\ ~semaphore
  /\ semaphore' = TRUE
  /\ tokens' \in 0 .. MaxTokens + 1
  /\ balance' = tokens'
  /\ UNCHANGED <<update, taking, taken, overbooked, failed, busy, program>>

(* base_semaphore(max, desired); a count above the maximum is refused. *)
SemaphoreNew(t) ==
  /\ Ready(t) /\ ~semaphore
  /\ semaphore' = TRUE
  /\ tokens' \in 0 .. MaxTokens
  /\ balance' = tokens'
  /\ UNCHANGED <<update, taking, taken, overbooked, failed, busy, program>>

SemaphoreDestroy(t) ==
  /\ Ready(t) /\ semaphore
  /\ \A u \in Threads : update[u] = 0 /\ taken[u] = "none"
  /\ semaphore' = FALSE
  /\ tokens' = 0 /\ balance' = 0
  /\ UNCHANGED <<update, taking, taken, overbooked, failed, busy, program>>

(* Mutated: the loop makes one turn too many. *)
ReleaseOneMore(t, n) ==
  /\ Ready(t) /\ semaphore
  /\ update' = [update EXCEPT ![t] = IF n > 0 THEN n + 1 ELSE n]
  /\ overbooked' = (overbooked \/ n < 0 \/ Counter + n > MaxTokens)
  /\ busy' = busy \cup {t}
  /\ UNCHANGED <<semaphore, tokens, taking, taken, balance, failed, program>>

(* base_semaphore::release of n; none are released in no steps. *)
Release(t, n) ==
  /\ Ready(t) /\ semaphore
  /\ update' = [update EXCEPT ![t] = n]
  /\ overbooked' = (overbooked \/ n < 0 \/ Counter + n > MaxTokens)
  /\ busy' = busy \cup {t}
  /\ UNCHANGED <<semaphore, tokens, taking, taken, balance, failed, program>>

TokenWaiters == {t \in Threads : taken[t] = "pending"}

(* update-- counts down past zero from a negative count. *)
CountDown(n) == IF n < 0 THEN n ELSE n - 1

(* A turn of the loop is over. *)
NextTurn(t) ==
  /\ update' = [update EXCEPT ![t] = CountDown(@)]
  /\ busy' = IF CountDown(update[t]) = 0 THEN busy \ {t} ELSE busy

(* A turn of the loop of release: osSemaphoreRelease gives the token to a  *)
(* thread that waits, keeps it, or is full.                                *)
ReleaseOne(t) ==
  /\ Runs(t) /\ update[t] # 0
  /\ \/ /\ \E w \in TokenWaiters : taken' = [taken EXCEPT ![w] = "osOK"]
        /\ NextTurn(t)
        /\ balance' = balance + 1
        /\ UNCHANGED <<tokens, failed>>
     \/ /\ TokenWaiters = {} /\ tokens < MaxTokens
        /\ tokens' = tokens + 1
        /\ NextTurn(t)
        /\ balance' = balance + 1
        /\ UNCHANGED <<taken, failed>>
     \/ /\ TokenWaiters = {} /\ tokens = MaxTokens
        /\ update' = [update EXCEPT ![t] = 0]
        /\ busy' = busy \ {t}
        /\ failed' = TRUE
        /\ UNCHANGED <<tokens, taken, balance>>
  /\ UNCHANGED <<semaphore, taking, overbooked, program>>

-----------------------------------------------------------------------------
(* osSemaphoreAcquire *)
SemaphoreAcquire(t, ticks) ==
  IF tokens > 0
  THEN tokens' = tokens - 1 /\ taken' = [taken EXCEPT ![t] = "osOK"]
  ELSE /\ taken' = [taken EXCEPT ![t] =
                      IF ticks = 0 THEN "osErrorResource"
                      ELSE IF CanBlock THEN "pending" ELSE "osErrorTimeout"]
       /\ UNCHANGED tokens

TakeToken(t, op, ticks) ==
  /\ Ready(t) /\ semaphore
  /\ IF ticks = Negative
     THEN taken' = [taken EXCEPT ![t] = "osErrorParameter"] /\ UNCHANGED tokens
     ELSE SemaphoreAcquire(t, ticks)
  /\ taking' = [taking EXCEPT ![t] = [op |-> op, ticks |-> ticks]]
  /\ busy' = busy \cup {t}
  /\ UNCHANGED <<semaphore, update, balance, overbooked, failed, program>>

(* base_semaphore::acquire, try_acquire, and try_acquire_for with any      *)
(* duration.                                                               *)
Acquire(t) == TakeToken(t, "acquire", 2)
TryAcquire(t) == TakeToken(t, "try_acquire", 0)
TryAcquireFor(t) == \E ticks \in {Negative, 0, 1} : TakeToken(t, "try_acquire_for", ticks)

(* The ticks of a call are over; osWaitForever are 2. *)
SemaphoreTimeout(t) ==
  /\ taken[t] = "pending" /\ taking[t].ticks < 2
  /\ taken' = [taken EXCEPT ![t] = "osErrorTimeout"]
  /\ UNCHANGED <<semaphore, tokens, update, taking, balance, overbooked, failed, busy, program>>

(* Mutated: every end but a timeout is a token. *)
TryAcquireForResultNoTimeout(ticks, s) == s # "osErrorTimeout"

(* What try_acquire_for makes of a status; what it does not expect throws. *)
TryAcquireForResult(ticks, s) ==
  /\ ~(ticks = 0 /\ s = "osErrorResource")
  /\ s = "osOK"

(* Whether the caller is told that it has a token. *)
Acquired(a, s) ==
  CASE a.op \in {"acquire", "try_acquire"} -> s = "osOK"
    [] a.op = "try_acquire_for" -> TryAcquireForResult(a.ticks, s)

AcquireReturns(t) ==
  /\ Runs(t) /\ taken[t] \notin {"none", "pending"}
  /\ balance' = IF Acquired(taking[t], taken[t]) THEN balance - 1 ELSE balance
  /\ taking' = [taking EXCEPT ![t] = NotTaking]
  /\ taken' = [taken EXCEPT ![t] = "none"]
  /\ busy' = busy \ {t}
  /\ UNCHANGED <<semaphore, tokens, update, overbooked, failed, program>>

SemaphoreNext ==
  \E t \in Threads :
    \/ SemaphoreNew(t) \/ SemaphoreDestroy(t)
    \/ \E n \in Counts : Release(t, n)
    \/ ReleaseOne(t)
    \/ Acquire(t) \/ TryAcquire(t) \/ TryAcquireFor(t)
    \/ SemaphoreTimeout(t) \/ AcquireReturns(t)

-----------------------------------------------------------------------------
SemaphoreTypeOK ==
  /\ semaphore \in BOOLEAN
  /\ tokens \in 0 .. MaxTokens
  /\ update \in [Threads -> Int]
  /\ taking \in [Threads -> [op : {"none", "acquire", "try_acquire", "try_acquire_for"},
                             ticks : Ticks]]
  /\ taken \in [Threads -> {"none", "pending", "osOK", "osErrorTimeout", "osErrorResource",
                            "osErrorParameter"}]
  /\ balance \in Int
  /\ overbooked \in BOOLEAN
  /\ failed \in BOOLEAN

(* No token is made or lost: those that callers put in and were not told   *)
(* that they took are in the RTOS, or on their way to a thread.            *)
TokensAreConserved ==
  balance = tokens + Cardinality({t \in Threads : taken[t] = "osOK"})

(* As long as callers keep to what std::counting_semaphore asks of them,   *)
(* no release throws half way, however the turns of several are mixed.     *)
ReleaseThrowsOnlyOverbooked == failed => overbooked

(* Then, with its releases in steps, it is a counting semaphore.           *)
Std == INSTANCE StdSemaphore WITH
         Max <- MaxTokens, Updates <- Counts, made <- semaphore,
         counter <- Counter, defined <- ~overbooked

ImplementsStdSemaphore == Std!Spec
=============================================================================
