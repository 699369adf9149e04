------------------------------- MODULE Thread -------------------------------
(***************************************************************************)
(* cmsis::thread (include/Thread.h, src/Thread.cpp): handles to threads of *)
(* the RTOS.  A handle owns a thread_impl, which started one routine, knows *)
(* its thread by the address of a control block, and terminates whatever   *)
(* runs on that control block when it is destroyed.  The RTOS gives the    *)
(* control block of a thread that is gone to the next thread it starts.    *)
(*                                                                         *)
(* A thread_impl and the routine it starts have the same number.  Handles  *)
(* are used by clients, threads that nobody has a handle of, and by the    *)
(* routines themselves; one at a time, as the standard asks.               *)
(***************************************************************************)
EXTENDS Naturals, FiniteSets

CONSTANTS
  Clients,   (* threads that use handles, and that no handle has    *)
  Handles,   (* the objects of class thread                         *)
  Blocks,    (* the control blocks: what a thread id refers to      *)
  NoBlock,   (* the id of a thread_impl that was never started      *)
  NoHandle,  (* the handle of a thread that is in no call           *)
  MaxRuns    (* the number of routines that are started             *)

ASSUME ConstantsAssumption ==
  /\ NoBlock \notin Blocks
  /\ NoHandle \notin Handles
  /\ MaxRuns \in Nat
  /\ Clients \cap (1 .. MaxRuns) = {}

Runs == 1 .. MaxRuns

Threads == Clients \cup Runs

(* The thread_impl of a handle that has none. *)
Null == 0

VARIABLES
  handle,    (* m_pThread of each handle                                  *)
  impl,      (* m_id and m_detached of each thread_impl                   *)
  run,       (* what became of each routine                               *)
  tcb,       (* each control block: its state, and the routine it runs    *)
  pc,        (* where each thread is in a join or a detach                *)
  joining,   (* the handle each thread joins or detaches                  *)
  program    (* "running", "terminated" by std::terminate, or "severed"   *)

vars == <<handle, impl, run, tcb, pc, joining, program>>

FreeBlock == [state |-> "free", run |-> Null, joinable |-> FALSE]

Init ==
  /\ handle = [h \in Handles |-> Null]
  /\ impl = [r \in Runs |-> [id |-> NoBlock, detached |-> FALSE]]
  /\ run = [r \in Runs |-> "unborn"]
  /\ tcb = [b \in Blocks |-> FreeBlock]
  /\ pc = [c \in Threads |-> "idle"]
  /\ joining = [c \in Threads |-> NoHandle]
  /\ program = "running"

(* thread::joinable *)
Joinable(h) == handle[h] # Null /\ ~impl[handle[h]].detached

(* A thread that is not in a call, and a handle that nobody is in a call of. *)
Idle(c) ==
  /\ program = "running" /\ pc[c] = "idle"
  /\ c \in Runs => run[c] = "running"
Unused(h) == \A c \in Threads : joining[c] # h

(* this_thread::get_id: the routine r runs on block b. *)
RunsOn(r, b) == tcb[b].state = "active" /\ tcb[b].run = r

Stop(why) ==
  /\ program' = why
  /\ UNCHANGED <<handle, impl, run, tcb, pc, joining>>

-----------------------------------------------------------------------------
(* Mutated forms of the actions below, for testing the properties: no      *)
(* definition uses them.                                                   *)

(* The constructor does not look at what osThreadNew returned. *)
NewUnchecked(c, h) ==
  /\ Idle(c) /\ Unused(h)
  /\ handle[h] = Null
  /\ \E r \in Runs :
       /\ run[r] = "unborn" /\ \A s \in 1 .. r - 1 : run[s] # "unborn"
       /\ handle' = [handle EXCEPT ![h] = r]
       /\ \/ \E b \in Blocks :
              /\ tcb[b].state = "free"
              /\ impl' = [impl EXCEPT ![r].id = b]
              /\ run' = [run EXCEPT ![r] = "running"]
              /\ tcb' = [tcb EXCEPT ![b] = [state |-> "active", run |-> r, joinable |-> TRUE]]
          \/ UNCHANGED <<impl, run, tcb>>
  /\ UNCHANGED <<pc, joining, program>>

(* detach forgets to tell the RTOS. *)
DetachOnly(c, h) ==
  /\ Idle(c) /\ Unused(h) /\ Joinable(h)
  /\ joining' = [joining EXCEPT ![c] = h]
  /\ pc' = [pc EXCEPT ![c] = "detached"]
  /\ UNCHANGED <<handle, impl, run, tcb, program>>

(* detach forgets that the handle no longer has a thread. *)
DetachForgets(c) ==
  /\ program = "running" /\ pc[c] = "detached"
  /\ pc' = [pc EXCEPT ![c] = "idle"]
  /\ joining' = [joining EXCEPT ![c] = NoHandle]
  /\ UNCHANGED <<handle, impl, run, tcb, program>>

(* join does not wait for a thread that is still running. *)
JoinAtOnce(c, h) ==
  /\ Idle(c) /\ Unused(h) /\ Joinable(h) /\ ~RunsOn(c, impl[handle[h]].id)
  /\ joining' = [joining EXCEPT ![c] = h]
  /\ pc' = [pc EXCEPT ![c] = "woken"]
  /\ UNCHANGED <<handle, impl, run, tcb, program>>

(* join does not look who is calling. *)
JoinAnyone(c, h) ==
  /\ Idle(c) /\ Unused(h) /\ Joinable(h)
  /\ joining' = [joining EXCEPT ![c] = h]
  /\ pc' = [pc EXCEPT ![c] = IF tcb[impl[handle[h]].id].state = "active" THEN "blocked" ELSE "woken"]
  /\ tcb' = [b \in Blocks |-> IF b = impl[handle[h]].id /\ tcb[b].state # "active" THEN FreeBlock
                                                                               ELSE tcb[b]]
  /\ UNCHANGED <<handle, impl, run, program>>

(* A thread that ends does not wake the one that joins it. *)
ThreadEndsUnseen(b, how) ==
  /\ run' = [run EXCEPT ![tcb[b].run] = how]
  /\ tcb' = [tcb EXCEPT ![b].state = "terminated"]
  /\ UNCHANGED <<pc, joining>>

-----------------------------------------------------------------------------
(* What the RTOS does when the thread on block b ends: it wakes the thread *)
(* that joins it, or keeps the block of a joinable thread for a later join. *)
(* A thread that is killed leaves the join it is in.                       *)
Joiners(b) ==
  {c \in Threads : pc[c] = "blocked" /\ impl[handle[joining[c]]].id = b}

ThreadEnds(b, how) ==
  /\ run' = [run EXCEPT ![tcb[b].run] = how]
  /\ tcb' = [tcb EXCEPT ![b] =
               IF @.joinable /\ Joiners(b) = {} THEN [@ EXCEPT !.state = "terminated"]
                                                ELSE FreeBlock]
  /\ pc' = [c \in Threads |-> IF c \in Joiners(b) THEN "woken"
                            ELSE IF c = tcb[b].run THEN "idle" ELSE pc[c]]
  /\ joining' = [joining EXCEPT ![tcb[b].run] = NoHandle]

(* The thread on block b is between the return of its osThreadJoin, or of  *)
(* its osThreadDetach, and the store to m_detached after it.  If it is     *)
(* killed there, the handle says for ever that it is joinable, and has no  *)
(* thread that anyone may join: the model stops at that.                   *)
InTheGap(b) == tcb[b].state = "active" /\ pc[tcb[b].run] \in {"woken", "detached"}

(* osThreadTerminate: a block without a thread is an error, which the      *)
(* destructor does not look at.  A routine may end itself.                 *)
TerminateThread(b) ==
  \/ tcb[b].state = "active" /\ ThreadEnds(b, "killed")
  \/ tcb[b].state # "active" /\ UNCHANGED <<run, tcb, pc, joining>>

(* The routine returns, and osThreadExit ends its thread. *)
Exit(b) ==
  /\ tcb[b].state = "active" /\ Idle(tcb[b].run)
  /\ ThreadEnds(b, "finished")
  /\ UNCHANGED <<handle, impl, program>>

(* Or it lets an exception out, which std::terminate answers. *)
Throw(b) == tcb[b].state = "active" /\ Idle(tcb[b].run) /\ Stop("terminated")

-----------------------------------------------------------------------------
(* thread(f): a thread_impl and a thread on a free control block.  Where   *)
(* osThreadNew fails nothing is constructed.                               *)
New(c, h) ==
  /\ Idle(c) /\ Unused(h)
  /\ handle[h] = Null
  /\ \E r \in Runs, b \in Blocks :
       /\ run[r] = "unborn" /\ \A s \in 1 .. r - 1 : run[s] # "unborn"
       /\ tcb[b].state = "free"
       /\ handle' = [handle EXCEPT ![h] = r]
       /\ impl' = [impl EXCEPT ![r].id = b]
       /\ run' = [run EXCEPT ![r] = "running"]
       /\ tcb' = [tcb EXCEPT ![b] = [state |-> "active", run |-> r, joinable |-> TRUE]]
  /\ UNCHANGED <<pc, joining, program>>

(* h = std::move(from), with h a handle that is not joinable; a new handle *)
(* constructed from another is a handle without a thread_impl that is      *)
(* assigned to.                                                            *)
MoveAssign(c, h, from) ==
  /\ Idle(c) /\ Unused(h) /\ Unused(from) /\ h # from
  /\ \/ /\ ~Joinable(h)
        /\ handle' = [handle EXCEPT ![h] = handle[from], ![from] = handle[h]]
        /\ UNCHANGED <<impl, run, tcb, pc, joining, program>>
     \/ Joinable(h) /\ Stop("terminated")

(* join: osThreadJoin frees the block of a thread that has ended already,  *)
(* and else waits for its end.  A thread is refused to join itself.        *)
Join(c, h) ==
  /\ Idle(c) /\ Unused(h) /\ Joinable(h) /\ ~RunsOn(c, impl[handle[h]].id)
  /\ joining' = [joining EXCEPT ![c] = h]
  /\ LET b == impl[handle[h]].id IN
     \/ /\ tcb[b].state = "active"
        /\ pc' = [pc EXCEPT ![c] = "blocked"]
        /\ UNCHANGED tcb
     \/ /\ tcb[b].state = "terminated"
        /\ pc' = [pc EXCEPT ![c] = "woken"]
        /\ tcb' = [tcb EXCEPT ![b] = FreeBlock]
  /\ UNCHANGED <<handle, impl, run, program>>

(* detach: osThreadDetach has a running thread give its block back when it *)
(* ends, and takes the block of a thread that has ended already.           *)
Detach(c, h) ==
  /\ Idle(c) /\ Unused(h) /\ Joinable(h)
  /\ joining' = [joining EXCEPT ![c] = h]
  /\ pc' = [pc EXCEPT ![c] = "detached"]
  /\ LET b == impl[handle[h]].id IN
       tcb' = [tcb EXCEPT ![b] = IF @.state = "active" THEN [@ EXCEPT !.joinable = FALSE]
                                                       ELSE FreeBlock]
  /\ UNCHANGED <<handle, impl, run, program>>

(* The end of both: from here on the handle is not joinable any more. *)
StoreDetached(c) ==
  /\ impl' = [impl EXCEPT ![handle[joining[c]]].detached = TRUE]
  /\ pc' = [pc EXCEPT ![c] = "idle"]
  /\ joining' = [joining EXCEPT ![c] = NoHandle]
  /\ UNCHANGED <<handle, run, tcb, program>>

(* osThreadJoin has returned. *)
JoinReturns(c) == program = "running" /\ pc[c] = "woken" /\ StoreDetached(c)

(* osThreadDetach has returned; since then the detached thread may have    *)
(* ended, and its block be another's.                                      *)
DetachReturns(c) == program = "running" /\ pc[c] = "detached" /\ StoreDetached(c)

(* ~thread: std::terminate if it is joinable, and else ~thread_impl, which *)
(* terminates the thread that m_id refers to by now.                       *)
Destroy(c, h) ==
  /\ Idle(c) /\ Unused(h)
  /\ \/ Joinable(h) /\ Stop("terminated")
     \/ /\ ~Joinable(h) /\ handle[h] # Null
        /\ \/ InTheGap(impl[handle[h]].id) /\ Stop("severed")
           \/ /\ ~InTheGap(impl[handle[h]].id)
              /\ TerminateThread(impl[handle[h]].id)
              /\ handle' = [handle EXCEPT ![h] = Null]
              /\ UNCHANGED <<impl, program>>

Next ==
  \/ \E c \in Threads, h \in Handles :
       \/ New(c, h) \/ Join(c, h) \/ Detach(c, h) \/ Destroy(c, h)
       \/ \E from \in Handles : MoveAssign(c, h, from)
  \/ \E c \in Threads : JoinReturns(c) \/ DetachReturns(c)
  \/ \E b \in Blocks : Exit(b) \/ Throw(b)

Spec == Init /\ [][Next]_vars

(* Every routine that is in no call returns in the end, and a thread whose *)
(* call of the RTOS has returned goes on.                                  *)
Fairness ==
  /\ \A b \in Blocks : WF_vars(Exit(b))
  /\ \A c \in Threads : WF_vars(JoinReturns(c)) /\ WF_vars(DetachReturns(c))

FairSpec == Spec /\ Fairness

-----------------------------------------------------------------------------
(* Handles, thread_impls, control blocks and threads keep their types, and *)
(* a handle never comes into being without a thread.                       *)
TypeOK ==
  /\ handle \in [Handles -> Runs \cup {Null}]
  /\ impl \in [Runs -> [id : Blocks \cup {NoBlock}, detached : BOOLEAN]]
  /\ run \in [Runs -> {"unborn", "running", "finished", "killed"}]
  /\ tcb \in [Blocks -> [state : {"free", "active", "terminated"},
                         run : Runs \cup {Null}, joinable : BOOLEAN]]
  /\ pc \in [Threads -> {"idle", "blocked", "woken", "detached"}]
  /\ joining \in [Threads -> Handles \cup {NoHandle}]
  /\ program \in {"running", "terminated", "severed"}
  /\ \A h \in Handles : handle[h] # Null => impl[handle[h]].id # NoBlock

(* A handle in a join or a detach whose call of the RTOS has returned:     *)
(* joinable() still says true, and its thread is nobody's any more.        *)
GivenUp(h) == \E c \in Threads : joining[c] = h /\ pc[c] \in {"woken", "detached"}

(* The control block a joinable handle refers to runs its own routine, or  *)
(* holds what is left of it, and goes to no other thread, until a join or  *)
(* a detach of that handle has been through the RTOS.  From there to its   *)
(* store the handle says joinable() with a block that others may have got. *)
JoinableIdIsOwn ==
  \A h \in Handles :
    Joinable(h) /\ ~GivenUp(h) => tcb[impl[handle[h]].id].run = handle[h]

(* A thread that nobody can join any more does not keep its block: every   *)
(* block of an ended thread belongs to a joinable handle.                  *)
NoOrphanBlock ==
  \A b \in Blocks :
    tcb[b].state = "terminated" =>
      \E h \in Handles : Joinable(h) /\ impl[handle[h]].id = b /\ handle[h] = tcb[b].run

(* A join returns only when the routine of its own handle has ended,       *)
(* whatever the control block of that routine has been used for since.     *)
JoinedHasEnded ==
  \A c \in Threads : pc[c] = "woken" => run[handle[joining[c]]] \in {"finished", "killed"}

(* No thread waits for its own end, by whatever handle: the comparison of  *)
(* control blocks in join sees to it.  A routine may detach itself.        *)
NobodyJoinsItself ==
  \A r \in Runs, h \in Handles : joining[r] = h /\ pc[r] # "detached" => handle[h] # r

(* A client that joins comes back, if routines return; even where those    *)
(* wait for others, and others for each other in a circle.                 *)
JoinComesBack ==
  \A c \in Clients : pc[c] = "blocked" ~> pc[c] = "idle" \/ program # "running"

(* The thread of a joinable handle, which nobody has joined or detached    *)
(* yet, is left to run to its end: the handle of another thread does not   *)
(* kill it.  It does not hold (Thread.cpp:70).                             *)
JoinableIsNotKilled ==
  \A h \in Handles : Joinable(h) /\ ~GivenUp(h) => run[handle[h]] # "killed"
=============================================================================
