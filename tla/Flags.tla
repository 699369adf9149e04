--------------------------------- MODULE Flags ---------------------------------
(***************************************************************************)
(* Event flags (EventFlag.h and .cpp), the flags of threads (ThreadFlag.h  *)
(* and .cpp), and wait_flag (WaitFlag.h): handles of events that are moved *)
(* and swapped, waits for any or all of some flags, that clear them or do  *)
(* not, and what the code makes of the result of osEventFlagsWait.         *)
(*                                                                         *)
(* Objects with flags are the events and the threads, each of which waits  *)
(* for its own flags only.                                                 *)
(***************************************************************************)
EXTENDS Kernel

CONSTANTS
  Events,   (* the objects of class event                         *)
  Ids,      (* the event flags of the RTOS: what m_id refers to   *)
  NoId,     (* the id of an event that was moved from             *)
  NoEvent,  (* the id of an event that is not constructed         *)
  Bits,     (* the flags                                          *)
  Requests  (* the masks and wait_flags that threads wait with    *)

(* A wait_flag is the set of its bits; "any" is the empty one, and the     *)
(* operators | and & of WaitFlag.h are union and intersection.             *)
WaitFlag == SUBSET {"all", "no_clear"}

ASSUME FlagsAssumption ==
  /\ Ids \cap (Threads \cup {NoId, NoEvent}) = {}
  /\ NoId # NoEvent
  /\ Requests \subseteq [mask : SUBSET Bits, flg : WaitFlag]

VARIABLES
  id,       (* m_id of each event                                          *)
  made,     (* the event flags that the RTOS has                           *)
  flags,    (* the flags that are set                                      *)
  request,  (* what each thread waits for                                  *)
  answer,   (* what osEventFlagsWait returned to it                        *)
  leaked    (* the event flags of constructors that threw                  *)

flagsVars == <<id, made, flags, request, answer, leaked>>

Objects == Ids \cup Threads

NoRequest == [object |-> NoId, mask |-> {}, flg |-> {}, ticks |-> 0]
NoAnswer == [status |-> "none", flags |-> {}]

FlagsInit ==
  /\ id = [e \in Events |-> NoEvent]
  /\ made = {}
  /\ flags = [o \in Objects |-> {}]
  /\ request = [t \in Threads |-> NoRequest]
  /\ answer = [t \in Threads |-> NoAnswer]
  /\ leaked = {}

-----------------------------------------------------------------------------
(* Mutated: the bit for all is not looked for. *)
OptionAny(flg) == [all |-> FALSE, clear |-> "no_clear" \notin flg]

(* The option of a wait. *)
Option(flg) == [all |-> "all" \in flg, clear |-> "no_clear" \notin flg]

Satisfies(set, mask, opt) == IF opt.all THEN mask \subseteq set ELSE mask \cap set # {}

(* What a wait that is satisfied leaves of the flags, for the RTOS and for *)
(* the one who asked for it.                                               *)
Left(set, mask, opt) == IF opt.clear THEN set \ mask ELSE set

Asked(flg) == [all |-> "all" \in flg, clear |-> "no_clear" \notin flg]

Pending == {t \in Threads : answer[t].status = "pending"}

(* osEventFlagsSet wakes every waiter that the flags satisfy before any    *)
(* thread runs again.                                                      *)
Settled ==
  \A t \in Pending :
    ~Satisfies(flags[request[t].object], request[t].mask, Option(request[t].flg))

FlagsReady(t) == Ready(t) /\ Settled

(* The wait of t for the flags of o that it asked for is satisfied. *)
Deliver(t, o, r) ==
  /\ answer' = [answer EXCEPT ![t] = [status |-> "flags", flags |-> flags[o]]]
  /\ flags' = [flags EXCEPT ![o] = Left(@, r.mask, Option(r.flg))]

Wake(t) ==
  /\ t \in Pending
  /\ LET r == request[t] IN
       /\ Satisfies(flags[r.object], r.mask, Option(r.flg))
       /\ Deliver(t, r.object, r)
  /\ UNCHANGED <<id, made, request, leaked, busy, program>>

(* osEventFlagsWait and osThreadFlagsWait; the ticks of wait are 2.  A     *)
(* negative duration is refused before them, and changes no flags.         *)
WaitFlags(t, o, w, ticks) ==
  LET r == [object |-> o, mask |-> w.mask, flg |-> w.flg, ticks |-> ticks] IN
  /\ FlagsReady(t)
  /\ request' = [request EXCEPT ![t] = r]
  /\ busy' = busy \cup {t}
  /\ IF ticks # Negative /\ Satisfies(flags[o], w.mask, Option(w.flg))
     THEN Deliver(t, o, r)
     ELSE /\ answer' = [answer EXCEPT ![t].status =
                          IF ticks = Negative THEN "osErrorParameter"
                          ELSE IF ticks = 0 THEN "osFlagsErrorResource"
                          ELSE IF CanBlock THEN "pending" ELSE "osFlagsErrorTimeout"]
          /\ UNCHANGED flags
  /\ UNCHANGED <<id, made, leaked, program>>

WaitTimeout(t) ==
  /\ Settled /\ t \in Pending /\ request[t].ticks < 2
  /\ answer' = [answer EXCEPT ![t].status = "osFlagsErrorTimeout"]
  /\ UNCHANGED <<id, made, flags, request, leaked, busy, program>>

(* Mutated: a poll that finds nothing is an error. *)
WaitForThrows(ticks, status) ==
  IF status = "osFlagsErrorTimeout" THEN "timeout"
  ELSE IF status = "flags" THEN "no_timeout" ELSE "exception"

(* What event::wait_for_usec and flags::wait_for_usec make of the result,  *)
(* and what event::wait and flags::wait do.                                *)
WaitForResult(ticks, status) ==
  IF (ticks = 0 /\ status = "osFlagsErrorResource") \/ status = "osFlagsErrorTimeout" THEN "timeout"
  ELSE IF status = "flags" THEN "no_timeout" ELSE "exception"

WaitResult(status) == IF status = "flags" THEN "no_timeout" ELSE "exception"

Result(t) ==
  IF request[t].ticks < 2 THEN WaitForResult(request[t].ticks, answer[t].status)
                          ELSE WaitResult(answer[t].status)

WaitReturns(t) ==
  /\ Runs(t) /\ Settled /\ answer[t].status \notin {"none", "pending"}
  /\ request' = [request EXCEPT ![t] = NoRequest]
  /\ answer' = [answer EXCEPT ![t] = NoAnswer]
  /\ busy' = busy \ {t}
  /\ UNCHANGED <<id, made, flags, leaked, program>>

SetFlags(t, o, mask) ==
  /\ FlagsReady(t)
  /\ flags' = [flags EXCEPT ![o] = @ \cup mask]
  /\ UNCHANGED <<id, made, request, answer, leaked, busy, program>>

ClearFlags(t, o, mask) ==
  /\ FlagsReady(t)
  /\ flags' = [flags EXCEPT ![o] = @ \ mask]
  /\ UNCHANGED <<id, made, request, answer, leaked, busy, program>>

-----------------------------------------------------------------------------
(* event::event, with the flags that are set first. *)
EventNew(t, e, mask) ==
  /\ FlagsReady(t) /\ id[e] = NoEvent
  /\ \E i \in Ids \ made :
       /\ id' = [id EXCEPT ![e] = i]
       /\ made' = made \cup {i}
       /\ flags' = [flags EXCEPT ![i] = mask]
  /\ UNCHANGED <<request, answer, leaked, busy, program>>

(* A mask with a flag that does not exist is refused when it is set, after the event   *)
(* flags were made.                                                        *)
EventNewThrows(t, e) ==
  /\ FlagsReady(t) /\ id[e] = NoEvent
  /\ \E i \in Ids \ made : made' = made \cup {i} /\ leaked' = leaked \cup {i}
  /\ UNCHANGED <<id, flags, request, answer, busy, program>>

(* Nobody is in a call of an event that is moved or destroyed. *)
Unwatched(e) == \A t \in Threads : request[t].object \notin Ids \cap {id[e]}

(* Mutated: the event that is moved from keeps its id. *)
MoveKeeps(t, e, from) ==
  /\ FlagsReady(t) /\ id[e] = NoEvent /\ id[from] # NoEvent /\ Unwatched(from)
  /\ id' = [id EXCEPT ![e] = id[from]]
  /\ UNCHANGED <<made, flags, request, answer, leaked, busy, program>>

(* event::event(event&&): an event without an id is swapped with another. *)
EventMove(t, e, from) ==
  /\ FlagsReady(t) /\ id[e] = NoEvent /\ id[from] # NoEvent /\ Unwatched(from)
  /\ id' = [id EXCEPT ![e] = id[from], ![from] = NoId]
  /\ UNCHANGED <<made, flags, request, answer, leaked, busy, program>>

(* event::swap, and operator=, which is a swap. *)
EventSwap(t, e, from) ==
  /\ FlagsReady(t) /\ NoEvent \notin {id[e], id[from]}
  /\ Unwatched(e) /\ Unwatched(from)
  /\ id' = [id EXCEPT ![e] = id[from], ![from] = id[e]]
  /\ UNCHANGED <<made, flags, request, answer, leaked, busy, program>>

(* event::~event *)
EventDestroy(t, e) ==
  /\ FlagsReady(t) /\ id[e] # NoEvent /\ Unwatched(e)
  /\ made' = made \ {id[e]}
  /\ id' = [id EXCEPT ![e] = NoEvent]
  /\ flags' = [o \in Objects |-> IF o = id[e] THEN {} ELSE flags[o]]
  /\ UNCHANGED <<request, answer, leaked, busy, program>>

(* event::set, clear, wait and wait_for; an event without an id throws. *)
EventSet(t, e, mask) == id[e] \in Ids /\ SetFlags(t, id[e], mask)
EventClear(t, e, mask) == id[e] \in Ids /\ ClearFlags(t, id[e], mask)
EventWait(t, e, w) == id[e] \in Ids /\ WaitFlags(t, id[e], w, 2)
EventWaitFor(t, e, w) == id[e] \in Ids /\ \E ticks \in {Negative, 0, 1} : WaitFlags(t, id[e], w, ticks)

(* thread_flags::set of any thread; this_thread::flags::set, clear, wait   *)
(* and wait_for.                                                           *)
ThreadFlagsSet(t, u, mask) == u \in alive /\ SetFlags(t, u, mask)
ThreadFlagsClear(t, mask) == ClearFlags(t, t, mask)
ThreadFlagsWait(t, w) == WaitFlags(t, t, w, 2)
ThreadFlagsWaitFor(t, w) == \E ticks \in {Negative, 0, 1} : WaitFlags(t, t, w, ticks)

Masks == SUBSET Bits \ {{}}

(* A wait of a thread goes on. *)
FlagsGoOn(t) == Wake(t) \/ WaitTimeout(t) \/ WaitReturns(t)

EventsNext ==
  \E t \in Threads :
    \/ FlagsGoOn(t)
    \/ \E e \in Events :
         \/ \E mask \in SUBSET Bits : EventNew(t, e, mask)
         \/ EventNewThrows(t, e)
         \/ \E from \in Events : EventMove(t, e, from) \/ EventSwap(t, e, from)
         \/ EventDestroy(t, e)
         \/ \E mask \in Masks : EventSet(t, e, mask) \/ EventClear(t, e, mask)
         \/ \E w \in Requests : EventWait(t, e, w) \/ EventWaitFor(t, e, w)

ThreadFlagsNext ==
  \E t \in Threads :
    \/ FlagsGoOn(t)
    \/ \E mask \in Masks :
         ThreadFlagsClear(t, mask) \/ \E u \in Threads : ThreadFlagsSet(t, u, mask)
    \/ \E w \in Requests : ThreadFlagsWait(t, w) \/ ThreadFlagsWaitFor(t, w)

-----------------------------------------------------------------------------
FlagsTypeOK ==
  /\ id \in [Events -> Ids \cup {NoId, NoEvent}]
  /\ made \subseteq Ids
  /\ flags \in [Objects -> SUBSET Bits]
  /\ request \in [Threads -> [object : Objects \cup {NoId}, mask : SUBSET Bits,
                              flg : WaitFlag, ticks : Ticks]]
  /\ answer \in [Threads -> [status : {"none", "pending", "flags", "osFlagsErrorResource",
                                       "osFlagsErrorTimeout", "osErrorParameter"}, flags : SUBSET Bits]]
  /\ leaked \subseteq Ids

(* A wait that says it has its flags has those its caller asked for, all   *)
(* or any of them; one that does not say so has consumed none; and one     *)
(* with a time throws just if the time is negative, and else says which,   *)
(* also in a kernel that is locked and where it polled.  Waits of flags    *)
(* that exist, for an event with an id.                                    *)
Answered(t) == answer[t].status \notin {"none", "pending"}

WaitsTellTheTruth ==
  \A t \in Threads : Answered(t) =>
    /\ Result(t) = "no_timeout" =>
         Satisfies(answer[t].flags, request[t].mask, Asked(request[t].flg))
    /\ Result(t) # "no_timeout" => answer[t].flags = {}
    /\ request[t].ticks # 2 => (Result(t) = "exception" <=> request[t].ticks = Negative)

(* Every event flags object of the RTOS has one handle, but for those of   *)
(* constructors that threw, and every handle that is not empty has one:    *)
(* moves and swaps lose none and share none.                               *)
OneHandleEach ==
  /\ \A i \in made \ leaked : \E e \in Events : id[e] = i
  /\ \A e \in Events : id[e] \in Ids => id[e] \in made
  /\ \A e, f \in Events : id[e] = id[f] /\ id[e] \in Ids => e = f
=============================================================================
