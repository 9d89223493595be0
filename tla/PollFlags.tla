----------------------------- MODULE PollFlags -----------------------------
(***************************************************************************)
(* The interrupt_flag / poll_flag protocol of an execution context.        *)
(*                                                                         *)
(* interrupt_flag asks the interpreter to yield; poll_flag is the summary  *)
(* that the POLL instruction tests.  Any thread may request an interrupt   *)
(* while the interpreter clears both flags, and every access is a relaxed  *)
(* atomic (WAH_POLL_FLAG_LOAD / _STORE), ordered only by the two           *)
(* WAH_POLL_FLAG_FENCEs.  Each thread therefore has a store buffer with    *)
(* one FIFO queue per flag: stores of one thread to different flags become *)
(* visible in any order, a thread reads its own latest store, and a fence  *)
(* waits until the thread's own queues are empty.                          *)
(*                                                                         *)
(* The interpreter is one thread; GC requests come from that same thread.  *)
(***************************************************************************)
EXTENDS Naturals, Sequences

CONSTANTS Requesters,  \* threads that call wah_request_interrupt
          Interp,      \* the thread that runs the context
          BufCap       \* bound: stores of one thread to one flag in flight

ASSUME PollFlagsAssumption ==
    /\ Interp \notin Requesters
    /\ BufCap \in Nat \ {0}

VARIABLES mem,        \* the two flags as every thread can see them
          buf,        \* stores not yet visible, per thread and flag
          pc,         \* next step of each thread
          ret,        \* where the interpreter goes after a recompute
          gc_pending  \* gc->gc_pending, private to the interpreter thread

pollVars == <<mem, buf, pc, ret, gc_pending>>

Flags   == {"interrupt_flag", "poll_flag"}
Bit     == {0, 1}
Threads == Requesters \cup {Interp}

InterpPC  == {"run", "handler", "gc_step", "clear", "recompute",
              "recompute_fence", "recompute_check", "host", "fence", "poll"}
RequestPC == {"idle", "fence", "poll"}
RetPC     == {"run", "host"}
-----------------------------------------------------------------------------
(* WAH_POLL_FLAG_LOAD: a thread sees its own newest store to the flag. *)
Load(t, f) == LET q == buf[t][f] IN IF q = <<>> THEN mem[f] ELSE q[Len(q)]

(* WAH_POLL_FLAG_STORE: the store enters the thread's queue of the flag. *)
Store(t, f, v) ==
    /\ Len(buf[t][f]) < BufCap
    /\ buf' = [buf EXCEPT ![t][f] = Append(@, v)]

(* WAH_POLL_FLAG_FENCE: earlier stores of the thread are all visible. *)
Fence(t) == \A f \in Flags : buf[t][f] = <<>>

(* The oldest store of a queue becomes visible to the other threads. *)
Flush(t, f) ==
    /\ buf[t][f] # <<>>
    /\ mem' = [mem EXCEPT ![f] = Head(buf[t][f])]
    /\ buf' = [buf EXCEPT ![t][f] = Tail(@)]
    /\ UNCHANGED <<pc, ret, gc_pending>>

Goto(t, l) == pc' = [pc EXCEPT ![t] = l]
-----------------------------------------------------------------------------
(* wah_request_interrupt, by another thread, by the timer, or by a host    *)
(* function that the interpreter thread is running.                        *)
Home(t) == IF t = Interp THEN "run" ELSE "idle"

RequestInterrupt(t) ==
    /\ pc[t] = Home(t)
    /\ Store(t, "interrupt_flag", 1)
    /\ Goto(t, "fence")
    /\ UNCHANGED <<mem, ret, gc_pending>>

(* Mistake: the flags are set without a fence between them. *)
RequestFenceDropped(t) ==
    /\ pc[t] = "fence"
    /\ Goto(t, "poll")
    /\ UNCHANGED <<mem, buf, ret, gc_pending>>

RequestFence(t) ==
    /\ pc[t] = "fence"
    /\ Fence(t)
    /\ Goto(t, "poll")
    /\ UNCHANGED <<mem, buf, ret, gc_pending>>

RequestPoll(t) ==
    /\ pc[t] = "poll"
    /\ Store(t, "poll_flag", 1)
    /\ Goto(t, Home(t))
    /\ UNCHANGED <<mem, ret, gc_pending>>
-----------------------------------------------------------------------------
(* POLL: wah_poll_handler is entered only when poll_flag is seen set. *)
Poll ==
    /\ pc[Interp] = "run"
    /\ IF Load(Interp, "poll_flag") = 1 THEN Goto(Interp, "handler") ELSE UNCHANGED pc
    /\ UNCHANGED <<mem, buf, ret, gc_pending>>

(* wah_poll_handler: an interrupt goes before a pending collection. *)
Handler ==
    /\ pc[Interp] = "handler"
    /\ IF Load(Interp, "interrupt_flag") = 1
         THEN Goto(Interp, "clear") /\ ret' = "host"
         ELSE Goto(Interp, "gc_step") /\ ret' = "run"
    /\ UNCHANGED <<mem, buf, gc_pending>>

(* The pending collection runs; it allocates nothing that sets it again. *)
GcStep ==
    /\ pc[Interp] = "gc_step"
    /\ gc_pending' = FALSE
    /\ Goto(Interp, "recompute")
    /\ UNCHANGED <<mem, buf, ret>>

(* TICK and the bulk operations test interrupt_flag directly. *)
Tick ==
    /\ pc[Interp] = "run"
    /\ Load(Interp, "interrupt_flag") = 1
    /\ Goto(Interp, "clear")
    /\ ret' = "host"
    /\ UNCHANGED <<mem, buf, gc_pending>>

(* wah_cancel_internal and wah_instantiate drop a pending interrupt while  *)
(* no code of the context runs.                                            *)
CancelInternal ==
    /\ pc[Interp] = "host"
    /\ Goto(Interp, "clear")
    /\ ret' = "host"
    /\ UNCHANGED <<mem, buf, gc_pending>>

ConsumeInterrupt ==
    /\ pc[Interp] = "clear"
    /\ Store(Interp, "interrupt_flag", 0)
    /\ Goto(Interp, "recompute")
    /\ UNCHANGED <<mem, ret, gc_pending>>

(* Mistake: a pending collection is forgotten. *)
RecomputeNoGc ==
    /\ pc[Interp] = "recompute"
    /\ Store(Interp, "poll_flag", 0)
    /\ Goto(Interp, "recompute_fence")
    /\ UNCHANGED <<mem, ret, gc_pending>>

(* wah_recompute_poll_flag, first store. *)
Recompute ==
    /\ pc[Interp] = "recompute"
    /\ Store(Interp, "poll_flag", IF gc_pending THEN 1 ELSE 0)
    /\ Goto(Interp, IF gc_pending THEN ret ELSE "recompute_fence")
    /\ UNCHANGED <<mem, ret, gc_pending>>

RecomputeFence ==
    /\ pc[Interp] = "recompute_fence"
    /\ Fence(Interp)
    /\ Goto(Interp, "recompute_check")
    /\ UNCHANGED <<mem, buf, ret, gc_pending>>

(* Mistake: interrupt_flag is not looked at again. *)
RecomputeCheckDropped ==
    /\ pc[Interp] = "recompute_check"
    /\ Goto(Interp, ret)
    /\ UNCHANGED <<mem, buf, ret, gc_pending>>

(* wah_recompute_poll_flag checks again after clearing. *)
RecomputeCheck ==
    /\ pc[Interp] = "recompute_check"
    /\ IF Load(Interp, "interrupt_flag") = 1
         THEN Store(Interp, "poll_flag", 1) ELSE UNCHANGED buf
    /\ Goto(Interp, ret)
    /\ UNCHANGED <<mem, ret, gc_pending>>

(* The activation returned to the host, which starts or resumes one. *)
ResumeInternal ==
    /\ pc[Interp] = "host"
    /\ Goto(Interp, "run")
    /\ UNCHANGED <<mem, buf, ret, gc_pending>>

(* The activation finishes, traps or runs out of fuel. *)
ResumeReturns ==
    /\ pc[Interp] = "run"
    /\ Goto(Interp, "host")
    /\ UNCHANGED <<mem, buf, ret, gc_pending>>

(* wah_gc_alloc crossing the allocation threshold. *)
GcAlloc ==
    /\ pc[Interp] = "run"
    /\ gc_pending' = TRUE
    /\ Store(Interp, "poll_flag", 1)
    /\ UNCHANGED <<mem, pc, ret>>
-----------------------------------------------------------------------------
PollInit ==
    /\ mem = [f \in Flags |-> 0]
    /\ buf = [t \in Threads |-> [f \in Flags |-> <<>>]]
    /\ pc = [t \in Threads |-> IF t = Interp THEN "host" ELSE "idle"]
    /\ ret = "host"
    /\ gc_pending = FALSE

InterpStep == \/ Poll \/ Handler \/ GcStep \/ Tick \/ CancelInternal \/ ConsumeInterrupt
              \/ Recompute \/ RecomputeFence \/ RecomputeCheck \/ ResumeInternal \/ ResumeReturns \/ GcAlloc

RequestStep(t) == RequestInterrupt(t) \/ RequestFence(t) \/ RequestPoll(t)

PollNext ==
    \/ InterpStep
    \/ \E t \in Threads : RequestStep(t)
    \/ \E t \in Threads, f \in Flags : Flush(t, f)

(* Stores become visible eventually, a thread inside a call keeps going,   *)
(* the host keeps resuming or starting code, and running code keeps        *)
(* reaching POLLs: every loop and every call of lowered code has one.      *)
(* Nobody is obliged to request an interrupt.                              *)
PollFairness ==
    /\ \A t \in Threads, f \in Flags : WF_pollVars(Flush(t, f))
    /\ \A t \in Threads : WF_pollVars(RequestFence(t)) /\ WF_pollVars(RequestPoll(t))
    /\ WF_pollVars(Handler) /\ WF_pollVars(GcStep) /\ WF_pollVars(ConsumeInterrupt)
    /\ WF_pollVars(Recompute) /\ WF_pollVars(RecomputeFence) /\ WF_pollVars(RecomputeCheck)
    /\ SF_pollVars(ResumeInternal)
    /\ SF_pollVars(Poll)

PollSpec == PollInit /\ [][PollNext]_pollVars /\ PollFairness
-----------------------------------------------------------------------------
PollTypeOK ==
    /\ mem \in [Flags -> Bit]
    /\ buf \in [Threads -> [Flags -> Seq(Bit)]]
    /\ pc \in [Threads -> InterpPC \cup RequestPC]
    /\ pc[Interp] \in InterpPC
    /\ \A t \in Requesters : pc[t] \in RequestPC
    /\ ret \in RetPC
    /\ gc_pending \in BOOLEAN

(* No thread is inside the protocol and every store is visible. *)
Quiescent ==
    /\ pc[Interp] \in RetPC
    /\ \A t \in Requesters : pc[t] = "idle"
    /\ \A t \in Threads : Fence(t)

(* The promise of the comment above wah_recompute_poll_flag: whatever the  *)
(* interleaving of a request with the interpreter's clear, once nobody is  *)
(* inside the protocol a requested interrupt and a pending collection are  *)
(* visible in poll_flag, so that the next POLL cannot miss them.           *)
NoLostRequest ==
    Quiescent /\ (mem["interrupt_flag"] = 1 \/ gc_pending) => mem["poll_flag"] = 1

(* A visible interrupt is eventually consumed by code that only polls:     *)
(* wah_request_interrupt makes the interpreter yield at a POLL point.      *)
InterruptConsumed == mem["interrupt_flag"] = 1 ~> mem["interrupt_flag"] = 0

(* A pending collection is eventually run by code that keeps polling,      *)
(* provided interrupts cease at some point: wah_poll_handler serves an     *)
(* interrupt first, so a request before every POLL postpones it forever.   *)
CollectionRuns ==
    <>[](mem["interrupt_flag"] = 0) => (gc_pending ~> ~gc_pending)
=============================================================================
