-------------------------- MODULE InterruptProofs --------------------------
(***************************************************************************)
(* Proofs about what interrupts running code.  PollFlags, for every set of *)
(* requesting threads and every size of the store queues: no request is    *)
(* lost, whatever the order in which the stores of the threads become      *)
(* visible.  DeadlineTimer, for every deadline and every number of         *)
(* armings: the budget of wah_set_limits is charged exactly, and the timer *)
(* thread interrupts nothing but the activation it was armed for.          *)
(***************************************************************************)
EXTENDS PollFlags, DeadlineTimer, SequenceTheorems, TLAPS

-----------------------------------------------------------------------------
(* PollFlags *)

(* A store of v waits in the queue q. *)
Holds(q, v) == \E i \in 1..Len(q) : q[i] = v

(* Only the interpreter thread ever clears a flag. *)
RequestersSet == \A t \in Requesters, f \in Flags : ~Holds(buf[t][f], 0)

(* A thread does not pass the fence of wah_request_interrupt while its     *)
(* interrupt_flag store is still on its way.                               *)
RequestOrdered == \A t \in Threads : Holds(buf[t]["interrupt_flag"], 1) => pc[t] = "fence"

(* The cleared poll_flag of wah_recompute_poll_flag is on its way only     *)
(* until the fence, after which interrupt_flag is read from memory.        *)
ClearOrdered ==
    /\ pc[Interp] # "recompute_fence" => ~Holds(buf[Interp]["poll_flag"], 0)
    /\ pc[Interp] = "recompute_check" => Fence(Interp)

(* A pending collection is announced, and nothing withdraws it. *)
CollectionAnnounced ==
    gc_pending =>
        /\ pc[Interp] \notin {"recompute_fence", "recompute_check"}
        /\ mem["poll_flag"] = 1 \/ buf[Interp]["poll_flag"] # <<>>

(* A visible interrupt is announced by poll_flag, or a thread is at a step *)
(* from which it still sets poll_flag or looks at interrupt_flag again.    *)
InterruptAnnounced ==
    mem["interrupt_flag"] = 1 =>
        \/ pc[Interp] \in {"clear", "recompute", "recompute_fence", "recompute_check"}
        \/ mem["poll_flag"] = 1
        \/ \E t \in Threads : buf[t]["poll_flag"] # <<>>
        \/ \E t \in Threads : pc[t] \in {"fence", "poll"}

PollInv == /\ PollTypeOK /\ RequestersSet /\ RequestOrdered /\ ClearOrdered
           /\ CollectionAnnounced /\ InterruptAnnounced
-----------------------------------------------------------------------------
(* An empty queue holds nothing. *)
LEMMA EmptyHolds == \A v : ~Holds(<<>>, v)
  BY EmptySeq DEF Holds

(* Store puts one more value into a queue. *)
LEMMA AppendHolds ==
    ASSUME NEW q \in Seq(Bit), NEW v \in Bit
    PROVE  /\ Append(q, v) \in Seq(Bit)
           /\ Append(q, v) # <<>>
           /\ \A w : Holds(Append(q, v), w) => Holds(q, w) \/ w = v
  BY AppendProperties DEF Holds

(* Flush takes the oldest value out of a queue. *)
LEMMA TailHolds ==
    ASSUME NEW q \in Seq(Bit), q # <<>>
    PROVE  /\ Head(q) \in Bit
           /\ Tail(q) \in Seq(Bit)
           /\ Holds(q, Head(q))
           /\ \A w : Holds(Tail(q), w) => Holds(q, w)
  <1>1. /\ Head(q) = q[1] /\ Head(q) \in Bit
        /\ Tail(q) \in Seq(Bit) /\ Len(q) \in Nat \ {0} /\ Len(Tail(q)) = Len(q) - 1
        /\ \A i \in 1..(Len(q) - 1) : Tail(q)[i] = q[i + 1]
    <2>1. Len(q) \in Nat /\ Len(q) # 0
      BY EmptySeq, LenProperties
    <2> QED
      BY <2>1, HeadTailProperties, ElementOfSeq
  <1>2. Holds(q, Head(q))
    <2>1. 1 \in 1..Len(q)
      BY <1>1
    <2> QED
      BY <1>1, <2>1 DEF Holds
  <1>3. ASSUME NEW w, Holds(Tail(q), w) PROVE Holds(q, w)
    <2>1. PICK i \in 1..(Len(q) - 1) : Tail(q)[i] = w
      BY <1>1, <1>3 DEF Holds
    <2>2. i + 1 \in 1..Len(q) /\ q[i + 1] = w
      BY <1>1, <2>1
    <2> QED
      BY <2>2 DEF Holds
  <1> QED
    BY <1>1, <1>2, <1>3
-----------------------------------------------------------------------------
(* WAH_POLL_FLAG_STORE leaves every other queue alone. *)
LEMMA StoreFacts ==
    ASSUME PollTypeOK, NEW t \in Threads, NEW f \in Flags, NEW v \in Bit, Store(t, f, v)
    PROVE  /\ buf' \in [Threads -> [Flags -> Seq(Bit)]]
           /\ buf'[t][f] # <<>>
           /\ \A w : Holds(buf'[t][f], w) => Holds(buf[t][f], w) \/ w = v
           /\ \A u \in Threads, g \in Flags : u # t \/ g # f => buf'[u][g] = buf[u][g]
  <1>1. buf[t][f] \in Seq(Bit)
    BY DEF PollTypeOK
  <1>2. buf' = [buf EXCEPT ![t][f] = Append(buf[t][f], v)]
    BY DEF Store
  <1>3. buf'[t][f] = Append(buf[t][f], v)
    BY <1>2 DEF PollTypeOK
  <1>4. Append(buf[t][f], v) \in Seq(Bit)
    BY <1>1, AppendHolds
  <1> QED
    BY <1>1, <1>2, <1>3, <1>4, AppendHolds DEF PollTypeOK

(* A store that becomes visible is taken from the front of its queue. *)
LEMMA FlushFacts ==
    ASSUME PollTypeOK, NEW t \in Threads, NEW f \in Flags, Flush(t, f)
    PROVE  /\ mem' \in [Flags -> Bit]
           /\ buf' \in [Threads -> [Flags -> Seq(Bit)]]
           /\ Holds(buf[t][f], mem'[f])
           /\ \A g \in Flags : g # f => mem'[g] = mem[g]
           /\ \A w : Holds(buf'[t][f], w) => Holds(buf[t][f], w)
           /\ \A u \in Threads, g \in Flags : u # t \/ g # f => buf'[u][g] = buf[u][g]
           /\ UNCHANGED <<pc, ret, gc_pending>>
  <1>1. buf[t][f] \in Seq(Bit) /\ buf[t][f] # <<>>
    BY DEF PollTypeOK, Flush
  <1>2. /\ buf' = [buf EXCEPT ![t][f] = Tail(buf[t][f])]
        /\ mem' = [mem EXCEPT ![f] = Head(buf[t][f])]
        /\ UNCHANGED <<pc, ret, gc_pending>>
    BY DEF Flush
  <1>3. buf'[t][f] = Tail(buf[t][f]) /\ mem'[f] = Head(buf[t][f])
    BY <1>2 DEF PollTypeOK
  <1>4. Tail(buf[t][f]) \in Seq(Bit) /\ Head(buf[t][f]) \in Bit
    BY <1>1, TailHolds
  <1> QED
    BY <1>1, <1>2, <1>3, <1>4, TailHolds DEF PollTypeOK

(* The initial flags are clear and no store is on its way. *)
LEMMA PollInitInv == PollInit => PollInv
  <1> SUFFICES ASSUME PollInit PROVE PollInv
    OBVIOUS
  <1>1. /\ Interp \in Threads /\ \A t \in Requesters : t \in Threads /\ t # Interp
        /\ "interrupt_flag" \in Flags /\ "poll_flag" \in Flags
    BY PollFlagsAssumption DEF Threads, Flags
  <1>2. \A t \in Threads, f \in Flags : buf[t][f] = <<>> /\ mem[f] = 0
    BY DEF PollInit
  <1>3. PollTypeOK
    <2>1. buf \in [Threads -> [Flags -> Seq(Bit)]]
      BY EmptySeq DEF PollInit
    <2> QED
      BY <1>1, <2>1 DEF PollInit, PollTypeOK, Bit, InterpPC, RequestPC, RetPC
  <1>4. \A t \in Threads, f \in Flags : \A v : ~Holds(buf[t][f], v)
    BY <1>2, EmptyHolds
  <1>5. RequestersSet /\ RequestOrdered /\ ClearOrdered
    BY <1>1, <1>2, <1>4 DEF RequestersSet, RequestOrdered, ClearOrdered, Fence
  <1>6. CollectionAnnounced /\ InterruptAnnounced
    BY <1>1, <1>2 DEF PollInit, CollectionAnnounced, InterruptAnnounced
  <1> QED
    BY <1>3, <1>5, <1>6 DEF PollInv
-----------------------------------------------------------------------------
(* A store that becomes visible preserves the invariant. *)
LEMMA FlushInv ==
    ASSUME PollInv, NEW t \in Threads, NEW f \in Flags, Flush(t, f)
    PROVE  PollInv'
  <1>0. PollTypeOK
    BY DEF PollInv
  <1>1. /\ mem' \in [Flags -> Bit]
        /\ buf' \in [Threads -> [Flags -> Seq(Bit)]]
        /\ Holds(buf[t][f], mem'[f])
        /\ \A g \in Flags : g # f => mem'[g] = mem[g]
        /\ \A w : Holds(buf'[t][f], w) => Holds(buf[t][f], w)
        /\ \A u \in Threads, g \in Flags : u # t \/ g # f => buf'[u][g] = buf[u][g]
        /\ UNCHANGED <<pc, ret, gc_pending>>
    BY <1>0, FlushFacts
  <1>2. buf[t][f] # <<>>
    BY DEF Flush
  <1>3. \A u \in Threads, g \in Flags : \A w : Holds(buf'[u][g], w) => Holds(buf[u][g], w)
    BY <1>1
  <1>4. Interp \in Threads /\ \A u \in Requesters : u \in Threads
    BY DEF Threads
  <1>5. PollTypeOK'
    BY <1>0, <1>1 DEF PollTypeOK
  <1>6. RequestersSet' /\ RequestOrdered'
    BY <1>1, <1>3, <1>4 DEF PollInv, RequestersSet, RequestOrdered, Flags
  <1>7. ClearOrdered'
    <2>1. pc[Interp] = "recompute_check" => \A g \in Flags : buf'[Interp][g] = <<>>
      BY <1>1, <1>2, <1>4 DEF PollInv, ClearOrdered, Fence
    <2> QED
      BY <1>1, <1>3, <1>4, <2>1 DEF PollInv, ClearOrdered, Fence, Flags
  (* A poll_flag store that clears is the interpreter's, at the fence. *)
  <1>8. f = "poll_flag" /\ pc[Interp] # "recompute_fence" => mem'["poll_flag"] = 1
    BY <1>1 DEF PollInv, RequestersSet, ClearOrdered, Threads, Flags, Bit
  <1>9. f # "poll_flag" => /\ mem'["poll_flag"] = mem["poll_flag"]
                          /\ \A u \in Threads : buf'[u]["poll_flag"] = buf[u]["poll_flag"]
    BY <1>1 DEF Flags
  <1>10. CollectionAnnounced'
    BY <1>1, <1>4, <1>8, <1>9 DEF PollInv, CollectionAnnounced
  (* An interrupt that becomes visible is that of a thread at its fence. *)
  <1>11. f = "interrupt_flag" /\ mem'["interrupt_flag"] = 1 => pc[t] = "fence"
    BY <1>1 DEF PollInv, RequestOrdered, Flags
  <1>12. f # "interrupt_flag" => mem'["interrupt_flag"] = mem["interrupt_flag"]
    BY <1>1 DEF Flags
  <1>13. InterruptAnnounced'
    BY <1>1, <1>8, <1>9, <1>11, <1>12 DEF PollInv, InterruptAnnounced
  <1> QED
    BY <1>5, <1>6, <1>7, <1>10, <1>13 DEF PollInv

(* The steps of wah_request_interrupt preserve the invariant. *)
LEMMA RequestInv ==
    ASSUME PollInv, NEW t \in Threads, RequestStep(t)
    PROVE  PollInv'
  <1>0. /\ PollTypeOK /\ 1 \in Bit
        /\ Interp \in Threads /\ \A u \in Requesters : u \in Threads /\ u # Interp
        /\ "interrupt_flag" \in Flags /\ "poll_flag" \in Flags
    BY PollFlagsAssumption DEF PollInv, Threads, Flags, Bit
  <1>1. CASE RequestInterrupt(t)
    <2>1. /\ pc[t] = Home(t)
          /\ pc' = [pc EXCEPT ![t] = "fence"]
          /\ UNCHANGED <<mem, ret, gc_pending>>
          /\ Store(t, "interrupt_flag", 1)
      BY <1>1 DEF RequestInterrupt, Goto
    <2>2. /\ buf' \in [Threads -> [Flags -> Seq(Bit)]]
          /\ \A w : Holds(buf'[t]["interrupt_flag"], w) => Holds(buf[t]["interrupt_flag"], w) \/ w = 1
          /\ \A u \in Threads, g \in Flags : u # t \/ g # "interrupt_flag" => buf'[u][g] = buf[u][g]
      BY <1>0, <2>1, StoreFacts
    <2>3. PollTypeOK'
      BY <1>0, <2>1, <2>2 DEF PollTypeOK, InterpPC, RequestPC
    <2>4. RequestersSet' /\ RequestOrdered'
      <3>1. ASSUME NEW u \in Requesters, NEW g \in Flags PROVE ~Holds(buf'[u][g], 0)
        BY <1>0, <2>2, 0 # 1 DEF PollInv, RequestersSet
      <3>2. ASSUME NEW u \in Threads, Holds(buf'[u]["interrupt_flag"], 1) PROVE pc'[u] = "fence"
        BY <1>0, <2>1, <2>2, <3>2 DEF PollInv, PollTypeOK, RequestOrdered
      <3> QED
        BY <3>1, <3>2 DEF RequestersSet, RequestOrdered
    <2>5. t = Interp => pc[Interp] = "run"
      BY <2>1 DEF Home
    <2>6. ClearOrdered' /\ CollectionAnnounced'
      <3>1. \A u \in Threads : buf'[u]["poll_flag"] = buf[u]["poll_flag"]
        BY <1>0, <2>2
      <3>2. pc'[Interp] \in {"recompute_fence", "recompute_check"} => pc'[Interp] = pc[Interp] /\ t # Interp
        BY <1>0, <2>1 DEF PollTypeOK
      <3>3. t # Interp => pc'[Interp] = pc[Interp] /\ \A g \in Flags : buf'[Interp][g] = buf[Interp][g]
        BY <1>0, <2>1, <2>2 DEF PollTypeOK
      <3> QED
        BY <1>0, <2>1, <2>5, <3>1, <3>2, <3>3 DEF PollInv, ClearOrdered, CollectionAnnounced, Fence
    <2>7. InterruptAnnounced'
      BY <1>0, <2>1 DEF PollTypeOK, InterruptAnnounced
    <2> QED
      BY <2>3, <2>4, <2>6, <2>7 DEF PollInv
  <1>2. CASE RequestFence(t)
    <2>1. /\ pc[t] = "fence" /\ Fence(t)
          /\ pc' = [pc EXCEPT ![t] = "poll"]
          /\ UNCHANGED <<mem, buf, ret, gc_pending>>
      BY <1>2 DEF RequestFence, Goto
    <2>2. PollTypeOK'
      BY <1>0, <2>1 DEF PollTypeOK, InterpPC, RequestPC
    <2>3. ~Holds(buf[t]["interrupt_flag"], 1)
      BY <1>0, <2>1, EmptyHolds DEF Fence
    <2>4. RequestersSet' /\ RequestOrdered'
      BY <1>0, <2>1, <2>3 DEF PollInv, PollTypeOK, RequestersSet, RequestOrdered
    <2>5. ClearOrdered' /\ CollectionAnnounced'
      BY <1>0, <2>1 DEF PollInv, PollTypeOK, ClearOrdered, CollectionAnnounced, Fence
    <2>6. InterruptAnnounced'
      BY <1>0, <2>1 DEF PollTypeOK, InterruptAnnounced
    <2> QED
      BY <2>2, <2>4, <2>5, <2>6 DEF PollInv
  <1>3. CASE RequestPoll(t)
    <2>1. /\ pc[t] = "poll"
          /\ pc' = [pc EXCEPT ![t] = Home(t)]
          /\ UNCHANGED <<mem, ret, gc_pending>>
          /\ Store(t, "poll_flag", 1)
      BY <1>3 DEF RequestPoll, Goto
    <2>2. /\ buf' \in [Threads -> [Flags -> Seq(Bit)]]
          /\ buf'[t]["poll_flag"] # <<>>
          /\ \A w : Holds(buf'[t]["poll_flag"], w) => Holds(buf[t]["poll_flag"], w) \/ w = 1
          /\ \A u \in Threads, g \in Flags : u # t \/ g # "poll_flag" => buf'[u][g] = buf[u][g]
      BY <1>0, <2>1, StoreFacts
    <2>3. PollTypeOK'
      BY <1>0, <2>1, <2>2 DEF PollTypeOK, InterpPC, RequestPC, Home
    <2>4. RequestersSet' /\ RequestOrdered'
      <3>1. ASSUME NEW u \in Requesters, NEW g \in Flags PROVE ~Holds(buf'[u][g], 0)
        BY <1>0, <2>2, 0 # 1 DEF PollInv, RequestersSet
      <3>2. ASSUME NEW u \in Threads, Holds(buf'[u]["interrupt_flag"], 1) PROVE pc'[u] = "fence"
        BY <1>0, <2>1, <2>2, <3>2 DEF PollInv, PollTypeOK, RequestOrdered
      <3> QED
        BY <3>1, <3>2 DEF RequestersSet, RequestOrdered
    <2>5. ClearOrdered' /\ CollectionAnnounced'
      <3>1. t = Interp => pc'[Interp] = "run"
        BY <1>0, <2>1 DEF PollTypeOK, Home
      <3>2. t # Interp => pc'[Interp] = pc[Interp] /\ \A g \in Flags : buf'[Interp][g] = buf[Interp][g]
        BY <1>0, <2>1, <2>2 DEF PollTypeOK
      <3>3. ~Holds(buf'[Interp]["poll_flag"], 0) \/ t # Interp
        BY <1>0, <2>1, <2>2 DEF PollInv, ClearOrdered
      <3>4. CASE t = Interp
        BY <2>2, <3>1, <3>3, <3>4 DEF ClearOrdered, CollectionAnnounced
      <3>5. CASE t # Interp
        BY <1>0, <2>1, <3>2, <3>5 DEF PollInv, ClearOrdered, CollectionAnnounced, Fence
      <3> QED
        BY <3>4, <3>5
    <2>6. InterruptAnnounced'
      BY <2>2 DEF InterruptAnnounced
    <2> QED
      BY <2>3, <2>4, <2>5, <2>6 DEF PollInv
  <1> QED
    BY <1>1, <1>2, <1>3 DEF RequestStep

(* Steps of the interpreter that store nothing, and do not end the second  *)
(* look of wah_recompute_poll_flag, preserve the invariant.                *)
LEMMA QuietInv ==
    ASSUME PollInv, NEW l \in {"run", "handler", "gc_step", "clear", "recompute", "host"},
           pc[Interp] \in {"run", "handler", "gc_step", "host"},
           Goto(Interp, l), ret' \in RetPC, gc_pending' \in BOOLEAN, gc_pending' => gc_pending,
           UNCHANGED <<mem, buf>>
    PROVE  PollInv'
  <1>0. PollTypeOK /\ Interp \in Threads /\ \A u \in Requesters : u \in Threads /\ u # Interp
    BY PollFlagsAssumption DEF PollInv, Threads
  <1>1. pc' = [pc EXCEPT ![Interp] = l]
    BY DEF Goto
  <1>2. PollTypeOK'
    BY <1>0, <1>1 DEF PollTypeOK, InterpPC
  <1>3. RequestersSet' /\ RequestOrdered'
    BY <1>0, <1>1 DEF PollInv, PollTypeOK, RequestersSet, RequestOrdered
  <1>4. ClearOrdered' /\ CollectionAnnounced'
    BY <1>0, <1>1 DEF PollInv, PollTypeOK, ClearOrdered, CollectionAnnounced, Fence
  <1>5. InterruptAnnounced'
    BY <1>0, <1>1 DEF PollInv, PollTypeOK, InterruptAnnounced
  <1> QED
    BY <1>2, <1>3, <1>4, <1>5 DEF PollInv

(* Clearing interrupt_flag is followed by a recompute of poll_flag. *)
LEMMA ClearInterruptInv ==
    ASSUME PollInv, ConsumeInterrupt
    PROVE  PollInv'
  <1>0. /\ PollTypeOK /\ 0 \in Bit
        /\ Interp \in Threads /\ \A u \in Requesters : u \in Threads /\ u # Interp
        /\ "interrupt_flag" \in Flags /\ "poll_flag" \in Flags
    BY PollFlagsAssumption DEF PollInv, Threads, Flags, Bit
  <1>1. /\ pc[Interp] = "clear"
        /\ pc' = [pc EXCEPT ![Interp] = "recompute"]
        /\ UNCHANGED <<mem, ret, gc_pending>>
        /\ Store(Interp, "interrupt_flag", 0)
    BY DEF ConsumeInterrupt, Goto
  <1>2. /\ buf' \in [Threads -> [Flags -> Seq(Bit)]]
        /\ \A w : Holds(buf'[Interp]["interrupt_flag"], w)
                    => Holds(buf[Interp]["interrupt_flag"], w) \/ w = 0
        /\ \A u \in Threads, g \in Flags :
             u # Interp \/ g # "interrupt_flag" => buf'[u][g] = buf[u][g]
    BY <1>0, <1>1, StoreFacts
  <1>3. PollTypeOK'
    BY <1>0, <1>1, <1>2 DEF PollTypeOK, InterpPC
  <1>4. RequestersSet'
    BY <1>0, <1>2 DEF PollInv, RequestersSet
  <1>5. RequestOrdered'
    <2>1. ~Holds(buf'[Interp]["interrupt_flag"], 1)
      BY <1>0, <1>1, <1>2, 0 # 1 DEF PollInv, RequestOrdered
    <2> QED
      BY <1>0, <1>1, <1>2, <2>1 DEF PollInv, PollTypeOK, RequestOrdered
  <1>6. buf'[Interp]["poll_flag"] = buf[Interp]["poll_flag"]
    BY <1>0, <1>2
  <1>7. pc'[Interp] = "recompute"
    BY <1>0, <1>1 DEF PollTypeOK
  <1>8. ClearOrdered' /\ CollectionAnnounced'
    BY <1>1, <1>6, <1>7 DEF PollInv, ClearOrdered, CollectionAnnounced
  <1>9. InterruptAnnounced'
    BY <1>7 DEF InterruptAnnounced
  <1> QED
    BY <1>3, <1>4, <1>5, <1>8, <1>9 DEF PollInv

(* A store of the interpreter to poll_flag: 1 at any step, or 0 when       *)
(* wah_recompute_poll_flag will go on to its fence and its second look.    *)
LEMMA PollStoreInv ==
    ASSUME PollInv, NEW v \in Bit, NEW l \in InterpPC,
           pc[Interp] \notin {"fence", "poll"},
           Store(Interp, "poll_flag", v), Goto(Interp, l), ret' \in RetPC,
           gc_pending' \in BOOLEAN, UNCHANGED mem,
           \/ v = 0 /\ l = "recompute_fence" /\ ~gc_pending'
           \/ v = 1 /\ l \in RetPC /\ pc[Interp] # "recompute_fence"
    PROVE  PollInv'
  <1>0. /\ PollTypeOK
        /\ Interp \in Threads /\ \A u \in Requesters : u \in Threads /\ u # Interp
        /\ "interrupt_flag" \in Flags /\ "poll_flag" \in Flags
    BY PollFlagsAssumption DEF PollInv, Threads, Flags
  <1>1. pc' = [pc EXCEPT ![Interp] = l] /\ pc'[Interp] = l
    BY <1>0 DEF Goto, PollTypeOK
  <1>2. /\ buf' \in [Threads -> [Flags -> Seq(Bit)]]
        /\ buf'[Interp]["poll_flag"] # <<>>
        /\ \A w : Holds(buf'[Interp]["poll_flag"], w) => Holds(buf[Interp]["poll_flag"], w) \/ w = v
        /\ \A u \in Threads, g \in Flags : u # Interp \/ g # "poll_flag" => buf'[u][g] = buf[u][g]
    BY <1>0, StoreFacts
  <1>3. PollTypeOK'
    BY <1>0, <1>1, <1>2 DEF PollTypeOK
  <1>4. RequestersSet'
    BY <1>0, <1>2 DEF PollInv, RequestersSet
  <1>5. RequestOrdered'
    <2>1. \A u \in Threads : buf'[u]["interrupt_flag"] = buf[u]["interrupt_flag"]
      BY <1>0, <1>2
    <2> QED
      BY <1>0, <1>1, <2>1 DEF PollInv, PollTypeOK, RequestOrdered
  <1>6. ClearOrdered' /\ CollectionAnnounced'
    <2>1. CASE v = 0 /\ l = "recompute_fence" /\ ~gc_pending'
      BY <1>1, <2>1 DEF ClearOrdered, CollectionAnnounced
    <2>2. CASE v = 1 /\ l \in RetPC /\ pc[Interp] # "recompute_fence"
      <3>1. ~Holds(buf'[Interp]["poll_flag"], 0)
        BY <1>2, <2>2, 0 # 1 DEF PollInv, ClearOrdered
      <3>2. pc'[Interp] \notin {"recompute_fence", "recompute_check"}
        BY <1>1, <2>2 DEF RetPC
      <3> QED
        BY <1>2, <3>1, <3>2 DEF ClearOrdered, CollectionAnnounced
    <2> QED
      BY <2>1, <2>2
  <1>7. InterruptAnnounced'
    BY <1>0, <1>2 DEF InterruptAnnounced
  <1> QED
    BY <1>3, <1>4, <1>5, <1>6, <1>7 DEF PollInv

(* The fence of wah_recompute_poll_flag makes its second look reliable. *)
LEMMA RecomputeFenceInv ==
    ASSUME PollInv, RecomputeFence
    PROVE  PollInv'
  <1>0. PollTypeOK /\ Interp \in Threads /\ \A u \in Requesters : u \in Threads /\ u # Interp
    BY PollFlagsAssumption DEF PollInv, Threads
  <1>1. /\ pc[Interp] = "recompute_fence" /\ Fence(Interp)
        /\ pc' = [pc EXCEPT ![Interp] = "recompute_check"]
        /\ UNCHANGED <<mem, buf, ret, gc_pending>>
    BY DEF RecomputeFence, Goto
  <1>2. pc'[Interp] = "recompute_check"
    BY <1>0, <1>1 DEF PollTypeOK
  <1>3. PollTypeOK'
    BY <1>0, <1>1 DEF PollTypeOK, InterpPC
  <1>4. RequestersSet' /\ RequestOrdered'
    BY <1>0, <1>1 DEF PollInv, PollTypeOK, RequestersSet, RequestOrdered
  <1>5. Fence(Interp)' /\ ~Holds(buf'[Interp]["poll_flag"], 0)
    BY <1>1, EmptyHolds DEF Fence, Flags
  <1>6. ClearOrdered' /\ CollectionAnnounced' /\ InterruptAnnounced'
    BY <1>1, <1>2, <1>5 DEF PollInv, ClearOrdered, CollectionAnnounced, InterruptAnnounced
  <1> QED
    BY <1>3, <1>4, <1>6 DEF PollInv

(* The second look of wah_recompute_poll_flag catches every interrupt that *)
(* was visible before the cleared poll_flag was.                           *)
LEMMA RecomputeCheckInv ==
    ASSUME PollInv, RecomputeCheck
    PROVE  PollInv'
  <1>0. /\ PollTypeOK /\ 1 \in Bit /\ ret \in RetPC /\ RetPC \subseteq InterpPC
        /\ Interp \in Threads /\ \A u \in Requesters : u \in Threads /\ u # Interp
        /\ "interrupt_flag" \in Flags /\ "poll_flag" \in Flags
    BY PollFlagsAssumption DEF PollInv, PollTypeOK, Threads, Flags, Bit, RetPC, InterpPC
  <1>1. /\ pc[Interp] = "recompute_check" /\ Goto(Interp, ret)
        /\ UNCHANGED <<mem, ret, gc_pending>>
    BY DEF RecomputeCheck
  <1>2. Fence(Interp) /\ ~gc_pending
    BY <1>1 DEF PollInv, ClearOrdered, CollectionAnnounced
  <1>3. Load(Interp, "interrupt_flag") = mem["interrupt_flag"]
    BY <1>0, <1>2 DEF Load, Fence
  <1>4. CASE mem["interrupt_flag"] = 1
    <2>1. Store(Interp, "poll_flag", 1)
      BY <1>3, <1>4 DEF RecomputeCheck
    <2>2. gc_pending' \in BOOLEAN /\ ret' \in RetPC
      BY <1>0, <1>1 DEF PollTypeOK
    <2> QED
      BY <1>0, <1>1, <2>1, <2>2, PollStoreInv
  <1>5. CASE mem["interrupt_flag"] # 1
    <2>1. buf' = buf
      BY <1>3, <1>5 DEF RecomputeCheck
    <2>2. pc' = [pc EXCEPT ![Interp] = ret] /\ pc'[Interp] \in RetPC
      BY <1>0, <1>1 DEF Goto, PollTypeOK
    <2>3. PollTypeOK'
      BY <1>0, <1>1, <2>1, <2>2 DEF PollTypeOK
    <2>4. RequestersSet' /\ RequestOrdered'
      BY <1>0, <1>1, <2>1, <2>2 DEF PollInv, PollTypeOK, RequestersSet, RequestOrdered
    <2>5. pc'[Interp] \notin {"recompute_fence", "recompute_check"}
      BY <2>2 DEF RetPC
    <2>6. ~Holds(buf'[Interp]["poll_flag"], 0)
      BY <1>1, <2>1 DEF PollInv, ClearOrdered
    <2>7. ClearOrdered' /\ CollectionAnnounced' /\ InterruptAnnounced'
      BY <1>1, <1>2, <1>5, <2>5, <2>6 DEF ClearOrdered, CollectionAnnounced, InterruptAnnounced
    <2> QED
      BY <2>3, <2>4, <2>7 DEF PollInv
  <1> QED
    BY <1>4, <1>5
-----------------------------------------------------------------------------
(* Every step of the interpreter thread preserves the invariant. *)
LEMMA InterpInv ==
    ASSUME PollInv, InterpStep
    PROVE  PollInv'
  <1>0. /\ PollTypeOK /\ {0, 1} = Bit /\ ret \in RetPC /\ gc_pending \in BOOLEAN
        /\ RetPC = {"run", "host"} /\ RetPC \subseteq InterpPC /\ "recompute_fence" \in InterpPC
    BY DEF PollInv, PollTypeOK, Bit, RetPC, InterpPC
  <1>1. CASE Poll
    <2>1. Goto(Interp, "handler") \/ Goto(Interp, "run")
      BY <1>0, <1>1 DEF Poll, Goto, PollTypeOK
    <2> QED
      BY <1>0, <1>1, <2>1, QuietInv DEF Poll
  <1>2. CASE Handler
    BY <1>0, <1>2, QuietInv DEF Handler
  <1>3. CASE GcStep
    BY <1>0, <1>3, QuietInv DEF GcStep
  <1>4. CASE Tick
    BY <1>0, <1>4, QuietInv DEF Tick
  <1>5. CASE CancelInternal
    BY <1>0, <1>5, QuietInv DEF CancelInternal
  <1>6. CASE ResumeInternal
    BY <1>0, <1>6, QuietInv DEF ResumeInternal
  <1>7. CASE ResumeReturns
    BY <1>0, <1>7, QuietInv DEF ResumeReturns
  <1>8. CASE GcAlloc
    <2>1. Goto(Interp, "run")
      BY <1>0, <1>8 DEF GcAlloc, Goto, PollTypeOK
    <2> QED
      BY <1>0, <1>8, <2>1, PollStoreInv DEF GcAlloc
  <1>9. CASE Recompute
    <2>1. CASE gc_pending
      BY <1>0, <1>9, <2>1, PollStoreInv DEF Recompute
    <2>2. CASE ~gc_pending
      BY <1>0, <1>9, <2>2, PollStoreInv DEF Recompute
    <2> QED
      BY <2>1, <2>2
  <1> QED
    BY <1>1, <1>2, <1>3, <1>4, <1>5, <1>6, <1>7, <1>8, <1>9, ClearInterruptInv,
       RecomputeFenceInv, RecomputeCheckInv DEF InterpStep

(* The invariant is inductive. *)
LEMMA PollStepInv == PollInv /\ [PollNext]_pollVars => PollInv'
  <1> SUFFICES ASSUME PollInv, [PollNext]_pollVars PROVE PollInv'
    OBVIOUS
  <1>1. CASE UNCHANGED pollVars
    BY <1>1 DEF pollVars, PollInv, PollTypeOK, RequestersSet, RequestOrdered, ClearOrdered,
       CollectionAnnounced, InterruptAnnounced, Fence
  <1> QED
    BY <1>1, InterpInv, RequestInv, FlushInv DEF PollNext

(* At rest, what is announced is visible. *)
LEMMA PollInvSafe == PollInv => NoLostRequest
  BY PollFlagsAssumption DEF PollInv, NoLostRequest, Quiescent, CollectionAnnounced,
     InterruptAnnounced, Fence, Flags, RetPC, Threads

(* Type correctness of the flag protocol: the queues hold flag values, and *)
(* each thread stays within its own part of the protocol.                  *)
THEOREM PollTypeCorrect == PollSpec => []PollTypeOK
  <1>1. PollInv => PollTypeOK
    BY DEF PollInv
  <1> QED
    BY <1>1, PollInitInv, PollStepInv, PTL DEF PollSpec

(* No interrupt request and no pending collection is lost by               *)
(* wah_recompute_poll_flag, for any number of requesting threads and any   *)
(* order in which relaxed stores become visible.                           *)
THEOREM RequestsKept == PollSpec => []NoLostRequest
  BY PollInitInv, PollStepInv, PollInvSafe, PTL DEF PollSpec

-----------------------------------------------------------------------------
(* DeadlineTimer *)

(* The values of wah_timer_t's fields, as TypeOK has them. *)
Timers == [deadline_us : 0..Unlimited, cancelled : BOOLEAN, armed : BOOLEAN,
           gen : 0..MaxGen, fired : BOOLEAN, running : BOOLEAN]

(* What the limit has left, as ctx->deadline_us stores it. *)
Left == IF spent >= limit THEN 1 ELSE limit - spent

(* ctx->deadline_us is charged when an activation returns and at no other  *)
(* time, so the equation holds during an activation too.                   *)
BudgetExact == deadline_us = IF limit \in Deadlines THEN Left ELSE limit

(* The timer runs only inside wah_resume, with the context's deadline. *)
RunningScoped ==
    /\ timer.running => /\ apc \in {"code", "clear", "return"}
                        /\ limit \in Deadlines
                        /\ timer.deadline_us = deadline_us
    /\ timer.armed => timer.running
    /\ timer.fired => timer.running

(* Before wah_new_timer there is nothing that a thread could act on. *)
ThreadScoped ==
    /\ tpc = "none" => timer = NoTimer /\ tgen = 0
    /\ tgen <= timer.gen
    /\ apc = "freed" => tpc \in {"none", "exited"}

(* A wait that was started for the current arming does not end before the  *)
(* deadline of that arming, so a fire is never early.                      *)
NeverEarly ==
    /\ tpc = "timed_out" => wake_in = 0
    /\ timer.armed /\ timer.gen = tgen => elapsed + wake_in >= timer.deadline_us
    /\ timer.fired => elapsed >= timer.deadline_us

(* An interrupt that no user asked for is that of a fire. *)
InterruptOwned == interrupt /\ ~user => timer.fired

TimerInv == /\ TypeOK /\ BudgetExact /\ RunningScoped /\ ThreadScoped
            /\ NeverEarly /\ InterruptOwned
-----------------------------------------------------------------------------
(* No timer, no activation, no deadline. *)
LEMMA TimerInitInv == Init => TimerInv
  <1> SUFFICES ASSUME Init PROVE TimerInv
    OBVIOUS
  <1>1. /\ timer = NoTimer /\ ~NoTimer.running /\ ~NoTimer.armed /\ ~NoTimer.fired
        /\ NoTimer.gen = 0
    BY DEF Init, NoTimer
  <1>2. TypeOK
    <2>1. NoTimer \in Timers
      BY TimerAssumption DEF Timers, NoTimer, Unlimited
    <2>2. 0 \in 0..Unlimited /\ 0 \in 0..MaxDeadline /\ MaxDeadline \in 0..MaxDeadline /\ 0 \in 0..MaxGen
      BY TimerAssumption DEF Unlimited
    <2> QED
      BY <2>1, <2>2 DEF Init, TypeOK, Timers, NoDeadline, States, OwnerPC, TimerPC
  <1>3. BudgetExact
    BY DEF Init, BudgetExact, NoDeadline, Deadlines
  <1>4. RunningScoped /\ ThreadScoped /\ NeverEarly /\ InterruptOwned
    BY <1>1 DEF Init, RunningScoped, ThreadScoped, NeverEarly, InterruptOwned
  <1> QED
    BY <1>2, <1>3, <1>4 DEF TimerInv

(* wah_set_limits starts a new budget, and the timer thread if need be. *)
LEMMA SetLimitsInv ==
    ASSUME TimerInv, NEW d \in Deadlines \cup {Unlimited}, SetLimits(d)
    PROVE  TimerInv'
  <1>1. /\ apc = "host" /\ d \in 1..Unlimited /\ 0 \in 0..MaxDeadline
        /\ deadline_us' = d /\ limit' = d /\ spent' = 0
        /\ UNCHANGED <<state, apc, outcome, interrupt, elapsed, tgen, wake_in, user>>
    BY TimerAssumption DEF SetLimits, Deadlines, Unlimited
  <1>2. ~timer.running /\ ~timer.armed /\ ~timer.fired
    BY <1>1 DEF TimerInv, RunningScoped
  <1>3. \/ UNCHANGED <<timer, tpc>>
        \/ /\ timer' = [NoTimer EXCEPT !.deadline_us = deadline_us]
           /\ tpc' = "start" /\ tpc = "none"
    <2>1. CASE d \in Deadlines /\ ~HasTimer
      BY <2>1 DEF SetLimits, HasTimer
    <2>2. CASE ~(d \in Deadlines /\ ~HasTimer)
      BY <2>2 DEF SetLimits
    <2> QED
      BY <2>1, <2>2
  <1>4. TypeOK'
    <2>1. [NoTimer EXCEPT !.deadline_us = deadline_us] \in Timers
      <3>1. deadline_us \in 0..Unlimited /\ 0 \in 0..MaxGen
        BY TimerAssumption DEF TimerInv, TypeOK
      <3> QED
        BY <3>1 DEF Timers, NoTimer
    <2>2. timer' \in Timers /\ tpc' \in TimerPC
      <3>1. timer \in Timers /\ tpc \in TimerPC /\ "start" \in TimerPC
        BY DEF TimerInv, TypeOK, Timers, TimerPC
      <3> QED
        BY <1>3, <2>1, <3>1
    <2>3. d \in 0..Unlimited
      BY <1>1, TimerAssumption DEF Unlimited
    <2> QED
      BY <1>1, <2>2, <2>3 DEF TimerInv, TypeOK, Timers
  <1>5. BudgetExact'
    BY <1>1 DEF BudgetExact, Left, Deadlines
  <1>6. ~timer'.running /\ ~timer'.armed /\ ~timer'.fired
    BY <1>2, <1>3 DEF NoTimer
  <1>7. RunningScoped' /\ InterruptOwned'
    BY <1>1, <1>2, <1>6 DEF TimerInv, RunningScoped, InterruptOwned
  <1>8. ThreadScoped' /\ NeverEarly'
    BY <1>1, <1>3, <1>6 DEF TimerInv, ThreadScoped, NeverEarly, NoTimer
  <1> QED
    BY <1>4, <1>5, <1>7, <1>8 DEF TimerInv

(* Steps of the owner that leave the timer, the limits and the flag alone. *)
LEMMA OwnerQuietInv ==
    ASSUME TimerInv, Start \/ SeeInterrupt \/ Finish \/ Join \/ (\E s \in {"FINISHED", "TRAPPED", "SUSPENDED"} : Stop(s))
    PROVE  TimerInv'
  <1>1. /\ UNCHANGED <<deadline_us, interrupt, timer, elapsed, tpc, tgen, wake_in, limit, spent, user>>
        /\ state' \in States /\ outcome' \in States /\ apc' \in OwnerPC
        /\ apc' # apc /\ apc' # "freed" => apc' \in {"clear", "return"}
        /\ apc \in {"code", "clear", "return"} => apc' \in {"code", "clear", "return"}
        /\ apc' = "freed" => tpc \in {"none", "exited"}
    BY DEF Start, SeeInterrupt, Finish, Join, Stop, thread, ghosts, TimerInv, TypeOK, States,
           OwnerPC, ThreadScoped
  <1>2. TypeOK'
    BY <1>1 DEF TimerInv, TypeOK
  <1>3. RunningScoped' /\ ThreadScoped'
    BY <1>1 DEF TimerInv, RunningScoped, ThreadScoped
  <1>4. BudgetExact' /\ NeverEarly' /\ InterruptOwned'
    BY <1>1 DEF TimerInv, BudgetExact, Left, NeverEarly, InterruptOwned
  <1> QED
    BY <1>2, <1>3, <1>4 DEF TimerInv

(* The effect of wah_timer_set_armed(ctx, false), and of the charge that   *)
(* goes with it, on the budget: the time an activation took is subtracted  *)
(* once, exactly, and never to below 1.                                    *)
LEMMA DisarmFacts ==
    ASSUME TimerInv, Disarm, Charge, limit' = limit
    PROVE  /\ timer' \in Timers /\ ~timer'.running /\ ~timer'.armed /\ ~timer'.fired
           /\ timer'.gen = timer.gen
           /\ elapsed' = elapsed /\ spent' \in 0..MaxDeadline /\ deadline_us' \in 0..Unlimited
           /\ tpc' \in TimerPC
           /\ tpc = "none" => timer' = timer
           /\ (tpc' = tpc \/ tpc' \in {"start", "woken"}) /\ (tpc = "none" <=> tpc' = "none")
           /\ BudgetExact'
  <1>1. /\ timer \in Timers /\ elapsed \in 0..MaxDeadline /\ deadline_us \in 0..Unlimited
        /\ spent \in 0..MaxDeadline /\ limit \in 0..Unlimited /\ tpc \in TimerPC
    BY DEF TimerInv, TypeOK, Timers
  <1>2. CASE ~HasTimer
    <2>1. timer = NoTimer /\ UNCHANGED <<timer, elapsed, deadline_us, tpc>>
      BY <1>2 DEF HasTimer, TimerInv, ThreadScoped, Disarm
    <2>2. ~NoTimer.running /\ ~NoTimer.armed /\ ~NoTimer.fired
      BY DEF NoTimer
    <2>3. spent' = spent
      BY <2>1, <2>2 DEF Charge
    <2> QED
      BY <1>1, <2>1, <2>2, <2>3 DEF TimerInv, BudgetExact, Left
  <1>3. CASE HasTimer
    <2>1. /\ timer' = [timer EXCEPT !.running = FALSE, !.armed = FALSE, !.fired = FALSE]
          /\ elapsed' = elapsed /\ deadline_us' = Charged /\ tpc' = Signal(tpc)
      BY <1>1, <1>3 DEF Disarm, SetArmed, Timers
    <2>2. /\ tpc' \in TimerPC /\ (tpc' = tpc \/ tpc' \in {"start", "woken"})
          /\ (tpc = "none" <=> tpc' = "none")
      BY <1>1, <2>1 DEF Signal, TimerPC
    <2>3. CASE ~timer.running
      <3>1. deadline_us' = deadline_us /\ spent' = spent
        BY <2>1, <2>3 DEF Charged, Charge
      <3> QED
        BY <1>1, <1>3, <2>1, <2>2, <3>1 DEF TimerInv, BudgetExact, Left, Timers, HasTimer
    <2>4. CASE timer.running
      <3>1. /\ limit \in 1..MaxDeadline /\ timer.deadline_us = deadline_us
            /\ deadline_us = Left
            /\ timer.fired => elapsed >= timer.deadline_us
        BY <2>4 DEF TimerInv, RunningScoped, BudgetExact, NeverEarly, Deadlines
      <3>2. spent' = IF spent + elapsed <= MaxDeadline THEN spent + elapsed ELSE MaxDeadline
        BY <2>4 DEF Charge, Smaller
      <3>3. deadline_us' = IF elapsed >= deadline_us THEN 1 ELSE deadline_us - elapsed
        <4>1. (timer.fired \/ elapsed >= timer.deadline_us) <=> elapsed >= deadline_us
          BY <3>1
        <4> QED
          BY <2>1, <2>4, <3>1, <4>1 DEF Charged
      <3>4. spent' \in 0..MaxDeadline
        BY <1>1, <3>2, TimerAssumption
      <3>5. deadline_us' = IF spent' >= limit THEN 1 ELSE limit - spent'
        BY <1>1, <3>1, <3>2, <3>3, TimerAssumption DEF Left
      <3>6. deadline_us' \in 0..Unlimited
        <4>1. PICK n \in 0..MaxDeadline : n = spent'
          BY <3>4
        <4>2. (IF n >= limit THEN 1 ELSE limit - n) \in 0..Unlimited
          BY <3>1, TimerAssumption DEF Unlimited
        <4> QED
          BY <3>5, <4>1, <4>2
      <3>7. BudgetExact'
        BY <3>1, <3>5 DEF BudgetExact, Left, Deadlines
      <3> QED
        BY <1>1, <1>3, <2>1, <2>2, <3>4, <3>6, <3>7 DEF Timers, HasTimer
    <2> QED
      BY <2>3, <2>4
  <1> QED
    BY <1>2, <1>3

(* The end of wah_resume_internal and wah_cancel disarm the timer. *)
LEMMA ReturnCancelInv ==
    ASSUME TimerInv, Return \/ Cancel
    PROVE  TimerInv'
  <1>1. /\ Disarm /\ Charge /\ UNCHANGED <<outcome, tgen, wake_in, limit>>
        /\ apc # "freed" /\ apc' = "host" /\ state' \in States
        /\ interrupt' \in BOOLEAN /\ user' \in BOOLEAN
    BY DEF Return, Cancel, TimerInv, TypeOK, States, AfterDisarm
  <1>2. interrupt' => user'
    <2>1. CASE Return
      <3>1. interrupt' <=> interrupt /\ ~timer.fired
        BY <2>1 DEF Return, AfterDisarm
      <3>2. user' <=> user /\ interrupt'
        BY <2>1 DEF Return
      <3> QED
        BY <3>1, <3>2 DEF TimerInv, InterruptOwned
    <2>2. CASE Cancel
      BY <2>2 DEF Cancel
    <2> QED
      BY <2>1, <2>2
  <1>3. /\ timer' \in Timers /\ ~timer'.running /\ ~timer'.armed /\ ~timer'.fired
        /\ timer'.gen = timer.gen
        /\ elapsed' = elapsed /\ spent' \in 0..MaxDeadline /\ deadline_us' \in 0..Unlimited
        /\ tpc' \in TimerPC
        /\ tpc = "none" => timer' = timer
        /\ (tpc' = tpc \/ tpc' \in {"start", "woken"}) /\ (tpc = "none" <=> tpc' = "none")
        /\ BudgetExact'
    BY <1>1, DisarmFacts
  <1>4. TypeOK'
    BY <1>1, <1>3 DEF TimerInv, TypeOK, Timers, OwnerPC
  <1>5. RunningScoped' /\ InterruptOwned'
    BY <1>2, <1>3 DEF RunningScoped, InterruptOwned
  <1>6. ThreadScoped' /\ NeverEarly'
    BY <1>1, <1>3 DEF TimerInv, ThreadScoped, NeverEarly
  <1> QED
    BY <1>3, <1>4, <1>5, <1>6 DEF TimerInv

(* wah_resume_internal arms the timer with what the budget has left. *)
LEMMA ResumeInv ==
    ASSUME TimerInv, Resume
    PROVE  TimerInv'
  <1>1. /\ apc = "host" /\ state' = "RUNNING" /\ apc' = "code" /\ Arm
        /\ UNCHANGED <<outcome, tgen, wake_in, limit, spent, user>>
    BY DEF Resume
  <1>2. ~timer.running /\ ~timer.armed /\ ~timer.fired
    BY <1>1 DEF TimerInv, RunningScoped
  <1>3. TypeOK /\ timer \in Timers /\ timer.gen \in 0..MaxGen /\ deadline_us \in 0..Unlimited
    BY DEF TimerInv, TypeOK, Timers
  <1>4. CASE HasTimer /\ deadline_us \in Deadlines
    <2>1. /\ timer.gen < MaxGen
          /\ timer' = [timer EXCEPT !.running = TRUE, !.armed = TRUE, !.fired = FALSE,
                                    !.gen = timer.gen + 1, !.deadline_us = deadline_us]
          /\ elapsed' = 0 /\ deadline_us' = deadline_us /\ tpc' = Signal(tpc)
          /\ interrupt' = (interrupt /\ ~timer.fired)
      BY <1>1, <1>2, <1>4 DEF Arm, SetArmed, Charged, AfterDisarm
    <2>2. /\ tpc' \in TimerPC /\ tpc' # "none" /\ (tpc' = tpc \/ tpc' \in {"start", "woken"})
      BY <1>3, <1>4, <2>1 DEF HasTimer, Signal, TypeOK, TimerPC
    <2>3. /\ timer'.running /\ timer'.armed /\ ~timer'.fired
          /\ timer'.gen = timer.gen + 1 /\ timer'.deadline_us = deadline_us
          /\ timer' \in Timers
      <3>1. timer.gen + 1 \in 0..MaxGen
        BY <1>3, <2>1, TimerAssumption
      <3> QED
        BY <1>3, <2>1, <3>1 DEF Timers
    <2>4. TypeOK'
      BY <1>1, <1>3, <2>1, <2>2, <2>3, TimerAssumption DEF TypeOK, Timers, States, OwnerPC
    <2>5. limit \in Deadlines
      <3>1. deadline_us = limit \/ limit \in Deadlines
        BY DEF TimerInv, BudgetExact
      <3> QED
        BY <1>4, <3>1
    <2>6. RunningScoped' /\ BudgetExact'
      BY <1>1, <2>1, <2>3, <2>5 DEF TimerInv, RunningScoped, BudgetExact, Left
    <2>7. tgen \in 0..MaxGen /\ tgen <= timer.gen /\ tgen # timer.gen + 1 /\ tgen <= timer.gen + 1
      BY <1>3 DEF TimerInv, ThreadScoped, TypeOK
    <2>8. ThreadScoped' /\ NeverEarly'
      BY <1>1, <2>1, <2>2, <2>3, <2>7 DEF TimerInv, ThreadScoped, NeverEarly
    <2>9. InterruptOwned'
      BY <1>1, <1>2, <2>1 DEF TimerInv, InterruptOwned
    <2> QED
      BY <2>4, <2>6, <2>8, <2>9 DEF TimerInv
  <1>5. CASE ~(HasTimer /\ deadline_us \in Deadlines)
    <2>1. UNCHANGED <<timer, elapsed, deadline_us, tpc, interrupt>>
      BY <1>1, <1>5 DEF Arm
    <2>2. TypeOK'
      BY <1>1, <1>3, <2>1 DEF TypeOK, States, OwnerPC
    <2>3. RunningScoped' /\ BudgetExact' /\ ThreadScoped' /\ NeverEarly' /\ InterruptOwned'
      BY <1>1, <1>2, <2>1 DEF TimerInv, RunningScoped, BudgetExact, Left, ThreadScoped, NeverEarly,
         InterruptOwned
    <2> QED
      BY <2>2, <2>3 DEF TimerInv
  <1> QED
    BY <1>4, <1>5

(* The interpreter clears the flag; a user requests; wah_free_timer begins. *)
LEMMA FlagInv ==
    ASSUME TimerInv, ClearInterrupt \/ UserRequest \/ FreeTimer
    PROVE  TimerInv'
  <1>1. CASE ClearInterrupt \/ UserRequest
    <2>1. /\ UNCHANGED <<state, deadline_us, timer, elapsed, tpc, tgen, wake_in, limit, spent>>
          /\ interrupt' \in BOOLEAN /\ user' \in BOOLEAN
          /\ interrupt' => user'
          /\ outcome' \in States /\ apc' \in OwnerPC
          /\ apc \in {"code", "clear", "return"} => apc' \in {"code", "clear", "return"}
          /\ apc' = "freed" => apc = "freed"
      BY <1>1 DEF ClearInterrupt, UserRequest, thread, TimerInv, TypeOK, States, OwnerPC
    <2>2. TypeOK'
      BY <2>1 DEF TimerInv, TypeOK
    <2>3. RunningScoped' /\ BudgetExact' /\ ThreadScoped' /\ NeverEarly' /\ InterruptOwned'
      BY <2>1 DEF TimerInv, RunningScoped, BudgetExact, Left, ThreadScoped, NeverEarly, InterruptOwned
    <2> QED
      BY <2>2, <2>3 DEF TimerInv
  <1>2. CASE FreeTimer
    <2>1. /\ apc = "host" /\ apc' = "join"
          /\ timer' = [timer EXCEPT !.cancelled = HasTimer] /\ tpc' = Signal(tpc)
          /\ UNCHANGED <<state, outcome, deadline_us, interrupt, elapsed, tgen, wake_in,
                         limit, spent, user>>
      BY <1>2 DEF FreeTimer, ghosts
    <2>2. timer \in Timers /\ tpc \in TimerPC
      BY DEF TimerInv, TypeOK, Timers
    <2>3. /\ timer' \in Timers
          /\ timer'.running = timer.running /\ timer'.armed = timer.armed
          /\ timer'.fired = timer.fired /\ timer'.gen = timer.gen
          /\ timer'.deadline_us = timer.deadline_us
      BY <2>1, <2>2 DEF Timers, HasTimer
    <2>4. /\ tpc' \in TimerPC /\ (tpc' = tpc \/ tpc' \in {"start", "woken"})
          /\ (tpc' = "none" <=> tpc = "none")
      BY <2>1, <2>2 DEF Signal, TimerPC
    <2>5. tpc = "none" => timer' = NoTimer
      <3>1. ASSUME tpc = "none" PROVE timer' = [NoTimer EXCEPT !.cancelled = FALSE]
        BY <2>1, <3>1 DEF TimerInv, ThreadScoped, HasTimer
      <3> QED
        BY <3>1 DEF NoTimer
    <2>6. TypeOK'
      BY <2>1, <2>3, <2>4 DEF TimerInv, TypeOK, Timers, OwnerPC
    <2>7. ~timer.running /\ ~timer.armed /\ ~timer.fired
      BY <2>1 DEF TimerInv, RunningScoped
    <2>8. RunningScoped' /\ BudgetExact' /\ NeverEarly' /\ InterruptOwned'
      BY <2>1, <2>3, <2>4, <2>7 DEF TimerInv, RunningScoped, BudgetExact, Left, NeverEarly,
         InterruptOwned
    <2>9. ThreadScoped'
      BY <2>1, <2>3, <2>4, <2>5 DEF TimerInv, ThreadScoped
    <2> QED
      BY <2>6, <2>8, <2>9 DEF TimerInv
  <1> QED
    BY <1>1, <1>2
-----------------------------------------------------------------------------
(* wah_timer_main, from the head of its loop to the next wait, computes a  *)
(* wait that ends at the deadline of the arming it saw.                    *)
LEMMA LoopHeadInv ==
    ASSUME TypeOK, BudgetExact, InterruptOwned', tpc # "none", apc # "freed",
           timer' \in Timers, timer'.gen = timer.gen, timer'.deadline_us = timer.deadline_us,
           timer'.running = timer.running, timer'.armed => timer.armed,
           timer'.fired => timer.running /\ elapsed >= timer.deadline_us,
           interrupt' \in BOOLEAN, RunningScoped, tgen <= timer.gen,
           timer.armed /\ timer.gen = tgen => elapsed + wake_in >= timer.deadline_us,
           LoopHead(timer'),
           UNCHANGED <<state, apc, outcome, deadline_us, elapsed, limit, spent, user>>
    PROVE  TimerInv'
  <1>1. /\ timer \in Timers /\ timer.gen \in 0..MaxGen /\ timer.deadline_us \in 0..Unlimited
        /\ elapsed \in 0..MaxDeadline /\ tgen \in 0..MaxGen /\ wake_in \in 0..MaxDeadline
    BY DEF TypeOK, Timers
  <1>2. timer'.armed => timer.deadline_us \in 1..MaxDeadline
    <2>1. ASSUME timer'.armed PROVE timer.deadline_us = Left /\ limit \in 1..MaxDeadline
      BY <2>1 DEF RunningScoped, BudgetExact, Deadlines
    <2>2. limit \in 1..MaxDeadline => Left \in 1..MaxDeadline
      BY TimerAssumption DEF TypeOK, Left
    <2> QED
      BY <2>1, <2>2
  <1>3. /\ tpc' \in TimerPC /\ tpc' \notin {"none", "timed_out"}
        /\ tgen' \in 0..MaxGen /\ tgen' <= timer.gen
        /\ wake_in' \in 0..MaxDeadline
        /\ timer'.armed /\ timer.gen = tgen' => elapsed + wake_in' >= timer.deadline_us
    <2>1. CASE ~timer'.cancelled /\ timer'.armed
      <3>1. /\ tpc' = "timed_wait" /\ tgen' = timer.gen
            /\ wake_in' = IF elapsed >= timer.deadline_us THEN 0 ELSE timer.deadline_us - elapsed
        BY <2>1 DEF LoopHead
      <3>2. PICK w \in 0..MaxDeadline : w = wake_in' /\ elapsed + w >= timer.deadline_us
        BY <1>1, <1>2, <2>1, <3>1, TimerAssumption
      <3> QED
        BY <1>1, <3>1, <3>2 DEF TimerPC
    <2>2. CASE timer'.cancelled \/ ~timer'.armed
      BY <1>1, <2>2 DEF LoopHead, TimerPC
    <2> QED
      BY <2>1, <2>2
  <1>4. TypeOK'
    BY <1>3 DEF TypeOK, Timers
  <1>5. BudgetExact' /\ RunningScoped'
    BY DEF BudgetExact, Left, RunningScoped
  <1>6. ThreadScoped' /\ NeverEarly'
    BY <1>3 DEF ThreadScoped, NeverEarly
  <1> QED
    BY <1>4, <1>5, <1>6 DEF TimerInv

(* The steps of the timer thread preserve the invariant. *)
LEMMA ThreadInv ==
    ASSUME TimerInv, Thread
    PROVE  TimerInv'
  <1>1. /\ TypeOK /\ BudgetExact /\ RunningScoped /\ InterruptOwned /\ timer \in Timers
        /\ tgen <= timer.gen
        /\ timer.armed /\ timer.gen = tgen => elapsed + wake_in >= timer.deadline_us
        /\ timer.fired => timer.running /\ elapsed >= timer.deadline_us
        /\ interrupt \in BOOLEAN /\ tpc \in TimerPC
    BY DEF TimerInv, TypeOK, Timers, RunningScoped, ThreadScoped, NeverEarly
  <1>2. tpc \notin {"none", "exited"} => apc # "freed"
    BY DEF TimerInv, ThreadScoped
  <1>3. ASSUME tpc \in {"start", "woken"}, LoopHead(timer),
               UNCHANGED <<state, apc, outcome, deadline_us, interrupt, timer, elapsed,
                           limit, spent, user>>
        PROVE  TimerInv'
    <2>1. InterruptOwned' /\ LoopHead(timer') /\ interrupt' \in BOOLEAN /\ timer' \in Timers
      BY <1>1, <1>3 DEF InterruptOwned
    <2>2. /\ timer'.gen = timer.gen /\ timer'.deadline_us = timer.deadline_us
          /\ timer'.running = timer.running
          /\ timer'.armed => timer.armed
          /\ timer'.fired => timer.running /\ elapsed >= timer.deadline_us
      BY <1>1, <1>3
    <2>3. tpc # "none" /\ apc # "freed"
      BY <1>2, <1>3
    <2> QED
      BY <1>1, <1>3, <2>1, <2>2, <2>3, LoopHeadInv
  (* A step of the thread that only changes where it is. *)
  <1>4. ASSUME tpc \notin {"none", "exited"}, tpc' \in TimerPC \ {"none"},
               tpc' = "timed_out" => wake_in = 0,
               UNCHANGED <<state, apc, outcome, deadline_us, interrupt, timer, elapsed, tgen, wake_in,
                           limit, spent, user>>
        PROVE  TimerInv'
    <2>1. TypeOK'
      BY <1>1, <1>4 DEF TypeOK
    <2>2. RunningScoped' /\ BudgetExact' /\ ThreadScoped' /\ NeverEarly' /\ InterruptOwned'
      BY <1>2, <1>4 DEF TimerInv, RunningScoped, BudgetExact, Left, ThreadScoped, NeverEarly,
         InterruptOwned
    <2> QED
      BY <2>1, <2>2 DEF TimerInv
  <1>5. CASE ThreadLoop
    BY <1>3, <1>5 DEF ThreadLoop, ghosts
  <1>6. CASE ThreadWoken
    <2>1. CASE Fires /\ ~timer.cancelled
      BY <1>4, <1>6, <2>1 DEF ThreadWoken, ghosts, TimerPC
    <2>2. CASE ~(Fires /\ ~timer.cancelled)
      BY <1>3, <1>6, <2>2 DEF ThreadWoken, ghosts
    <2> QED
      BY <2>1, <2>2
  <1>7. CASE ThreadTimedOut
    <2>0. /\ tpc = "timed_out" /\ LoopHead(timer') /\ tpc # "none" /\ apc # "freed"
          /\ UNCHANGED <<state, apc, outcome, deadline_us, elapsed, limit, spent, user>>
      BY <1>2, <1>7 DEF ThreadTimedOut, ghosts
    <2>1. CASE Fires /\ ~timer.cancelled
      <3>1. /\ timer' = [timer EXCEPT !.armed = FALSE, !.fired = TRUE] /\ interrupt' = TRUE
        BY <1>7, <2>1 DEF ThreadTimedOut
      <3>2. /\ timer' \in Timers /\ timer'.gen = timer.gen /\ timer'.deadline_us = timer.deadline_us
            /\ timer'.running = timer.running /\ ~timer'.armed /\ timer'.fired
        BY <1>1, <3>1 DEF Timers
      <3>3. elapsed >= timer.deadline_us /\ timer.running
        <4>1. wake_in = 0 /\ elapsed + wake_in >= timer.deadline_us /\ timer.running
          BY <1>1, <2>0, <2>1 DEF TimerInv, NeverEarly, Fires, RunningScoped
        <4> QED
          BY <1>1, <4>1 DEF TypeOK
      <3>4. InterruptOwned' /\ interrupt' \in BOOLEAN
        BY <3>1, <3>2 DEF InterruptOwned
      <3> QED
        BY <1>1, <2>0, <3>2, <3>3, <3>4, LoopHeadInv
    <2>2. CASE ~(Fires /\ ~timer.cancelled)
      <3>1. UNCHANGED <<timer, interrupt>>
        BY <1>7, <2>2 DEF ThreadTimedOut
      <3>2. InterruptOwned' /\ interrupt' \in BOOLEAN /\ timer' \in Timers
        BY <1>1, <2>0, <3>1 DEF InterruptOwned
      <3>3. /\ timer'.gen = timer.gen /\ timer'.deadline_us = timer.deadline_us
            /\ timer'.running = timer.running
            /\ timer'.armed => timer.armed
            /\ timer'.fired => timer.running /\ elapsed >= timer.deadline_us
        BY <1>1, <3>1
      <3> QED
        BY <1>1, <2>0, <3>2, <3>3, LoopHeadInv
    <2> QED
      BY <2>1, <2>2
  <1>8. CASE TimeOut
    BY <1>4, <1>8 DEF TimeOut, ghosts, TimerPC
  <1>9. CASE SpuriousWakeup
    BY <1>4, <1>9 DEF SpuriousWakeup, Signal, ghosts, TimerPC
  <1> QED
    BY <1>5, <1>6, <1>7, <1>8, <1>9 DEF Thread

(* Time passes for the activation and for the waiting thread alike. *)
LEMMA ElapseInv ==
    ASSUME TimerInv, Elapse
    PROVE  TimerInv'
  <1>1. /\ elapsed' = IF elapsed + 1 <= MaxDeadline THEN elapsed + 1 ELSE MaxDeadline
        /\ wake_in' = IF wake_in > 0 THEN wake_in - 1 ELSE 0
        /\ UNCHANGED <<state, apc, outcome, deadline_us, interrupt, timer, tpc, tgen, limit, spent, user>>
    BY DEF Elapse, Smaller, ghosts
  <1>2. /\ elapsed \in 0..MaxDeadline /\ wake_in \in 0..MaxDeadline
        /\ timer.deadline_us \in 0..Unlimited
    BY DEF TimerInv, TypeOK
  <1>3. timer.running => timer.deadline_us <= MaxDeadline
    <2>1. ASSUME timer.running PROVE timer.deadline_us = Left /\ limit \in 1..MaxDeadline
      BY <2>1 DEF TimerInv, RunningScoped, BudgetExact, Deadlines
    <2>2. limit \in 1..MaxDeadline => Left <= MaxDeadline
      BY TimerAssumption DEF TimerInv, TypeOK, Left
    <2> QED
      BY <2>1, <2>2
  <1>4. PICK e \in 0..MaxDeadline, w \in 0..MaxDeadline :
          /\ e = elapsed' /\ w = wake_in'
          /\ wake_in = 0 => w = 0
          /\ e >= elapsed
          /\ timer.deadline_us <= MaxDeadline /\ elapsed + wake_in >= timer.deadline_us
               => e + w >= timer.deadline_us
    BY <1>1, <1>2, TimerAssumption DEF Unlimited
  <1>5. TypeOK'
    BY <1>1, <1>4 DEF TimerInv, TypeOK
  <1>6. NeverEarly'
    <2>1. timer.fired => e >= timer.deadline_us
      BY <1>2, <1>4 DEF TimerInv, NeverEarly, Unlimited
    <2>2. timer.armed /\ timer.gen = tgen => e + w >= timer.deadline_us
      BY <1>3, <1>4 DEF TimerInv, NeverEarly, RunningScoped
    <2> QED
      BY <1>1, <1>4, <2>1, <2>2 DEF TimerInv, NeverEarly
  <1>7. RunningScoped' /\ BudgetExact' /\ ThreadScoped' /\ InterruptOwned'
    BY <1>1 DEF TimerInv, RunningScoped, BudgetExact, Left, ThreadScoped, InterruptOwned
  <1> QED
    BY <1>5, <1>6, <1>7 DEF TimerInv
-----------------------------------------------------------------------------
(* The invariant is inductive. *)
LEMMA TimerStepInv == TimerInv /\ [Next]_vars => TimerInv'
  <1> SUFFICES ASSUME TimerInv, [Next]_vars PROVE TimerInv'
    OBVIOUS
  <1>1. CASE UNCHANGED vars
    <2>1. UNCHANGED <<state, apc, outcome, deadline_us, interrupt, timer, elapsed, tpc, tgen, wake_in,
                      limit, spent, user>>
      BY <1>1 DEF vars, thread, ghosts
    <2> QED
      BY <2>1 DEF TimerInv, TypeOK, BudgetExact, Left, RunningScoped, ThreadScoped, NeverEarly,
         InterruptOwned
  <1> QED
    BY <1>1, SetLimitsInv, OwnerQuietInv, ReturnCancelInv, ResumeInv, FlagInv, ThreadInv, ElapseInv
       DEF Next, Owner, Terminated

(* Type correctness of the context's deadline and of its timer. *)
THEOREM TimerTypeCorrect == Spec => []TypeOK
  <1>1. TimerInv => TypeOK
    BY DEF TimerInv
  <1> QED
    BY <1>1, TimerInitInv, TimerStepInv, PTL DEF Spec

(* However activations yield, fire, finish and are cancelled, what         *)
(* wah_set_limits granted is charged with the time all of them took: the   *)
(* deadline can be neither stretched nor lost by suspending.               *)
THEOREM BudgetCharged == Spec => []DeadlineBudget
  <1>1. TimerInv => DeadlineBudget
    BY DEF TimerInv, BudgetExact, Left, DeadlineBudget
  <1> QED
    BY <1>1, TimerInitInv, TimerStepInv, PTL DEF Spec

(* A fire stays inside the activation that armed the timer, and the thread *)
(* stays inside the life of the context.                                   *)
THEOREM TimerIsContained == Spec => []TimerContained
  <1>1. TimerInv => TimerContained
    BY DEF TimerInv, TimerContained, InterruptOwned, RunningScoped, ThreadScoped
  <1> QED
    BY <1>1, TimerInitInv, TimerStepInv, PTL DEF Spec

(* The timer never fires before the deadline of the arming in force, even  *)
(* when the thread comes back late from a wait for an earlier arming.      *)
THEOREM FiresOnTime == Spec => []NeverEarly
  <1>1. TimerInv => NeverEarly
    BY DEF TimerInv
  <1> QED
    BY <1>1, TimerInitInv, TimerStepInv, PTL DEF Spec
=============================================================================
