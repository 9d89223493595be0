--------------------------- MODULE ReferenceProofs ---------------------------
(***************************************************************************)
(* Proofs about the references that outlive a call: the table of pinned    *)
(* ones, PinTable, and the calls that pin in batches, PinBatch, for every  *)
(* number of slots, generations and values, every batch and every order of *)
(* the host's pins and unpins; and the collection that follows references, *)
(* GcMark, for every object graph and every heap.                          *)
(***************************************************************************)
EXTENDS PinBatch, GcMark, SequenceTheorems, FiniteSetTheorems, TLAPS

-----------------------------------------------------------------------------
(* PinTable.  The invariant strengthens FreeListExact with what ties a      *)
(* reference that was given out to the generation of its slot.              *)

(* Slots that the table does not have yet are clear. *)
BeyondClear == \A s \in Slots : s >= slot_count => value[s] = Null

(* The generation of a slot is the one of a reference given for it,        *)
(* advanced once for each release since, as long as it cannot have wrapped *)
(* around to it; and a reference of a cleared slot was released.           *)
GivenTracked ==
    \A g \in given :
        LET s == g.ref.slot
            d == reuse[s] - g.nth
        IN  /\ s < slot_count
            /\ g.nth <= reuse[s]
            /\ value[s] = Null => g.nth < reuse[s]
            /\ d < GenMod => generation[s] = IF g.ref.generation + d < GenMod
                                               THEN g.ref.generation + d
                                               ELSE g.ref.generation + d - GenMod

(* The current reference of a pinned slot was given out. *)
PinnedGiven ==
    \A s \in Slots : value[s] # Null =>
        \E g \in given : g.ref = [slot |-> s, generation |-> generation[s]]

PinInv == TypeOK /\ FreeListExact /\ BeyondClear /\ GivenTracked /\ PinnedGiven
-----------------------------------------------------------------------------
(* The initial table is empty, and satisfies the invariant. *)
LEMMA InitInv == Init => PinInv
  BY PinAssumption DEF Init, PinInv, TypeOK, FreeListExact, BeyondClear, GivenTracked, PinnedGiven,
     Slots, Generations

(* What wah_pin takes off the free list is its head, a clear slot. *)
LEMMA PopFacts ==
    ASSUME TypeOK, FreeListExact, free_head # 0
    PROVE  /\ Len(freed) \in Nat \ {0}
           /\ freed[Len(freed)] = free_head - 1
           /\ free_head - 1 \in Slots
           /\ free_head - 1 < slot_count
           /\ value[free_head - 1] = Null
           /\ SubSeq(freed, 1, Len(freed) - 1) \in Seq(Slots)
           /\ Len(SubSeq(freed, 1, Len(freed) - 1)) = Len(freed) - 1
           /\ \A i \in 1..(Len(freed) - 1) : SubSeq(freed, 1, Len(freed) - 1)[i] = freed[i]
  <1> DEFINE n == Len(freed)
  <1>1. n \in Nat /\ \A i \in 1..n : freed[i] \in Slots
    BY ElementOfSeq, LenProperties DEF TypeOK
  <1>2. n # 0
    BY EmptySeq DEF TypeOK, FreeListExact
  <1>3. freed[n] \in Slots /\ freed[n] + 1 = free_head
    BY <1>1, <1>2 DEF FreeListExact
  <1>4. freed[n] = free_head - 1
    BY <1>3 DEF Slots
  <1>5. freed[n] < slot_count /\ value[freed[n]] = Null
    BY <1>1, <1>2, <1>3 DEF FreeListExact
  <1>6. \A i \in 1..(n - 1) : freed[i] \in Slots
    BY <1>1
  <1>7. n - 1 \in Int
    BY <1>1
  <1>8. /\ SubSeq(freed, 1, n - 1) \in Seq(Slots)
        /\ Len(SubSeq(freed, 1, n - 1)) = IF 1 <= n - 1 THEN (n - 1) - 1 + 1 ELSE 0
        /\ \A i \in 1..((n - 1) - 1 + 1) : SubSeq(freed, 1, n - 1)[i] = freed[1 + i - 1]
    BY <1>6, <1>7, SubSeqProperties
  <1> HIDE DEF n
  <1>9. Len(SubSeq(freed, 1, n - 1)) = n - 1
    <2>1. CASE n = 1
      BY <1>8, <2>1
    <2>2. CASE n > 1
      BY <1>1, <1>8, <2>2
    <2> QED
      BY <1>1, <1>2, <2>1, <2>2
  <1>10. \A i \in 1..(n - 1) : SubSeq(freed, 1, n - 1)[i] = freed[i]
    BY <1>1, <1>8
  <1> QED
    BY <1>1, <1>2, <1>3, <1>4, <1>5, <1>8, <1>9, <1>10 DEF n

(* A free_head of 0 means that nothing is free. *)
LEMMA EmptyFacts ==
    ASSUME TypeOK, FreeListExact, free_head = 0
    PROVE  freed = <<>> /\ Len(freed) = 0
  <1>1. ASSUME freed # <<>> PROVE FALSE
    <2>1. Len(freed) \in 1..Len(freed)
      BY <1>1, EmptySeq DEF TypeOK
    <2>2. freed[Len(freed)] \in Slots
      BY <2>1, ElementOfSeq DEF TypeOK
    <2> QED
      BY <1>1, <2>2 DEF FreeListExact, Slots
  <1> QED
    BY <1>1, EmptySeq
-----------------------------------------------------------------------------
(* Taking the head of the free list preserves the invariant. *)
LEMMA PinReusedInv ==
    ASSUME PinInv, NEW v \in Values, PinReused(v)
    PROVE  PinInv'
  <1> DEFINE h == free_head - 1
             n == Len(freed)
  <1>1. /\ n \in Nat \ {0}
        /\ freed[n] = h /\ h \in Slots /\ h < slot_count /\ value[h] = Null
        /\ freed' \in Seq(Slots) /\ Len(freed') = n - 1
        /\ \A i \in 1..(n - 1) : freed'[i] = freed[i]
    BY PopFacts DEF PinInv, PinReused
  <1>2. /\ free_head' = next_free[h]
        /\ value' = [value EXCEPT ![h] = v]
        /\ next_free' = [next_free EXCEPT ![h] = 0]
        /\ given' = given \cup {[ref |-> [slot |-> h, generation |-> generation[h]], nth |-> reuse[h]]}
        /\ UNCHANGED <<slot_count, generation, reuse>>
    BY DEF PinReused, Occupy
  <1> HIDE DEF h, n
  <1>3. v # Null
    BY PinAssumption
  <1>4. generation[h] \in Generations /\ reuse[h] \in Nat
    BY <1>1 DEF PinInv, TypeOK
  <1>5. TypeOK'
    <2>1. [ref |-> [slot |-> h, generation |-> generation[h]], nth |-> reuse[h]] \in [ref : Refs, nth : Nat]
      BY <1>1, <1>4 DEF Refs
    <2>2. given' \subseteq [ref : Refs, nth : Nat]
      BY <1>2, <2>1 DEF PinInv, TypeOK
    <2>3. 0 \in 0..SlotCap
      BY PinAssumption
    <2> QED
      BY <1>1, <1>2, <2>2, <2>3 DEF PinInv, TypeOK
  <1>6. FreeListExact'
    <2>1. ASSUME NEW s \in Slots
          PROVE  (\E i \in 1..Len(freed') : freed'[i] = s) <=> (s < slot_count' /\ value'[s] = Null)
      <3>1. CASE s = h
        <4>1. value'[s] # Null
          BY <1>1, <1>2, <1>3, <3>1 DEF PinInv, TypeOK
        <4>2. ASSUME NEW i \in 1..(n - 1), freed'[i] = h PROVE FALSE
          <5>1. freed[i] = freed[n] /\ i \in 1..n /\ n \in 1..n /\ i # n
            BY <1>1, <4>2
          <5> QED
            BY <5>1 DEF PinInv, FreeListExact, n
        <4> QED
          BY <1>1, <3>1, <4>1, <4>2
      <3>2. CASE s # h
        <4>1. value'[s] = value[s]
          BY <1>1, <1>2, <3>2 DEF PinInv, TypeOK
        <4>2. (\E i \in 1..(n - 1) : freed'[i] = s) <=> (\E i \in 1..n : freed[i] = s)
          BY <1>1, <3>2
        <4>3. (\E i \in 1..n : freed[i] = s) <=> (s < slot_count /\ value[s] = Null)
          BY DEF PinInv, FreeListExact, n
        <4> QED
          BY <1>1, <1>2, <4>1, <4>2, <4>3
      <3> QED
        BY <3>1, <3>2
    <2>2. \A i, j \in 1..Len(freed') : freed'[i] = freed'[j] => i = j
      BY <1>1 DEF PinInv, FreeListExact, n
    <2>3. free_head' = IF freed' = <<>> THEN 0 ELSE freed'[Len(freed')] + 1
      <3>1. next_free[h] = IF n = 1 THEN 0 ELSE freed[n - 1] + 1
        BY <1>1 DEF PinInv, FreeListExact, n
      <3>2. (freed' = <<>>) <=> (n = 1)
        BY <1>1, EmptySeq
      <3>3. n # 1 => freed'[n - 1] = freed[n - 1]
        BY <1>1
      <3> QED
        BY <1>1, <1>2, <3>1, <3>2, <3>3
    <2>4. ASSUME NEW i \in 1..Len(freed')
          PROVE  next_free'[freed'[i]] = IF i = 1 THEN 0 ELSE freed'[i - 1] + 1
      <3>1. i \in 1..n /\ n \in 1..n /\ i # n /\ freed'[i] = freed[i]
        BY <1>1
      <3>2. freed[i] # h /\ freed[i] \in Slots
        BY <1>1, <3>1, ElementOfSeq DEF PinInv, FreeListExact, TypeOK, n
      <3>3. next_free'[freed[i]] = next_free[freed[i]]
        BY <1>1, <1>2, <3>2 DEF PinInv, TypeOK
      <3>4. next_free[freed[i]] = IF i = 1 THEN 0 ELSE freed[i - 1] + 1
        BY <3>1 DEF PinInv, FreeListExact, n
      <3>5. i # 1 => freed'[i - 1] = freed[i - 1]
        BY <1>1, <3>1
      <3> QED
        BY <3>1, <3>3, <3>4, <3>5
    <2> QED
      BY <2>1, <2>2, <2>3, <2>4 DEF FreeListExact
  <1>7. BeyondClear'
    BY <1>1, <1>2 DEF PinInv, TypeOK, BeyondClear, Slots
  <1>8. GivenTracked'
    <2>1. ASSUME NEW g \in given' PROVE
             LET s == g.ref.slot  d == reuse'[s] - g.nth
             IN  /\ s < slot_count'
                 /\ g.nth <= reuse'[s]
                 /\ value'[s] = Null => g.nth < reuse'[s]
                 /\ d < GenMod => generation'[s] = IF g.ref.generation + d < GenMod
                                                    THEN g.ref.generation + d
                                                    ELSE g.ref.generation + d - GenMod
      <3>1. CASE g \in given
        <4>1. g.ref.slot \in Slots
          BY <3>1 DEF PinInv, TypeOK, Refs
        <4>2. value'[g.ref.slot] = Null => value[g.ref.slot] = Null
          BY <1>1, <1>2, <4>1 DEF PinInv, TypeOK
        <4> QED
          BY <1>2, <3>1, <4>1, <4>2 DEF PinInv, GivenTracked
      <3>2. CASE g = [ref |-> [slot |-> h, generation |-> generation[h]], nth |-> reuse[h]]
        <4>1. g.ref.slot = h /\ g.nth = reuse[h] /\ g.ref.generation = generation[h]
          BY <3>2
        <4>2. value'[h] # Null
          BY <1>1, <1>2, <1>3 DEF PinInv, TypeOK
        <4> QED
          BY <1>1, <1>2, <1>4, <4>1, <4>2, PinAssumption DEF Generations
      <3> QED
        BY <1>2, <3>1, <3>2
    <2> QED
      BY <2>1 DEF GivenTracked
  <1>9. PinnedGiven'
    <2>1. ASSUME NEW s \in Slots, value'[s] # Null
          PROVE  \E g \in given' : g.ref = [slot |-> s, generation |-> generation'[s]]
      <3>1. CASE s = h
        <4>1. [ref |-> [slot |-> h, generation |-> generation[h]], nth |-> reuse[h]] \in given'
          BY <1>2
        <4> QED
          BY <1>2, <3>1, <4>1
      <3>2. CASE s # h
        <4>1. value[s] # Null
          BY <1>1, <1>2, <2>1, <3>2 DEF PinInv, TypeOK
        <4> QED
          BY <1>2, <4>1 DEF PinInv, PinnedGiven
      <3> QED
        BY <3>1, <3>2
    <2> QED
      BY <2>1 DEF PinnedGiven
  <1> QED
    BY <1>5, <1>6, <1>7, <1>8, <1>9 DEF PinInv

(* Growing the table preserves the invariant: its new slot was clear. *)
LEMMA PinGrownInv ==
    ASSUME PinInv, NEW v \in Values, PinGrown(v)
    PROVE  PinInv'
  <1> DEFINE h == slot_count
             ref0 == [slot |-> h, generation |-> 0]
  <1>1. h \in Slots /\ h < SlotCap /\ 0 \in Generations /\ v # Null /\ reuse[h] \in Nat
    BY PinAssumption DEF PinInv, TypeOK, PinGrown, Slots, Generations
  <1>2. /\ value' = [value EXCEPT ![h] = v]
        /\ generation' = [generation EXCEPT ![h] = 0]
        /\ next_free' = [next_free EXCEPT ![h] = 0]
        /\ given' = given \cup {[ref |-> ref0, nth |-> reuse[h]]}
        /\ slot_count' = h + 1
        /\ UNCHANGED <<free_head, freed, reuse>>
    BY DEF PinGrown, Occupy
  <1>3. freed = <<>> /\ Len(freed) = 0
    BY EmptyFacts DEF PinInv, PinGrown
  <1>4. \A g \in given : g.ref.slot \in Slots /\ g.ref.slot < h
    BY DEF PinInv, TypeOK, GivenTracked, Refs
  <1> HIDE DEF h
  <1>5. TypeOK'
    <2>1. [ref |-> ref0, nth |-> reuse[h]] \in [ref : Refs, nth : Nat]
      BY <1>1 DEF Refs
    <2>2. given' \subseteq [ref : Refs, nth : Nat]
      BY <1>2, <2>1 DEF PinInv, TypeOK
    <2>3. slot_count' \in 0..SlotCap /\ 0 \in 0..SlotCap
      BY <1>1, <1>2, PinAssumption DEF Slots
    <2> QED
      BY <1>1, <1>2, <2>2, <2>3 DEF PinInv, TypeOK
  <1>6. FreeListExact'
    <2>1. ASSUME NEW s \in Slots PROVE ~(s < slot_count' /\ value'[s] = Null)
      <3>1. s < h => value[s] # Null
        BY <1>3 DEF PinInv, FreeListExact, h
      <3> QED
        BY <1>1, <1>2, <3>1, PinAssumption DEF PinInv, TypeOK, Slots
    <2> QED
      BY <1>2, <1>3, <2>1 DEF PinInv, FreeListExact
  <1>7. BeyondClear'
    BY <1>1, <1>2 DEF PinInv, TypeOK, BeyondClear, Slots, h
  <1>8. GivenTracked'
    <2>1. ASSUME NEW g \in given' PROVE
             LET s == g.ref.slot  d == reuse'[s] - g.nth
             IN  /\ s < slot_count'
                 /\ g.nth <= reuse'[s]
                 /\ value'[s] = Null => g.nth < reuse'[s]
                 /\ d < GenMod => generation'[s] = IF g.ref.generation + d < GenMod
                                                    THEN g.ref.generation + d
                                                    ELSE g.ref.generation + d - GenMod
      <3>1. CASE g \in given
        <4>1. g.ref.slot \in Slots /\ g.ref.slot < h
          BY <1>4, <3>1
        <4>2. value'[g.ref.slot] = value[g.ref.slot] /\ generation'[g.ref.slot] = generation[g.ref.slot]
          BY <1>1, <1>2, <4>1 DEF PinInv, TypeOK, Slots
        <4>3. g.ref.slot < slot_count'
          BY <1>1, <1>2, <4>1 DEF Slots
        <4> QED
          BY <1>2, <3>1, <4>2, <4>3 DEF PinInv, GivenTracked
      <3>2. CASE g = [ref |-> ref0, nth |-> reuse[h]]
        <4>1. g.ref.slot = h /\ g.nth = reuse[h] /\ g.ref.generation = 0
          BY <3>2
        <4>2. value'[h] # Null /\ generation'[h] = 0
          BY <1>1, <1>2 DEF PinInv, TypeOK
        <4>3. h < slot_count'
          BY <1>1, <1>2 DEF Slots
        <4> QED
          BY <1>1, <1>2, <4>1, <4>2, <4>3, PinAssumption
      <3> QED
        BY <1>2, <3>1, <3>2
    <2> QED
      BY <2>1 DEF GivenTracked
  <1>9. PinnedGiven'
    <2>1. ASSUME NEW s \in Slots, value'[s] # Null
          PROVE  \E g \in given' : g.ref = [slot |-> s, generation |-> generation'[s]]
      <3>1. CASE s = h
        <4>1. [ref |-> ref0, nth |-> reuse[h]] \in given' /\ generation'[h] = 0
          BY <1>1, <1>2 DEF PinInv, TypeOK
        <4> QED
          BY <3>1, <4>1
      <3>2. CASE s # h
        <4>1. value[s] # Null /\ generation'[s] = generation[s]
          BY <1>1, <1>2, <2>1, <3>2 DEF PinInv, TypeOK
        <4> QED
          BY <1>2, <4>1 DEF PinInv, PinnedGiven
      <3> QED
        BY <3>1, <3>2
    <2> QED
      BY <2>1 DEF PinnedGiven
  <1> QED
    BY <1>5, <1>6, <1>7, <1>8, <1>9 DEF PinInv

(* Releasing a reference preserves the invariant: its slot becomes the     *)
(* head of the free list and its generation moves past every reference.    *)
LEMMA UnpinInv ==
    ASSUME PinInv, NEW ref \in Refs, Unpin(ref)
    PROVE  PinInv'
  <1> DEFINE h == ref.slot
             n == Len(freed)
  <1>1. /\ h \in Slots /\ h < slot_count /\ value[h] # Null
        /\ reuse[h] \in Nat /\ generation[h] \in Generations
    BY DEF Unpin, Resolves, Refs, PinInv, TypeOK
  <1>2. /\ value' = [value EXCEPT ![h] = Null]
        /\ generation' = [generation EXCEPT ![h] = Bumped(generation[h])]
        /\ next_free' = [next_free EXCEPT ![h] = free_head]
        /\ reuse' = [reuse EXCEPT ![h] = reuse[h] + 1]
        /\ free_head' = h + 1
        /\ UNCHANGED <<slot_count, given>>
    BY DEF Unpin
  <1>3. Bumped(generation[h]) \in Generations
    BY <1>1, PinAssumption DEF Bumped, Generations
  <1>4. /\ n \in Nat
        /\ \A i \in 1..n : freed[i] \in Slots /\ freed[i] # h
        /\ freed' \in Seq(Slots) /\ freed' # <<>> /\ Len(freed') = n + 1
        /\ \A i \in 1..n : freed'[i] = freed[i]
        /\ freed'[n + 1] = h
    <2>1. n \in Nat /\ \A i \in 1..n : freed[i] \in Slots
      BY ElementOfSeq, LenProperties DEF PinInv, TypeOK
    <2>2. \A i \in 1..n : freed[i] # h
      BY <1>1 DEF PinInv, FreeListExact
    <2>3. freed' = Append(freed, h) /\ freed \in Seq(Slots)
      BY DEF Unpin, PinInv, TypeOK
    <2> QED
      BY <1>1, <2>1, <2>2, <2>3, AppendProperties
  <1> HIDE DEF h, n
  <1>5. TypeOK'
    <2>1. free_head' \in 0..SlotCap
      BY <1>1, <1>2, PinAssumption DEF Slots
    <2> QED
      BY <1>1, <1>2, <1>3, <1>4, <2>1 DEF PinInv, TypeOK
  <1>6. FreeListExact'
    <2>1. ASSUME NEW s \in Slots
          PROVE  (\E i \in 1..Len(freed') : freed'[i] = s) <=> (s < slot_count' /\ value'[s] = Null)
      <3>1. CASE s = h
        <4>1. value'[s] = Null /\ n + 1 \in 1..Len(freed')
          BY <1>1, <1>2, <1>4, <3>1 DEF PinInv, TypeOK
        <4> QED
          BY <1>1, <1>2, <1>4, <3>1, <4>1
      <3>2. CASE s # h
        <4>1. value'[s] = value[s]
          BY <1>1, <1>2, <3>2 DEF PinInv, TypeOK
        <4>2. (\E i \in 1..(n + 1) : freed'[i] = s) <=> (\E i \in 1..n : freed[i] = s)
          BY <1>4, <3>2
        <4>3. (\E i \in 1..n : freed[i] = s) <=> (s < slot_count /\ value[s] = Null)
          BY DEF PinInv, FreeListExact, n
        <4> QED
          BY <1>4, <1>2, <4>1, <4>2, <4>3
      <3> QED
        BY <3>1, <3>2
    <2>2. ASSUME NEW i \in 1..Len(freed'), NEW j \in 1..Len(freed'), freed'[i] = freed'[j] PROVE i = j
      <3>1. (i \in 1..n \/ i = n + 1) /\ (j \in 1..n \/ j = n + 1)
        BY <1>4
      <3>2. \A k, l \in 1..n : freed[k] = freed[l] => k = l
        BY DEF PinInv, FreeListExact, n
      <3> QED
        BY <1>4, <2>2, <3>1, <3>2
    <2>3. free_head' = IF freed' = <<>> THEN 0 ELSE freed'[Len(freed')] + 1
      BY <1>2, <1>4
    <2>4. ASSUME NEW i \in 1..Len(freed')
          PROVE  next_free'[freed'[i]] = IF i = 1 THEN 0 ELSE freed'[i - 1] + 1
      <3>1. CASE i \in 1..n
        <4>1. freed'[i] = freed[i] /\ next_free'[freed[i]] = next_free[freed[i]]
          BY <1>1, <1>2, <1>4, <3>1 DEF PinInv, TypeOK
        <4>2. next_free[freed[i]] = IF i = 1 THEN 0 ELSE freed[i - 1] + 1
          BY <3>1 DEF PinInv, FreeListExact, n
        <4>3. i # 1 => freed'[i - 1] = freed[i - 1]
          BY <1>4, <3>1
        <4> QED
          BY <4>1, <4>2, <4>3
      <3>2. CASE i = n + 1
        <4>1. freed'[i] = h /\ next_free'[h] = free_head
          BY <1>1, <1>2, <1>4, <3>2 DEF PinInv, TypeOK
        <4>2. (freed = <<>>) <=> (n = 0)
          BY EmptySeq DEF PinInv, TypeOK, n
        <4>3. free_head = IF freed = <<>> THEN 0 ELSE freed[n] + 1
          BY DEF PinInv, FreeListExact, n
        <4>4. n # 0 => freed'[n] = freed[n] /\ i # 1 /\ i - 1 = n
          BY <1>4, <3>2
        <4>5. n = 0 => i = 1
          BY <3>2
        <4> QED
          BY <1>4, <4>1, <4>2, <4>3, <4>4, <4>5
      <3> QED
        BY <1>4, <3>1, <3>2
    <2> QED
      BY <2>1, <2>2, <2>3, <2>4 DEF FreeListExact
  <1>7. BeyondClear'
    BY <1>1, <1>2 DEF PinInv, TypeOK, BeyondClear, Slots
  <1>8. GivenTracked'
    <2>1. ASSUME NEW g \in given' PROVE
             LET s == g.ref.slot  d == reuse'[s] - g.nth
             IN  /\ s < slot_count'
                 /\ g.nth <= reuse'[s]
                 /\ value'[s] = Null => g.nth < reuse'[s]
                 /\ d < GenMod => generation'[s] = IF g.ref.generation + d < GenMod
                                                    THEN g.ref.generation + d
                                                    ELSE g.ref.generation + d - GenMod
      <3>1. g \in given /\ g.ref.slot \in Slots /\ g.nth \in Nat /\ g.ref.generation \in Generations
        BY <1>2 DEF PinInv, TypeOK, Refs
      <3>2. /\ g.ref.slot < slot_count
            /\ g.nth <= reuse[g.ref.slot]
            /\ value[g.ref.slot] = Null => g.nth < reuse[g.ref.slot]
            /\ reuse[g.ref.slot] - g.nth < GenMod =>
                 generation[g.ref.slot] =
                   IF g.ref.generation + (reuse[g.ref.slot] - g.nth) < GenMod
                     THEN g.ref.generation + (reuse[g.ref.slot] - g.nth)
                     ELSE g.ref.generation + (reuse[g.ref.slot] - g.nth) - GenMod
        BY <3>1 DEF PinInv, GivenTracked
      <3>3. CASE g.ref.slot = h
        <4>1. reuse'[h] = reuse[h] + 1 /\ generation'[h] = Bumped(generation[h])
          BY <1>1, <1>2 DEF PinInv, TypeOK
        <4> QED
          BY <1>1, <1>2, <3>1, <3>2, <3>3, <4>1, PinAssumption DEF Bumped, Generations
      <3>4. CASE g.ref.slot # h
        <4>1. /\ reuse'[g.ref.slot] = reuse[g.ref.slot]
              /\ generation'[g.ref.slot] = generation[g.ref.slot]
              /\ value'[g.ref.slot] = value[g.ref.slot]
          BY <1>1, <1>2, <3>1, <3>4 DEF PinInv, TypeOK
        <4> QED
          BY <1>2, <3>2, <4>1
      <3> QED
        BY <3>3, <3>4
    <2> QED
      BY <2>1 DEF GivenTracked
  <1>9. PinnedGiven'
    <2>1. ASSUME NEW s \in Slots, value'[s] # Null
          PROVE  \E g \in given' : g.ref = [slot |-> s, generation |-> generation'[s]]
      <3>1. value[s] # Null /\ generation'[s] = generation[s]
        BY <1>1, <1>2, <2>1 DEF PinInv, TypeOK
      <3> QED
        BY <1>2, <3>1 DEF PinInv, PinnedGiven
    <2> QED
      BY <2>1 DEF PinnedGiven
  <1> QED
    BY <1>5, <1>6, <1>7, <1>8, <1>9 DEF PinInv
-----------------------------------------------------------------------------
(* Every step of the table preserves the invariant. *)
LEMMA StepInv == PinInv /\ [Next]_vars => PinInv'
  <1> SUFFICES ASSUME PinInv, [Next]_vars PROVE PinInv'
      OBVIOUS
  <1>1. ASSUME UNCHANGED vars PROVE PinInv'
    BY <1>1 DEF vars, PinInv, TypeOK, FreeListExact, BeyondClear, GivenTracked, PinnedGiven
  <1> QED
    BY <1>1, PinReusedInv, PinGrownInv, UnpinInv DEF Next, PinRejected, UnpinRejected

(* PinInv is an invariant of the table. *)
THEOREM Invariance == Spec => []PinInv
  BY InitInv, StepInv, PTL DEF Spec

(* The fields of the table keep their types. *)
THEOREM TypeCorrect == Spec => []TypeOK
  <1>1. PinInv => TypeOK
    BY DEF PinInv
  <1> QED
    BY Invariance, <1>1, PTL

(* The free list holds exactly the slots that are not pinned, for any      *)
(* table size, so wah_pin never hands out a slot that is in use.           *)
THEOREM FreeListCorrect == Spec => []FreeListExact
  <1>1. PinInv => FreeListExact
    BY DEF PinInv
  <1> QED
    BY Invariance, <1>1, PTL

(* Released references stay rejected until GenMod releases of their slot,  *)
(* and references not released resolve, for any number of generations.     *)
THEOREM StaleRejected == Spec => []OnlyCurrentResolves
  <1>1. PinInv => OnlyCurrentResolves
    <2> SUFFICES ASSUME PinInv, NEW g \in given, reuse[g.ref.slot] - g.nth < GenMod
                 PROVE  Resolves(g.ref) <=> reuse[g.ref.slot] = g.nth
        BY DEF OnlyCurrentResolves
    <2>1. /\ g.ref.slot \in Slots /\ g.nth \in Nat /\ g.ref.generation \in Generations
          /\ reuse[g.ref.slot] \in Nat
      BY DEF PinInv, TypeOK, Refs
    <2>2. /\ g.ref.slot < slot_count
          /\ g.nth <= reuse[g.ref.slot]
          /\ value[g.ref.slot] = Null => g.nth < reuse[g.ref.slot]
          /\ generation[g.ref.slot] =
               IF g.ref.generation + (reuse[g.ref.slot] - g.nth) < GenMod
                 THEN g.ref.generation + (reuse[g.ref.slot] - g.nth)
                 ELSE g.ref.generation + (reuse[g.ref.slot] - g.nth) - GenMod
      BY DEF PinInv, GivenTracked
    <2> QED
      BY <2>1, <2>2, PinAssumption DEF Resolves, Generations
  <1> QED
    BY Invariance, <1>1, PTL

(* Only references that wah_pin returned resolve. *)
THEOREM ForgedRejected == Spec => []OnlyGivenResolves
  <1>1. PinInv => OnlyGivenResolves
    <2> SUFFICES ASSUME PinInv, NEW ref \in Refs, Resolves(ref)
                 PROVE  \E g \in given : g.ref = ref
        BY DEF OnlyGivenResolves
    <2>1. ref = [slot |-> ref.slot, generation |-> generation[ref.slot]] /\ ref.slot \in Slots
      BY DEF Refs, Resolves
    <2> QED
      BY <2>1 DEF PinInv, PinnedGiven, Resolves
  <1> QED
    BY Invariance, <1>1, PTL

(* The table grows only when every slot it has is pinned. *)
THEOREM NoSlotLeak == Spec => GrowsOnlyWhenFull
  <1>1. PinInv /\ [Next]_vars =>
          [slot_count' # slot_count => \A s \in Slots : s < slot_count => s \in Pinned]_vars
    <2> SUFFICES ASSUME PinInv, [Next]_vars, slot_count' # slot_count,
                        NEW s \in Slots, s < slot_count
                 PROVE  value[s] # Null
        BY DEF Pinned
    <2>1. free_head = 0
      BY DEF Next, vars, PinReused, PinGrown, PinRejected, Unpin, UnpinRejected
    <2>2. Len(freed) = 0
      BY <2>1, EmptyFacts DEF PinInv
    <2> QED
      BY <2>2 DEF PinInv, FreeListExact
  <1> QED
    BY Invariance, <1>1, PTL DEF Spec, GrowsOnlyWhenFull

-----------------------------------------------------------------------------
(* PinBatch.  The table's own invariant is tied to the references of the    *)
(* running call.                                                            *)

Calls  == {"none", "finish", "entry"}
JobPhases == {"idle", "pinning", "starting", "unpinning"}
Jobs   == [call : Calls, phase : JobPhases, todo : Seq(Values \cup {Null}), refs : Seq(Refs \cup {NoRef})]

BatchTypeOK == job \in Jobs /\ hosts \subseteq Slots

(* The i-th reference of the running call is slot s. *)
HeldAt(i, s) == job.refs[i] \in Refs /\ job.refs[i].slot = s

(* Every reference the running call holds resolves, and none twice. *)
HeldCurrent ==
    /\ \A i \in 1..Len(job.refs) : job.refs[i] \in Refs => Resolves(job.refs[i])
    /\ \A i, j \in 1..Len(job.refs) :
          job.refs[i] \in Refs /\ job.refs[j] \in Refs /\ job.refs[i].slot = job.refs[j].slot => i = j

(* A pinned slot has exactly one holder, slot by slot. *)
OneHolder ==
    \A s \in Slots :
        /\ value[s] # Null <=> s \in hosts \/ \E i \in 1..Len(job.refs) : HeldAt(i, s)
        /\ s \in hosts => \A i \in 1..Len(job.refs) : ~HeldAt(i, s)

BatchInv == PinInv /\ BatchTypeOK /\ HeldCurrent /\ OneHolder
-----------------------------------------------------------------------------
(* NULL is not a reference to a slot, and never resolves. *)
LEMMA NoRefFacts ==
    /\ NoRef \notin Refs
    /\ TypeOK => ~Resolves(NoRef)
  BY PinAssumption DEF NoRef, Refs, Slots, TypeOK, Resolves

(* wah_pin occupies one clear slot and touches no other. *)
LEMMA PinFacts ==
    ASSUME PinInv, NEW v \in Values, PinReused(v) \/ PinGrown(v)
    PROVE  LET s == IF free_head # 0 THEN free_head - 1 ELSE slot_count
           IN  /\ s \in Slots /\ value[s] = Null /\ value'[s] # Null
               /\ s < slot_count' /\ slot_count <= slot_count'
               /\ generation'[s] \in Generations
               /\ \A u \in Slots : u # s => value'[u] = value[u] /\ generation'[u] = generation[u]
  <1> DEFINE s == IF free_head # 0 THEN free_head - 1 ELSE slot_count
  <1>0. /\ TypeOK /\ FreeListExact /\ BeyondClear /\ v # Null
        /\ slot_count \in 0..SlotCap /\ SlotCap \in Nat \ {0} /\ free_head \in 0..SlotCap
    BY PinAssumption DEF PinInv, TypeOK
  <1>1. CASE PinReused(v)
    <2>1. s = free_head - 1 /\ free_head # 0
      BY <1>1 DEF PinReused
    <2>2. s \in Slots /\ s < slot_count /\ value[s] = Null
      BY <1>0, <2>1, PopFacts
    <2>3. value' = [value EXCEPT ![s] = v] /\ slot_count' = slot_count /\ generation' = generation
      BY <1>1, <2>1 DEF PinReused, Occupy
    <2> HIDE DEF s
    <2>4. value'[s] = v /\ generation[s] \in Generations
      BY <1>0, <2>2, <2>3 DEF TypeOK
    <2>5. \A u \in Slots : u # s => value'[u] = value[u]
      BY <1>0, <2>3 DEF TypeOK
    <2>6. s < slot_count' /\ slot_count <= slot_count'
      BY <1>0, <2>2, <2>3
    <2> QED
      BY <1>0, <2>2, <2>3, <2>4, <2>5, <2>6 DEF s
  <1>2. CASE PinGrown(v)
    <2>1. s = slot_count /\ slot_count < SlotCap
      BY <1>2 DEF PinGrown
    <2>2. s \in Slots
      BY <1>0, <2>1 DEF Slots
    <2>3. value[s] = Null
      BY <1>0, <2>1, <2>2 DEF BeyondClear
    <2>4. /\ value' = [value EXCEPT ![s] = v] /\ slot_count' = slot_count + 1
          /\ generation' = [generation EXCEPT ![s] = 0]
      BY <1>2, <2>1 DEF PinGrown, Occupy
    <2>5. s < slot_count' /\ slot_count <= slot_count'
      BY <1>0, <2>1, <2>4
    <2>6. 0 \in Generations
      BY PinAssumption DEF Generations
    <2> HIDE DEF s
    <2>7. /\ value'[s] = v /\ generation'[s] = 0
          /\ \A u \in Slots : u # s => value'[u] = value[u] /\ generation'[u] = generation[u]
      BY <1>0, <2>2, <2>4 DEF TypeOK
    <2> QED
      BY <1>0, <2>2, <2>3, <2>5, <2>6, <2>7 DEF s
  <1> QED
    BY <1>1, <1>2

(* wah_unpin clears one slot and touches no other. *)
LEMMA UnpinFacts ==
    ASSUME TypeOK, NEW ref \in Refs, Unpin(ref)
    PROVE  /\ ref.slot \in Slots /\ value[ref.slot] # Null /\ value'[ref.slot] = Null
           /\ generation[ref.slot] = ref.generation /\ slot_count' = slot_count
           /\ \A u \in Slots : u # ref.slot => value'[u] = value[u] /\ generation'[u] = generation[u]
  BY DEF Unpin, Resolves, TypeOK, Refs

(* The references of a call are a sequence of slots' references and NULLs. *)
LEMMA JobFacts ==
    ASSUME BatchTypeOK
    PROVE  /\ job.refs \in Seq(Refs \cup {NoRef}) /\ Len(job.refs) \in Nat
           /\ \A i \in 1..Len(job.refs) : job.refs[i] \in Refs \cup {NoRef}
           /\ job.todo \in Seq(Values \cup {Null})
  <1>1. job.refs \in Seq(Refs \cup {NoRef}) /\ job.todo \in Seq(Values \cup {Null})
    BY DEF BatchTypeOK, Jobs
  <1> QED
    BY <1>1, LenProperties, ElementOfSeq

(* A step that leaves the table alone leaves the references current. *)
LEMMA TableKept ==
    ASSUME BatchInv, UNCHANGED vars
    PROVE  PinInv' /\ \A ref : Resolves(ref)' <=> Resolves(ref)
  BY StepInv DEF BatchInv, vars, Resolves

(* wah_pin for the host or for the call does not disturb what is held. *)
LEMMA HeldAfterPin ==
    ASSUME BatchInv, NEW v \in Values, PinReused(v) \/ PinGrown(v)
    PROVE  /\ PinInv'
           /\ \A r \in Refs : (\E i \in 1..Len(job.refs) : job.refs[i] = r) =>
                 /\ Resolves(r)'
                 /\ r.slot # IF free_head # 0 THEN free_head - 1 ELSE slot_count
  <1> DEFINE s == IF free_head # 0 THEN free_head - 1 ELSE slot_count
  <1>1. PinInv /\ TypeOK
    BY DEF BatchInv, PinInv
  <1>2. PinInv'
    BY <1>1, PinReusedInv, PinGrownInv
  <1>3. /\ s \in Slots /\ value[s] = Null /\ slot_count <= slot_count'
        /\ \A u \in Slots : u # s => value'[u] = value[u] /\ generation'[u] = generation[u]
    BY <1>1, PinFacts
  <1>4. slot_count \in 0..SlotCap /\ slot_count' \in 0..SlotCap /\ SlotCap \in Nat
    BY <1>1, <1>2, PinAssumption DEF PinInv, TypeOK
  <1> HIDE DEF s
  <1>5. ASSUME NEW r \in Refs, NEW i \in 1..Len(job.refs), job.refs[i] = r
        PROVE  Resolves(r)' /\ r.slot # s
    <2>1. r.slot < slot_count /\ value[r.slot] # Null /\ generation[r.slot] = r.generation
      BY <1>5 DEF BatchInv, HeldCurrent, Resolves
    <2>2. r.slot # s /\ r.slot \in Slots
      BY <1>3, <2>1 DEF Refs
    <2>3. value'[r.slot] # Null /\ generation'[r.slot] = r.generation
      BY <1>3, <2>1, <2>2
    <2>4. r.slot < slot_count'
      <3>1. PICK n \in 0..SlotCap : n = slot_count' /\ slot_count <= n
        BY <1>3, <1>4
      <3>2. r.slot < n
        BY <1>4, <2>1, <2>2, <3>1 DEF Slots
      <3> QED
        BY <3>1, <3>2
    <2>5. r.slot < slot_count' /\ value'[r.slot] # Null /\ generation'[r.slot] = r.generation
      BY <2>3, <2>4
    <2> QED
      BY <2>2, <2>5 DEF Resolves
  <1> QED
    BY <1>2, <1>5 DEF s

(* A step that leaves the table and the host's references alone, and the   *)
(* references of the call up to NULLs, preserves the invariant.            *)
LEMMA JobOnlyInv ==
    ASSUME BatchInv, UNCHANGED vars, job' \in Jobs, hosts' \subseteq Slots,
           HeldCurrent', OneHolder'
    PROVE  BatchInv'
  BY TableKept DEF BatchInv, BatchTypeOK

(* The host's own pins are added to what the host holds. *)
LEMMA HostPinInv ==
    ASSUME BatchInv, HostPin
    PROVE  BatchInv'
  <1>0. /\ PinInv /\ TypeOK /\ BatchTypeOK /\ job' = job
        /\ hosts' = hosts \cup {u \in Slots : value'[u] # value[u]}
    BY DEF BatchInv, PinInv, HostPin
  <1>1. CASE PinRejected
    <2>1. UNCHANGED vars
      BY <1>1 DEF PinRejected
    <2>2. value' = value /\ hosts' = hosts
      BY <1>0, <2>1 DEF vars
    <2>3. PinInv' /\ \A ref : Resolves(ref)' <=> Resolves(ref)
      BY <2>1, TableKept
    <2> QED
      BY <1>0, <2>2, <2>3 DEF BatchInv, BatchTypeOK, HeldCurrent, OneHolder, HeldAt
  <1>2. ASSUME NEW v \in Values, PinReused(v) \/ PinGrown(v) PROVE BatchInv'
    <2> DEFINE s == IF free_head # 0 THEN free_head - 1 ELSE slot_count
    <2>1. /\ PinInv'
          /\ \A r \in Refs : (\E i \in 1..Len(job.refs) : job.refs[i] = r) => Resolves(r)' /\ r.slot # s
      BY <1>2, HeldAfterPin
    <2>2. /\ s \in Slots /\ value[s] = Null /\ value'[s] # Null
          /\ \A u \in Slots : u # s => value'[u] = value[u]
      BY <1>0, <1>2, PinFacts
    <2> HIDE DEF s
    <2>3. hosts' = hosts \cup {s}
      BY <1>0, <2>2
    <2>4. BatchTypeOK'
      BY <1>0, <2>2, <2>3 DEF BatchTypeOK
    <2>5. HeldCurrent'
      BY <1>0, <2>1 DEF BatchInv, HeldCurrent
    <2>6. \A i \in 1..Len(job.refs) : ~HeldAt(i, s)
      BY <2>1 DEF HeldAt
    <2>7. OneHolder'
      BY <1>0, <2>2, <2>3, <2>6 DEF BatchInv, OneHolder, HeldAt
    <2> QED
      BY <2>1, <2>4, <2>5, <2>7 DEF BatchInv
  <1> QED
    BY <1>1, <1>2 DEF HostPin

(* The host's unpins release nothing that the running call holds. *)
LEMMA HostUnpinInv ==
    ASSUME BatchInv, HostUnpin
    PROVE  BatchInv'
  <1>0. /\ PinInv /\ TypeOK /\ BatchTypeOK /\ job' = job
    BY DEF BatchInv, PinInv, HostUnpin
  <1>1. PICK ref \in Refs \ Held : \/ Unpin(ref) /\ hosts' = hosts \ {ref.slot}
                                   \/ UnpinRejected(ref) /\ UNCHANGED hosts
    BY DEF HostUnpin
  <1>2. CASE UnpinRejected(ref) /\ UNCHANGED hosts
    <2>1. UNCHANGED vars /\ hosts' = hosts
      BY <1>2 DEF UnpinRejected
    <2>2. value' = value
      BY <2>1 DEF vars
    <2>3. PinInv' /\ \A r : Resolves(r)' <=> Resolves(r)
      BY <2>1, TableKept
    <2> QED
      BY <1>0, <2>1, <2>2, <2>3 DEF BatchInv, BatchTypeOK, HeldCurrent, OneHolder, HeldAt
  <1>3. CASE Unpin(ref) /\ hosts' = hosts \ {ref.slot}
    <2>1. /\ ref.slot \in Slots /\ value[ref.slot] # Null /\ value'[ref.slot] = Null
          /\ generation[ref.slot] = ref.generation /\ slot_count' = slot_count
          /\ \A u \in Slots : u # ref.slot => value'[u] = value[u] /\ generation'[u] = generation[u]
      BY <1>0, <1>3, UnpinFacts
    <2>2. ASSUME NEW r \in Refs, NEW i \in 1..Len(job.refs), job.refs[i] = r
          PROVE  r.slot # ref.slot /\ Resolves(r)'
      <3>1. Resolves(r)
        BY <2>2 DEF BatchInv, HeldCurrent
      <3>2. r # ref
        <4>1. DOMAIN job.refs = 1..Len(job.refs)
          BY <1>0, JobFacts, LenProperties
        <4>2. r \in Held
          BY <2>2, <4>1, NoRefFacts DEF Held
        <4> QED
          BY <1>1, <4>2
      <3>3. r.slot # ref.slot
        <4>1. ASSUME r.slot = ref.slot PROVE r = ref
          BY <2>1, <3>1, <4>1 DEF Resolves, Refs
        <4> QED
          BY <3>2, <4>1
      <3> QED
        BY <2>1, <3>1, <3>3 DEF Resolves, Refs
    <2>3. HeldCurrent'
      BY <1>0, <2>2 DEF BatchInv, HeldCurrent
    <2>4. \A i \in 1..Len(job.refs) : ~HeldAt(i, ref.slot)
      BY <2>2 DEF HeldAt
    <2>5. OneHolder'
      BY <1>0, <1>3, <2>1, <2>4 DEF BatchInv, OneHolder, HeldAt
    <2>6. PinInv' /\ BatchTypeOK'
      BY <1>0, <1>3, UnpinInv DEF BatchTypeOK
    <2> QED
      BY <2>3, <2>5, <2>6 DEF BatchInv
  <1> QED
    BY <1>1, <1>2, <1>3
-----------------------------------------------------------------------------
(* A call begins with no reference of its own. *)
LEMMA BeginInv ==
    ASSUME BatchInv, Begin
    PROVE  BatchInv'
  <1>1. job = Idle /\ UNCHANGED vars /\ UNCHANGED hosts
    BY DEF Begin
  <1>2. PICK n \in 1..MaxBatch :
          \/ \E r \in [1..n -> Values \cup {Null}] :
                job' = [call |-> "finish", phase |-> "pinning", todo |-> r, refs |-> <<>>]
          \/ \E r \in [1..n -> Values] :
                job' = [call |-> "entry", phase |-> "pinning", todo |-> r, refs |-> <<>>]
    BY DEF Begin
  <1>3. \A r : (r \in [1..n -> Values \cup {Null}] \/ r \in [1..n -> Values])
                 => r \in Seq(Values \cup {Null})
    <2>1. n \in Nat
      BY MaxBatchAssumption
    <2>2. \A r \in [1..n -> Values] : r \in [1..n -> Values \cup {Null}]
      OBVIOUS
    <2> QED
      BY <2>1, <2>2, SeqDef
  <1>4. job' \in Jobs /\ job'.refs = <<>> /\ job.refs = <<>>
    <2>1. <<>> \in Seq(Refs \cup {NoRef})
      BY EmptySeq
    <2>2. PICK c \in {"finish", "entry"}, r \in Seq(Values \cup {Null}) :
            job' = [call |-> c, phase |-> "pinning", todo |-> r, refs |-> <<>>]
      BY <1>2, <1>3
    <2> QED
      BY <1>1, <2>1, <2>2 DEF Jobs, Calls, JobPhases, Idle
  <1>5. value' = value /\ \A r : Resolves(r)' <=> Resolves(r)
    BY <1>1, TableKept DEF vars
  <1>6. HeldCurrent' /\ OneHolder'
    BY <1>1, <1>4, <1>5 DEF BatchInv, HeldCurrent, OneHolder, HeldAt
  <1> QED
    BY <1>1, <1>4, <1>6, JobOnlyInv DEF BatchInv, BatchTypeOK

(* Steps of the call that touch neither the table nor its references. *)
LEMMA PhaseInv ==
    ASSUME BatchInv, UNCHANGED vars, UNCHANGED hosts, job' \in Jobs, job'.refs = job.refs
    PROVE  BatchInv'
  <1>1. value' = value /\ \A r : Resolves(r)' <=> Resolves(r)
    BY TableKept DEF vars
  <1>2. HeldCurrent' /\ OneHolder'
    BY <1>1 DEF BatchInv, HeldCurrent, OneHolder, HeldAt
  <1> QED
    BY <1>2, JobOnlyInv DEF BatchInv, BatchTypeOK

(* The call stores one more reference, or NULL. *)
LEMMA StoredFacts ==
    ASSUME BatchTypeOK, NEW ref \in Refs \cup {NoRef}, job.todo # <<>>, job' = Stored(ref)
    PROVE  /\ job' \in Jobs
           /\ job'.refs = Append(job.refs, ref)
           /\ Len(job'.refs) = Len(job.refs) + 1
           /\ job'.refs[Len(job.refs) + 1] = ref
           /\ \A i \in 1..Len(job.refs) : job'.refs[i] = job.refs[i]
  <1>1. job.refs \in Seq(Refs \cup {NoRef}) /\ job.todo \in Seq(Values \cup {Null})
    BY JobFacts
  <1>2. Tail(job.todo) \in Seq(Values \cup {Null})
    BY <1>1, HeadTailProperties
  <1>3. /\ Append(job.refs, ref) \in Seq(Refs \cup {NoRef})
        /\ Len(Append(job.refs, ref)) = Len(job.refs) + 1
        /\ Append(job.refs, ref)[Len(job.refs) + 1] = ref
        /\ \A i \in 1..Len(job.refs) : Append(job.refs, ref)[i] = job.refs[i]
    BY <1>1, AppendProperties
  <1>4. job' = [job EXCEPT !.todo = Tail(job.todo), !.refs = Append(job.refs, ref)]
    BY DEF Stored
  <1>5. job' \in Jobs /\ job'.refs = Append(job.refs, ref)
    BY <1>2, <1>3, <1>4 DEF BatchTypeOK, Jobs
  <1> QED
    BY <1>3, <1>5

(* A null result takes a place but no slot. *)
LEMMA PinNullInv ==
    ASSUME BatchInv, job.todo # <<>>, UNCHANGED vars, UNCHANGED hosts, job' = Stored(NoRef)
    PROVE  BatchInv'
  <1>1. /\ job' \in Jobs /\ Len(job'.refs) = Len(job.refs) + 1 /\ Len(job.refs) \in Nat
        /\ job'.refs[Len(job.refs) + 1] \notin Refs
        /\ \A i \in 1..Len(job.refs) : job'.refs[i] = job.refs[i]
    BY StoredFacts, JobFacts, NoRefFacts DEF BatchInv
  <1>2. \A i \in 1..Len(job'.refs) : job'.refs[i] \in Refs => i \in 1..Len(job.refs)
    BY <1>1
  <1>3. \A i \in 1..Len(job.refs) : i \in 1..Len(job'.refs)
    BY <1>1
  <1>4. value' = value /\ \A r : Resolves(r)' <=> Resolves(r)
    BY TableKept DEF vars
  <1>5. HeldCurrent'
    BY <1>1, <1>2, <1>4 DEF BatchInv, HeldCurrent
  <1>6. OneHolder'
    <2>1. \A s : (\E i \in 1..Len(job'.refs) : HeldAt(i, s)') <=> (\E i \in 1..Len(job.refs) : HeldAt(i, s))
      BY <1>1, <1>2, <1>3 DEF HeldAt
    <2> QED
      BY <1>4, <2>1 DEF BatchInv, OneHolder
  <1> QED
    BY <1>1, <1>5, <1>6, JobOnlyInv DEF BatchInv, BatchTypeOK

(* The slot that wah_pin occupies for the call becomes the call's. *)
LEMMA PinOneInv ==
    ASSUME BatchInv, job.todo # <<>>, NEW v \in Values, PinReused(v) \/ PinGrown(v), UNCHANGED hosts,
           LET s == IF free_head # 0 THEN free_head - 1 ELSE slot_count
           IN  job' = Stored([slot |-> s, generation |-> generation'[s]])
    PROVE  BatchInv'
  <1> DEFINE s == IF free_head # 0 THEN free_head - 1 ELSE slot_count
  <1>0. PinInv /\ BatchTypeOK
    BY DEF BatchInv
  <1> PICK n \in Nat : n = Len(job.refs)
    BY <1>0, JobFacts
  <1>1. /\ PinInv'
        /\ \A r \in Refs : (\E i \in 1..n : job.refs[i] = r) => Resolves(r)' /\ r.slot # s
    BY HeldAfterPin
  <1>2. /\ s \in Slots /\ value[s] = Null /\ value'[s] # Null /\ s < slot_count'
        /\ generation'[s] \in Generations
        /\ \A u \in Slots : u # s => value'[u] = value[u]
    BY <1>0, PinFacts
  <1>3. job' = Stored([slot |-> s, generation |-> generation'[s]])
    OBVIOUS
  <1> HIDE DEF s
  <1>4. PICK ref : ref = [slot |-> s, generation |-> generation'[s]] /\ job' = Stored(ref)
    BY <1>3, Zenon
  <1>5. /\ ref \in Refs /\ ref.slot = s /\ ref.generation = generation'[s]
    BY <1>2, <1>4 DEF Refs
  <1>6. Resolves(ref)'
    BY <1>2, <1>5 DEF Resolves
  <1>7. /\ job' \in Jobs /\ Len(job'.refs) = n + 1 /\ job'.refs[n + 1] = ref
        /\ \A i \in 1..n : job'.refs[i] = job.refs[i]
    BY <1>0, <1>4, <1>5, StoredFacts
  <1>8. \A i \in 1..(n + 1) : i \in 1..n \/ i = n + 1
    OBVIOUS
  <1>9. n + 1 \in 1..(n + 1) /\ \A i \in 1..n : i \in 1..(n + 1)
    OBVIOUS
  <1>10. HeldCurrent'
    <2>1. \A i \in 1..(n + 1) : job'.refs[i] \in Refs => \A r : r = job'.refs[i] => Resolves(r)'
      BY <1>1, <1>6, <1>7, <1>8
    <2>2. ASSUME NEW i \in 1..(n + 1), NEW j \in 1..(n + 1), job'.refs[i] \in Refs, job'.refs[j] \in Refs,
                 job'.refs[i].slot = job'.refs[j].slot
          PROVE  i = j
      <3>1. CASE i \in 1..n /\ j \in 1..n
        BY <1>7, <2>2, <3>1 DEF BatchInv, HeldCurrent
      <3>2. CASE i \in 1..n /\ j = n + 1
        BY <1>1, <1>5, <1>7, <2>2, <3>2
      <3>3. CASE j \in 1..n /\ i = n + 1
        BY <1>1, <1>5, <1>7, <2>2, <3>3
      <3> QED
        BY <1>8, <3>1, <3>2, <3>3
    <2> QED
      BY <1>7, <2>1, <2>2 DEF HeldCurrent
  <1>11. OneHolder'
    <2> SUFFICES ASSUME NEW u \in Slots
                 PROVE  /\ value'[u] # Null <=> u \in hosts \/ \E i \in 1..(n + 1) : HeldAt(i, u)'
                        /\ u \in hosts => \A i \in 1..(n + 1) : ~HeldAt(i, u)'
      BY <1>7 DEF OneHolder
    <2>1. \A i \in 1..n : HeldAt(i, u)' <=> HeldAt(i, u)
      BY <1>7 DEF HeldAt
    <2>2. HeldAt(n + 1, u)' <=> u = s
      BY <1>5, <1>7 DEF HeldAt
    <2>3. /\ value[u] # Null <=> u \in hosts \/ \E i \in 1..n : HeldAt(i, u)
          /\ u \in hosts => \A i \in 1..n : ~HeldAt(i, u)
      BY DEF BatchInv, OneHolder
    <2>4. CASE u = s
      BY <1>2, <1>8, <1>9, <2>1, <2>2, <2>3, <2>4
    <2>5. CASE u # s
      BY <1>2, <1>8, <1>9, <2>1, <2>2, <2>3, <2>5
    <2> QED
      BY <2>4, <2>5
  <1> QED
    BY <1>0, <1>1, <1>7, <1>10, <1>11 DEF BatchInv, BatchTypeOK

(* One more result or parameter is pinned. *)
LEMMA PinNextInv ==
    ASSUME BatchInv, PinNext
    PROVE  BatchInv'
  <1> DEFINE v == Head(job.todo)
  <1>1. job.todo # <<>> /\ UNCHANGED hosts
    BY DEF PinNext
  <1>2. v \in Values \cup {Null}
    BY <1>1, JobFacts, HeadTailProperties DEF BatchInv
  <1>3. \/ v = Null /\ job' = Stored(NoRef) /\ UNCHANGED vars
        \/ /\ v # Null /\ (PinReused(v) \/ PinGrown(v))
           /\ LET s == IF free_head # 0 THEN free_head - 1 ELSE slot_count
              IN  job' = Stored([slot |-> s, generation |-> generation'[s]])
    BY DEF PinNext
  <1> HIDE DEF v
  <1> QED
    BY <1>1, <1>2, <1>3, PinNullInv, PinOneInv

(* wah_finish_pin hands its references over to the host. *)
LEMMA AllPinnedInv ==
    ASSUME BatchInv, AllPinned
    PROVE  BatchInv'
  <1>0. UNCHANGED vars /\ BatchTypeOK
    BY DEF AllPinned, BatchInv
  <1>1. CASE job' = [job EXCEPT !.phase = "starting"] /\ UNCHANGED hosts
    <2>1. job' \in Jobs /\ job'.refs = job.refs
      BY <1>0, <1>1 DEF BatchTypeOK, Jobs, JobPhases
    <2> QED
      BY <1>0, <1>1, <2>1, PhaseInv
  <1>2. CASE job' = Idle /\ hosts' = hosts \cup HeldSlots
    <2>1. job' \in Jobs /\ job'.refs = <<>>
      BY <1>2, EmptySeq DEF Idle, Jobs, Calls, JobPhases
    <2>2. \A s : s \in HeldSlots <=> \E i \in 1..Len(job.refs) : HeldAt(i, s)
      <3>1. DOMAIN job.refs = 1..Len(job.refs) /\ \A i \in 1..Len(job.refs) : job.refs[i] \in Refs \cup {NoRef}
        BY <1>0, JobFacts, LenProperties
      <3> QED
        BY <3>1, NoRefFacts DEF HeldSlots, Held, HeldAt
    <2>3. value' = value
      BY <1>0 DEF vars
    <2>4. HeldCurrent' /\ OneHolder'
      <3>1. \A i : i \notin 1..Len(job'.refs)
        BY <2>1
      <3>2. HeldCurrent'
        BY <3>1 DEF HeldCurrent
      <3>3. OneHolder'
        BY <1>2, <2>2, <2>3, <3>1 DEF BatchInv, OneHolder
      <3> QED
        BY <3>2, <3>3
    <2>5. hosts' \subseteq Slots
      BY <1>2, <2>2 DEF BatchInv, BatchTypeOK, HeldAt, Refs
    <2> QED
      BY <1>0, <2>1, <2>4, <2>5, JobOnlyInv
  <1> QED
    BY <1>1, <1>2 DEF AllPinned

(* The last reference of the call is released, and is the call's no more. *)
LEMMA UnpinLastInv ==
    ASSUME BatchInv, UnpinLast
    PROVE  BatchInv'
  <1>0. PinInv /\ TypeOK /\ BatchTypeOK /\ UNCHANGED hosts /\ job.refs # <<>>
    BY DEF BatchInv, PinInv, UnpinLast, LeftToUnpin
  <1> PICK n \in Nat \ {0} : n = Len(job.refs)
    BY <1>0, JobFacts, EmptySeq
  <1>1. PICK ref \in Refs \cup {NoRef} : ref = job.refs[n]
    BY <1>0, JobFacts
  <1>2. IF Resolves(ref) THEN Unpin(ref) ELSE UNCHANGED vars
    BY <1>1 DEF UnpinLast
  <1>3. job' = [job EXCEPT !.refs = SubSeq(job.refs, 1, n - 1)]
    BY DEF UnpinLast
  <1>4. /\ SubSeq(job.refs, 1, n - 1) \in Seq(Refs \cup {NoRef})
        /\ Len(SubSeq(job.refs, 1, n - 1)) = n - 1
        /\ \A i \in 1..(n - 1) : SubSeq(job.refs, 1, n - 1)[i] = job.refs[i]
    <2>1. job.refs \in Seq(Refs \cup {NoRef}) /\ \A i \in 1..(n - 1) : job.refs[i] \in Refs \cup {NoRef}
      BY <1>0, JobFacts
    <2>2. /\ SubSeq(job.refs, 1, n - 1) \in Seq(Refs \cup {NoRef})
          /\ Len(SubSeq(job.refs, 1, n - 1)) = IF 1 <= n - 1 THEN (n - 1) - 1 + 1 ELSE 0
          /\ \A i \in 1..((n - 1) - 1 + 1) : SubSeq(job.refs, 1, n - 1)[i] = job.refs[1 + i - 1]
      <3>1. 1 \in Int /\ n - 1 \in Int
        OBVIOUS
      <3> QED
        BY <2>1, <3>1, SubSeqProperties
    <2>3. (IF 1 <= n - 1 THEN (n - 1) - 1 + 1 ELSE 0) = n - 1
      OBVIOUS
    <2>4. \A i \in 1..(n - 1) : i \in 1..((n - 1) - 1 + 1) /\ 1 + i - 1 = i
      OBVIOUS
    <2> QED
      BY <2>2, <2>3, <2>4
  <1>5. job' \in Jobs /\ job'.refs = SubSeq(job.refs, 1, n - 1)
    BY <1>0, <1>3, <1>4 DEF BatchTypeOK, Jobs
  <1>6. \A i \in 1..n : i \in 1..(n - 1) \/ i = n
    OBVIOUS
  <1>7. n \in 1..n /\ n \notin 1..(n - 1) /\ \A i \in 1..(n - 1) : i \in 1..n
    OBVIOUS
  <1>8. Len(job'.refs) = n - 1 /\ \A i \in 1..(n - 1) : job'.refs[i] = job.refs[i]
    BY <1>4, <1>5
  <1>9. \A i \in 1..(n - 1) : \A s : HeldAt(i, s)' <=> HeldAt(i, s)
    BY <1>8 DEF HeldAt
  <1>10. CASE ref = NoRef
    <2>1. UNCHANGED vars
      BY <1>0, <1>2, <1>10, NoRefFacts
    <2>2. value' = value /\ \A r : Resolves(r)' <=> Resolves(r)
      BY <2>1, TableKept DEF vars
    <2>3. \A s : ~HeldAt(n, s)
      BY <1>1, <1>10, NoRefFacts DEF HeldAt
    <2>4. HeldCurrent'
      BY <1>7, <1>8, <2>2 DEF BatchInv, HeldCurrent
    <2>5. OneHolder'
      <3> SUFFICES ASSUME NEW u \in Slots
                   PROVE  /\ value[u] # Null <=> u \in hosts \/ \E i \in 1..(n - 1) : HeldAt(i, u)'
                          /\ u \in hosts => \A i \in 1..(n - 1) : ~HeldAt(i, u)'
        BY <1>0, <1>8, <2>2 DEF OneHolder
      <3>1. /\ value[u] # Null <=> u \in hosts \/ \E i \in 1..n : HeldAt(i, u)
            /\ u \in hosts => \A i \in 1..n : ~HeldAt(i, u)
        BY DEF BatchInv, OneHolder
      <3> QED
        BY <1>6, <1>7, <1>9, <2>3, <3>1
    <2> QED
      BY <1>0, <1>5, <2>1, <2>4, <2>5, JobOnlyInv DEF BatchTypeOK
  <1>11. CASE ref \in Refs
    <2>1. Unpin(ref)
      BY <1>1, <1>2, <1>7, <1>11 DEF BatchInv, HeldCurrent
    <2>2. /\ ref.slot \in Slots /\ value[ref.slot] # Null /\ value'[ref.slot] = Null
          /\ slot_count' = slot_count
          /\ \A u \in Slots : u # ref.slot => value'[u] = value[u] /\ generation'[u] = generation[u]
      BY <1>0, <1>11, <2>1, UnpinFacts
    <2>3. HeldAt(n, ref.slot)
      BY <1>1, <1>11 DEF HeldAt
    <2>4. \A i \in 1..(n - 1) : ~HeldAt(i, ref.slot)
      BY <1>1, <1>7, <1>11 DEF BatchInv, HeldCurrent, HeldAt
    <2>5. \A r \in Refs : (\E i \in 1..(n - 1) : job.refs[i] = r) => Resolves(r)'
      <3> SUFFICES ASSUME NEW r \in Refs, NEW i \in 1..(n - 1), job.refs[i] = r
                   PROVE  Resolves(r)'
        OBVIOUS
      <3>1. Resolves(r) /\ r.slot # ref.slot
        BY <1>7, <2>4 DEF BatchInv, HeldCurrent, HeldAt
      <3> QED
        BY <2>2, <3>1 DEF Resolves, Refs
    <2>6. HeldCurrent'
      BY <1>7, <1>8, <2>5 DEF BatchInv, HeldCurrent
    <2>7. OneHolder'
      <3> SUFFICES ASSUME NEW u \in Slots
                   PROVE  /\ value'[u] # Null <=> u \in hosts \/ \E i \in 1..(n - 1) : HeldAt(i, u)'
                          /\ u \in hosts => \A i \in 1..(n - 1) : ~HeldAt(i, u)'
        BY <1>0, <1>8 DEF OneHolder
      <3>1. /\ value[u] # Null <=> u \in hosts \/ \E i \in 1..n : HeldAt(i, u)
            /\ u \in hosts => \A i \in 1..n : ~HeldAt(i, u)
        BY DEF BatchInv, OneHolder
      <3>2. CASE u = ref.slot
        BY <1>7, <1>9, <2>2, <2>3, <2>4, <3>1, <3>2
      <3>3. CASE u # ref.slot
        <4>1. ~HeldAt(n, u)
          BY <1>1, <3>3 DEF HeldAt
        <4> QED
          BY <1>6, <1>7, <1>9, <2>2, <3>1, <3>3, <4>1
      <3> QED
        BY <3>2, <3>3
    <2>8. PinInv'
      BY <1>0, <1>11, <2>1, UnpinInv
    <2> QED
      BY <1>0, <1>5, <2>6, <2>7, <2>8 DEF BatchInv, BatchTypeOK
  <1> QED
    BY <1>10, <1>11

(* The calls' other steps: a pin failed, the start functions are done, or  *)
(* nothing is left to release.                                             *)
LEMMA OtherInv ==
    ASSUME BatchInv, PinFails \/ Instantiated \/ Return
    PROVE  BatchInv'
  <1>0. UNCHANGED vars /\ UNCHANGED hosts /\ BatchTypeOK
    BY DEF PinFails, PinRejected, Instantiated, Return, BatchInv
  <1>1. CASE PinFails
    <2>1. job' \in Jobs /\ job'.refs = job.refs
      BY <1>0, <1>1, EmptySeq DEF PinFails, BatchTypeOK, Jobs, JobPhases
    <2> QED
      BY <1>0, <2>1, PhaseInv
  <1>2. CASE Instantiated
    <2>1. job' \in Jobs /\ job'.refs = job.refs
      BY <1>0, <1>2 DEF Instantiated, BatchTypeOK, Jobs, JobPhases
    <2> QED
      BY <1>0, <2>1, PhaseInv
  <1>3. CASE Return
    <2>1. job' = Idle /\ job.refs = <<>>
      BY <1>3 DEF Return, LeftToUnpin
    <2>2. job' \in Jobs /\ job'.refs = <<>>
      BY <2>1, EmptySeq DEF Idle, Jobs, Calls, JobPhases
    <2> QED
      BY <1>0, <2>1, <2>2, PhaseInv
  <1> QED
    BY <1>1, <1>2, <1>3
-----------------------------------------------------------------------------
(* Initially nothing is pinned and no call runs. *)
LEMMA BatchInitInv == BatchInit => BatchInv
  <1> SUFFICES ASSUME BatchInit PROVE BatchInv
    OBVIOUS
  <1>1. PinInv /\ job = Idle /\ hosts = {}
    BY InitInv DEF BatchInit
  <1>2. job \in Jobs /\ job.refs = <<>>
    BY <1>1, EmptySeq DEF Idle, Jobs, Calls, JobPhases
  <1>3. \A i : i \notin 1..Len(job.refs)
    BY <1>2
  <1>4. HeldCurrent
    BY <1>3 DEF HeldCurrent
  <1>5. OneHolder
    BY <1>1, <1>3 DEF OneHolder, BatchInit, Init
  <1> QED
    BY <1>1, <1>2, <1>4, <1>5 DEF BatchInv, BatchTypeOK

(* The invariant is inductive. *)
LEMMA BatchStepInv == BatchInv /\ [BatchNext]_allVars => BatchInv'
  <1> SUFFICES ASSUME BatchInv, [BatchNext]_allVars PROVE BatchInv'
    OBVIOUS
  <1>1. CASE UNCHANGED allVars
    <2>1. UNCHANGED vars /\ job' = job /\ hosts' = hosts
      BY <1>1 DEF allVars
    <2> QED
      BY <2>1, PhaseInv DEF BatchInv, BatchTypeOK
  <1> QED
    BY <1>1, HostPinInv, HostUnpinInv, BeginInv, PinNextInv, AllPinnedInv, UnpinLastInv, OtherInv
       DEF BatchNext

(* The invariant says what PinsBalanced says; the slots of a call are      *)
(* counted by a bijection from the places of its references.               *)
LEMMA BatchInvSafe == BatchInv => PinsBalanced
  <1> SUFFICES ASSUME BatchInv PROVE PinsBalanced
    OBVIOUS
  <1>1. /\ DOMAIN job.refs = 1..Len(job.refs) /\ Len(job.refs) \in Nat
        /\ \A i \in 1..Len(job.refs) : job.refs[i] \in Refs <=> job.refs[i] # NoRef
    BY JobFacts, LenProperties, NoRefFacts DEF BatchInv
  <1>2. \A s : s \in HeldSlots <=> \E i \in 1..Len(job.refs) : HeldAt(i, s)
    BY <1>1 DEF HeldSlots, Held, HeldAt
  <1>3. \A s \in HeldSlots : s \in Slots
    BY <1>2 DEF HeldAt, Refs
  <1>4. Pinned = hosts \cup HeldSlots /\ hosts \cap HeldSlots = {}
    BY <1>2, <1>3 DEF Pinned, BatchInv, BatchTypeOK, OneHolder
  <1>5. \A ref \in Held : Resolves(ref)
    BY <1>1 DEF Held, BatchInv, HeldCurrent
  <1> DEFINE I == {i \in DOMAIN job.refs : job.refs[i] # NoRef}
             f == [i \in I |-> job.refs[i].slot]
  <1>6. IsFiniteSet(I)
    <2>1. IsFiniteSet(1..Len(job.refs))
      BY <1>1, FS_Interval
    <2>2. I \in SUBSET (1..Len(job.refs))
      BY <1>1
    <2> HIDE DEF I
    <2> QED
      BY <2>1, <2>2, FS_Subset
  <1>7. f \in Bijection(I, HeldSlots)
    <2>1. \A i \in I : f[i] \in HeldSlots
      BY <1>1, <1>2 DEF HeldAt
    <2>2. \A i, j \in I : f[i] = f[j] => i = j
      BY <1>1 DEF BatchInv, HeldCurrent
    <2>3. \A s \in HeldSlots : \E i \in I : f[i] = s
      BY <1>1, <1>2 DEF HeldAt
    <2>4. f = [i \in I |-> f[i]]
      OBVIOUS
    <2> HIDE DEF f, I
    <2>5. f \in [I -> HeldSlots]
      BY <2>1, <2>4
    <2>6. f \in Injection(I, HeldSlots)
      BY <2>2, <2>5 DEF Injection, IsInjective
    <2>7. f \in Surjection(I, HeldSlots)
      BY <2>3, <2>5 DEF Surjection
    <2> QED
      BY <2>6, <2>7 DEF Bijection
  <1>8. Cardinality(HeldSlots) = Cardinality(I)
    BY <1>6, <1>7, FS_Bijection DEF ExistsBijection
  <1> QED
    BY <1>4, <1>5, <1>8 DEF PinsBalanced

(* The table stays consistent under the calls that pin several references. *)
THEOREM BatchTableCorrect == BatchSpec => []PinInv
  <1>1. BatchInv => PinInv
    BY DEF BatchInv
  <1> QED
    BY <1>1, BatchInitInv, BatchStepInv, PTL DEF BatchSpec

(* However a batch of pins fails and however the host interleaves pins of  *)
(* its own with the start functions, every pinned slot has one holder, and *)
(* every reference the running call holds still resolves.                  *)
THEOREM BatchBalanced == BatchSpec => []PinsBalanced
  BY BatchInitInv, BatchStepInv, BatchInvSafe, PTL DEF BatchSpec

-----------------------------------------------------------------------------
(* GcMark.  The invariant is the tricolour one, in the form the worklist    *)
(* with its overflow needs: a marked object whose references are not all    *)
(* marked is in the worklist or gray, and a gray object is ahead of the     *)
(* search or makes another search happen.                                   *)

Marking == phase \in {"roots", "scan", "rescan", "sweep"}

(* Types, without the counters. *)
SetTypes ==
    /\ refs \in [Objects -> SUBSET Objects]
    /\ roots \in SUBSET Objects
    /\ full \in BOOLEAN
    /\ live \in SUBSET Objects
    /\ marked \in SUBSET Objects /\ gray \in SUBSET Objects
    /\ items \in SUBSET Objects /\ overflow \in BOOLEAN
    /\ todo \in SUBSET Objects
    /\ phase \in Phases

(* Only reachable objects are marked. *)
MarkedReachable == Marking => marked \subseteq Reachable

(* Roots are marked, or about to be. *)
RootsMarked ==
    /\ phase = "roots" => (roots \subseteq marked \cup todo /\ todo \subseteq roots)
    /\ phase \in {"scan", "rescan", "sweep"} => roots \subseteq marked

(* No marked object hides an unmarked one. *)
Tricolour ==
    Marking => \A o \in marked : o \in items \/ o \in gray \/ refs[o] \subseteq marked

(* No gray object is forgotten, and none is left for the sweep. *)
GrayFound ==
    /\ Marking => items \subseteq marked /\ gray \subseteq marked
    /\ phase \in {"roots", "scan"} /\ ~overflow => gray = {}
    /\ phase = "rescan" /\ ~overflow => gray \subseteq todo
    /\ phase = "sweep" => items = {} /\ gray = {}

(* What the sweep has freed so far. *)
Swept ==
    /\ phase \in {"start", "roots", "scan", "rescan"} => live = Objects
    /\ phase = "sweep" =>
         /\ todo \subseteq Own
         /\ \A o \in Objects : o \notin live => o \in Own \ todo
         /\ \A o \in Own \ todo : o \in live <=> (o \in marked \/ (~full /\ o \notin Exns))
    /\ phase = "done" => Reachable \subseteq live /\ Objects \ Own \subseteq live

GcInv == SetTypes /\ MarkedReachable /\ RootsMarked /\ Tricolour /\ GrayFound /\ Swept
-----------------------------------------------------------------------------
(* Reachable objects are closed under references, and are all in any set   *)
(* that is closed.                                                         *)
LEMMA ReachableFacts ==
    ASSUME SetTypes
    PROVE  /\ Reachable \subseteq Objects
           /\ roots \subseteq Reachable
           /\ \A o \in Reachable : refs[o] \subseteq Reachable
           /\ \A R \in SUBSET Objects : Closed(R) => Reachable \subseteq R
  <1>1. Reachable \subseteq Objects
    BY DEF Reachable
  <1>2. roots \subseteq Reachable
    BY DEF Reachable, Closed, SetTypes
  <1>3. ASSUME NEW o \in Reachable, NEW p \in refs[o] PROVE p \in Reachable
    <2>1. p \in Objects
      BY <1>1, <1>3 DEF SetTypes
    <2>2. ASSUME NEW R \in SUBSET Objects, Closed(R) PROVE p \in R
      BY <1>3, <2>2 DEF Reachable, Closed
    <2> QED
      BY <2>1, <2>2 DEF Reachable
  <1>4. \A R \in SUBSET Objects : Closed(R) => Reachable \subseteq R
    BY DEF Reachable
  <1> QED
    BY <1>1, <1>2, <1>3, <1>4

(* Once marking is over, exactly the reachable objects are marked. *)
LEMMA SweepFacts ==
    ASSUME GcInv, phase = "sweep"
    PROVE  marked = Reachable
  <1>1. Closed(marked)
    BY DEF GcInv, RootsMarked, Tricolour, GrayFound, Marking, Closed
  <1>2. Reachable \subseteq marked
    BY <1>1, ReachableFacts DEF GcInv, SetTypes
  <1> QED
    BY <1>2 DEF GcInv, MarkedReachable, Marking

(* Reachability does not depend on what the collector changes. *)
LEMMA ReachableUnchanged ==
    ASSUME UNCHANGED graph
    PROVE  Reachable' = Reachable
  BY DEF graph, Reachable, Closed

(* Marking what a reachable object refers to, or a root, preserves the     *)
(* parts of the invariant that hold while marking.                         *)
LEMMA MarkFacts ==
    ASSUME SetTypes, NEW S \in SUBSET Objects, NEW ws \in SUBSET items, NEW gs \in SUBSET gray,
           MarkObjects(S, ws, gs)
    PROVE  /\ marked' = marked \cup S
           /\ marked' \in SUBSET Objects /\ gray' \in SUBSET Objects
           /\ items' \in SUBSET Objects /\ overflow' \in BOOLEAN
           /\ ws \subseteq items' /\ gs \subseteq gray'
           /\ items' \subseteq ws \cup S /\ gray' \subseteq gs \cup S
           /\ \A p \in S \ marked : p \in items' \/ p \in gray'
           /\ ~overflow' => ~overflow /\ gray' = gs
           /\ overflow => overflow'
  <1> PICK spilled \in SUBSET (S \ marked) :
        /\ marked' = marked \cup S
        /\ items' = ws \cup ((S \ marked) \ spilled)
        /\ gray' = gs \cup spilled
        /\ overflow' = (overflow \/ spilled # {})
      BY DEF MarkObjects
  <1> QED
    BY DEF SetTypes
-----------------------------------------------------------------------------
(* Any graph with any stale marks satisfies the invariant. *)
LEMMA InitGc == GcInit => GcInv
  BY ObjectsAssumption DEF GcInit, GcInv, SetTypes, MarkedReachable, RootsMarked, Tricolour, GrayFound,
     Swept, Marking, Phases

(* Visiting a root preserves the invariant. *)
LEMMA VisitRootInv ==
    ASSUME GcInv, NEW o \in Objects, VisitRoot(o)
    PROVE  GcInv'
  <1>1. /\ phase = "roots" /\ o \in todo /\ todo' = todo \ {o}
        /\ UNCHANGED <<graph, heap, phase>> /\ MarkObjects({o}, items, gray)
    BY DEF VisitRoot
  <1>2. SetTypes
    BY DEF GcInv
  <1>3. /\ marked' = marked \cup {o}
        /\ marked' \in SUBSET Objects /\ gray' \in SUBSET Objects
        /\ items' \in SUBSET Objects /\ overflow' \in BOOLEAN
        /\ items \subseteq items' /\ gray \subseteq gray'
        /\ items' \subseteq items \cup {o} /\ gray' \subseteq gray \cup {o}
        /\ \A p \in {o} \ marked : p \in items' \/ p \in gray'
        /\ ~overflow' => ~overflow /\ gray' = gray
        /\ overflow => overflow'
    <2>1. {o} \in SUBSET Objects /\ items \in SUBSET items /\ gray \in SUBSET gray
      BY <1>1, <1>2 DEF SetTypes
    <2> QED
      BY <1>1, <1>2, <2>1, MarkFacts
  <1>4. Reachable' = Reachable /\ o \in Reachable
    BY <1>1, <1>2, ReachableUnchanged, ReachableFacts DEF GcInv, RootsMarked
  <1> QED
    BY <1>1, <1>2, <1>3, <1>4 DEF graph, heap, GcInv, SetTypes, MarkedReachable, RootsMarked, Tricolour,
       GrayFound, Swept, Marking

(* Scanning an object of the worklist blackens it. *)
LEMMA ScanItemInv ==
    ASSUME GcInv, NEW o \in Objects, ScanItem(o)
    PROVE  GcInv'
  <1>1. /\ phase = "scan" /\ o \in items /\ o \in marked
        /\ UNCHANGED <<graph, heap, todo, phase>> /\ MarkObjects(refs[o], items \ {o}, gray)
    BY DEF ScanItem, GcInv, GrayFound, Marking
  <1>2. SetTypes /\ refs[o] \in SUBSET Objects
    BY DEF GcInv, SetTypes
  <1>3. /\ marked' = marked \cup refs[o]
        /\ marked' \in SUBSET Objects /\ gray' \in SUBSET Objects
        /\ items' \in SUBSET Objects /\ overflow' \in BOOLEAN
        /\ (items \ {o}) \subseteq items' /\ gray \subseteq gray'
        /\ items' \subseteq (items \ {o}) \cup refs[o] /\ gray' \subseteq gray \cup refs[o]
        /\ \A p \in refs[o] \ marked : p \in items' \/ p \in gray'
        /\ ~overflow' => ~overflow /\ gray' = gray
        /\ overflow => overflow'
    <2>1. refs[o] \in SUBSET Objects /\ (items \ {o}) \in SUBSET items /\ gray \in SUBSET gray
      BY <1>1, <1>2 DEF SetTypes
    <2> QED
      BY <1>1, <1>2, <2>1, MarkFacts
  <1>4. Reachable' = Reachable /\ refs[o] \subseteq Reachable
    BY <1>1, <1>2, ReachableUnchanged, ReachableFacts DEF GcInv, MarkedReachable, Marking
  <1> QED
    BY <1>1, <1>2, <1>3, <1>4 DEF graph, heap, GcInv, SetTypes, MarkedReachable, RootsMarked, Tricolour,
       GrayFound, Swept, Marking

(* The search blackens gray objects and passes by others. *)
LEMMA RescanObjectInv ==
    ASSUME GcInv, NEW o \in Objects, RescanObject(o)
    PROVE  GcInv'
  <1>1. phase = "rescan" /\ todo' = todo \ {o} /\ UNCHANGED <<graph, heap, phase>>
    BY DEF RescanObject
  <1>2. Reachable' = Reachable
    BY <1>1, ReachableUnchanged
  <1>3. CASE o \notin gray
    <2>1. UNCHANGED <<tags, list>>
      BY <1>3 DEF RescanObject
    <2> QED
      BY <1>1, <1>2, <1>3, <2>1 DEF graph, heap, tags, list, GcInv, SetTypes, MarkedReachable, RootsMarked,
         Tricolour, GrayFound, Swept, Marking
  <1>4. CASE o \in gray
    <2>1. MarkObjects(refs[o], items, gray \ {o}) /\ o \in marked
      BY <1>1, <1>4 DEF RescanObject, GcInv, GrayFound, Marking
    <2>2. SetTypes /\ refs[o] \in SUBSET Objects
      BY DEF GcInv, SetTypes
    <2>3. /\ marked' = marked \cup refs[o]
          /\ marked' \in SUBSET Objects /\ gray' \in SUBSET Objects
          /\ items' \in SUBSET Objects /\ overflow' \in BOOLEAN
          /\ items \subseteq items' /\ (gray \ {o}) \subseteq gray'
          /\ items' \subseteq items \cup refs[o] /\ gray' \subseteq (gray \ {o}) \cup refs[o]
          /\ \A p \in refs[o] \ marked : p \in items' \/ p \in gray'
          /\ ~overflow' => ~overflow /\ gray' = (gray \ {o})
          /\ overflow => overflow'
      <3>1. refs[o] \in SUBSET Objects /\ items \in SUBSET items /\ (gray \ {o}) \in SUBSET gray
        BY <2>1, <2>2 DEF SetTypes
      <3> QED
        BY <2>1, <2>2, <3>1, MarkFacts
    <2>4. refs[o] \subseteq Reachable
      BY <1>1, <2>1, <2>2, ReachableFacts DEF GcInv, MarkedReachable, Marking
    <2> QED
      BY <1>1, <1>2, <2>1, <2>2, <2>3, <2>4 DEF graph, heap, GcInv, SetTypes, MarkedReachable, RootsMarked,
         Tricolour, GrayFound, Swept, Marking
  <1> QED
    BY <1>3, <1>4

(* Sweeping an object preserves the invariant: what it frees is unmarked. *)
LEMMA SweepObjectInv ==
    ASSUME GcInv, NEW o \in Objects, SweepObject(o)
    PROVE  GcInv'
  <1>1. /\ phase = "sweep" /\ o \in todo /\ todo' = todo \ {o}
        /\ UNCHANGED <<graph, tags, list, phase>>
        /\ live' = IF o \notin marked /\ (full \/ o \in Exns) THEN live \ {o} ELSE live
    BY DEF SweepObject, heap
  <1>2. Reachable' = Reachable
    BY <1>1, ReachableUnchanged
  <1> QED
    BY <1>1, <1>2 DEF graph, tags, list, GcInv, SetTypes, MarkedReachable, RootsMarked, Tricolour,
       GrayFound, Swept, Marking

(* Moving on to the next phase preserves the invariant. *)
LEMMA GcPhaseInv ==
    ASSUME GcInv,
           ClearMarks \/ SkipCollection \/ RootsVisited \/ StartRescan \/ FinishRescan \/ FinishMark
    PROVE  GcInv'
  <1>1. UNCHANGED <<graph, heap>> /\ Reachable' = Reachable
    BY ReachableUnchanged DEF ClearMarks, SkipCollection, RootsVisited, StartRescan, FinishRescan, FinishMark
  <1> USE <1>1 DEF graph, heap, tags, list, GcInv, SetTypes, MarkedReachable, RootsMarked, Tricolour,
       GrayFound, Swept, Marking, Phases
  <1>2. CASE ClearMarks
    BY <1>2 DEF ClearMarks
  <1>3. CASE SkipCollection
    BY <1>3, ReachableFacts DEF SkipCollection
  <1>4. CASE RootsVisited
    BY <1>4 DEF RootsVisited
  <1>5. CASE StartRescan
    BY <1>5 DEF StartRescan
  <1>6. CASE FinishRescan
    BY <1>6 DEF FinishRescan
  <1>7. CASE FinishMark
    BY <1>7, ObjectsAssumption DEF FinishMark
  <1> QED
    BY <1>2, <1>3, <1>4, <1>5, <1>6, <1>7

(* The end of the sweep leaves every reachable object alive. *)
LEMMA FinishSweepInv ==
    ASSUME GcInv, FinishSweep
    PROVE  GcInv'
  <1>1. /\ phase = "sweep" /\ todo = {} /\ phase' = "done"
        /\ UNCHANGED <<graph, heap, tags, list, todo>>
    BY DEF FinishSweep
  <1>2. Reachable' = Reachable /\ Reachable \subseteq Objects
    BY <1>1, ReachableUnchanged, ReachableFacts DEF GcInv
  <1>3. marked = Reachable
    BY <1>1, SweepFacts
  <1>4. Reachable \subseteq live /\ Objects \ Own \subseteq live
    BY <1>1, <1>2, <1>3 DEF GcInv, Swept
  <1> QED
    BY <1>1, <1>2, <1>4 DEF graph, heap, tags, list, GcInv, SetTypes, MarkedReachable, RootsMarked,
       Tricolour, GrayFound, Swept, Marking, Phases

(* Every step of the collector preserves the invariant. *)
LEMMA StepGc == GcInv /\ [GcNext]_gcVars => GcInv'
  <1> SUFFICES ASSUME GcInv, [GcNext]_gcVars PROVE GcInv'
      OBVIOUS
  <1>1. ASSUME UNCHANGED gcVars PROVE GcInv'
    <2>1. Reachable' = Reachable
      BY <1>1, ReachableUnchanged DEF gcVars
    <2> QED
      BY <1>1, <2>1 DEF gcVars, graph, heap, tags, list, GcInv, SetTypes, MarkedReachable, RootsMarked,
         Tricolour, GrayFound, Swept, Marking
  <1> QED
    BY <1>1, VisitRootInv, ScanItemInv, RescanObjectInv, SweepObjectInv, GcPhaseInv, FinishSweepInv
       DEF GcNext, Done

(* The tricolour invariant holds throughout every collection. *)
THEOREM GcInvariance == GcSpec => []GcInv
  BY InitGc, StepGc, PTL DEF GcSpec

(* No collection frees a reachable object, for any graph of any size and   *)
(* any failures to grow the worklist.                                      *)
THEOREM MarkSafe == GcSpec => []NoReachableFreed
  <1>1. GcInv => NoReachableFreed
    <2> SUFFICES ASSUME GcInv PROVE Reachable \subseteq live
        BY DEF NoReachableFreed
    <2>1. Reachable \subseteq Objects
      BY ReachableFacts DEF GcInv
    <2>2. CASE phase = "sweep"
      <3>1. marked = Reachable
        BY <2>2, SweepFacts
      <3> QED
        BY <2>1, <2>2, <3>1 DEF GcInv, Swept
    <2> QED
      BY <2>1, <2>2 DEF GcInv, Swept, SetTypes, Phases
  <1> QED
    BY GcInvariance, <1>1, PTL

(* The sweep keeps exactly the reachable objects of its own heap (and, if  *)
(* partial, all but exceptions), and all objects of other heaps.           *)
THEOREM MarkExact == GcSpec => []SweepExact
  <1>1. GcInv => SweepExact
    <2> SUFFICES ASSUME GcInv PROVE SweepExact
        OBVIOUS
    <2>1. Objects \ Own \subseteq live
      BY DEF GcInv, Swept, SetTypes, Phases
    <2>2. CASE phase = "sweep"
      <3>1. marked = Reachable
        BY <2>2, SweepFacts
      <3> QED
        BY <2>1, <2>2, <3>1 DEF GcInv, Swept, SweepExact
    <2> QED
      BY <2>1, <2>2 DEF SweepExact
  <1> QED
    BY GcInvariance, <1>1, PTL
-----------------------------------------------------------------------------
(* Freeing one object takes one off the count of any set that held it. *)
LEMMA CountOneLess ==
    ASSUME NEW T \in SUBSET Objects, NEW o
    PROVE  /\ Cardinality(T) \in Nat
           /\ o \in T => Cardinality(T \ {o}) = Cardinality(T) - 1
  <1>1. IsFiniteSet(T)
    BY ObjectsAssumption, FS_Subset
  <1> QED
    BY <1>1, FS_CardinalityType, FS_RemoveElement

(* Each object that the sweep frees is counted out once. *)
LEMMA StepCounts == GcInv /\ CountsExact /\ [GcNext]_gcVars => CountsExact'
  <1> SUFFICES ASSUME GcInv, CountsExact, [GcNext]_gcVars PROVE CountsExact'
      OBVIOUS
  <1>1. ASSUME NEW o \in Objects, SweepObject(o) PROVE CountsExact'
    <2>1. phase = "sweep" /\ o \in Own /\ o \in live
      BY <1>1 DEF SweepObject, GcInv, Swept
    <2>2. CASE o \notin marked /\ (full \/ o \in Exns)
      <3>1. /\ live' = live \ {o}
            /\ object_count' = object_count - 1
            /\ exception_count' = IF o \in Exns THEN exception_count - 1 ELSE exception_count
        BY <1>1, <2>2 DEF SweepObject
      <3>2. /\ Own \cap live' = (Own \cap live) \ {o}
            /\ Own \cap live' \cap Exns = (Own \cap live \cap Exns) \ {o}
        BY <3>1
      <3>3. Cardinality(Own \cap live') = Cardinality(Own \cap live) - 1
        BY <2>1, <3>2, CountOneLess DEF GcInv, SetTypes
      <3>4. CASE o \in Exns
        <4>1. Cardinality(Own \cap live' \cap Exns) = Cardinality(Own \cap live \cap Exns) - 1
          BY <2>1, <3>2, <3>4, CountOneLess DEF GcInv, SetTypes
        <4> QED
          BY <3>1, <3>3, <3>4, <4>1 DEF CountsExact
      <3>5. CASE o \notin Exns
        <4>1. Own \cap live' \cap Exns = Own \cap live \cap Exns
          BY <3>2, <3>5
        <4> QED
          BY <3>1, <3>3, <3>5, <4>1 DEF CountsExact
      <3> QED
        BY <3>4, <3>5
    <2>3. CASE ~(o \notin marked /\ (full \/ o \in Exns))
      BY <1>1, <2>3 DEF SweepObject, heap, CountsExact
    <2> QED
      BY <2>2, <2>3
  <1>2. ASSUME UNCHANGED heap PROVE CountsExact'
    BY <1>2 DEF heap, CountsExact
  <1>3. ASSUME GcNext, ~(\E o \in Objects : SweepObject(o)) PROVE UNCHANGED heap
    BY <1>3 DEF GcNext, ClearMarks, SkipCollection, RootsVisited, StartRescan, FinishRescan, FinishMark,
       FinishSweep, Done, VisitRoot, ScanItem, RescanObject, gcVars
  <1> QED
    BY <1>1, <1>2, <1>3 DEF gcVars

(* object_count and exception_count agree with the heap throughout. *)
THEOREM CountsCorrect == GcSpec => []CountsExact
  <1>1. GcInit => CountsExact
    <2> SUFFICES ASSUME GcInit PROVE CountsExact
        OBVIOUS
    <2>1. Own \cap live = Own /\ Own \cap live \cap Exns = Own \cap Exns
      BY ObjectsAssumption DEF GcInit
    <2> QED
      BY <2>1 DEF GcInit, CountsExact
  <1> QED
    BY <1>1, InitGc, StepGc, StepCounts, PTL DEF GcSpec

(* Every variable of a collection keeps its type; no counter underflows. *)
THEOREM GcTypeCorrect == GcSpec => []GcTypeOK
  <1>1. GcInv /\ CountsExact => GcTypeOK
    <2> SUFFICES ASSUME GcInv, CountsExact PROVE GcTypeOK
        OBVIOUS
    <2>1. object_count \in Nat /\ exception_count \in Nat
      BY CountOneLess DEF GcInv, SetTypes, CountsExact
    <2> QED
      BY <2>1 DEF GcInv, SetTypes, GcTypeOK
  <1> QED
    BY GcInvariance, CountsCorrect, <1>1, PTL
=============================================================================
