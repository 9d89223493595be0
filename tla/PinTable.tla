----------------------------- MODULE PinTable ------------------------------
(***************************************************************************)
(* The table of references that the host pinned in an execution context.   *)
(*                                                                         *)
(* A pinned reference is a number made of a slot and of the slot's         *)
(* generation when it was pinned.  Releasing it clears the slot, advances  *)
(* its generation modulo GenMod (WAH_PIN_GEN_MASK + 1) and pushes the slot *)
(* on a free list threaded through next_free; 0 ends the list, and slot s  *)
(* is linked to as s + 1.  Pinning takes the head of that list before it   *)
(* lets the table grow.                                                    *)
(*                                                                         *)
(* The host may present any number as a pinned reference, so wah_unpin is  *)
(* modelled for every slot and generation, live, stale or never given.     *)
(***************************************************************************)
EXTENDS Naturals, Sequences

CONSTANTS SlotCap,   \* slots a reference can name, 1 << WAH_PIN_SLOT_BITS
          GenMod,    \* generations a reference can name
          Values,    \* references that are pinned
          Null,      \* a cleared slot's value.ref
          MaxReuse   \* bound: releases of one slot

ASSUME PinAssumption ==
    /\ SlotCap \in Nat \ {0}
    /\ GenMod \in Nat \ {0}
    /\ MaxReuse \in Nat
    /\ Null \notin Values

VARIABLES slot_count,  \* pins->slot_count
          free_head,   \* pins->free_head
          value, generation, next_free,  \* fields of pins->slots
          reuse,       \* ghost: releases of each slot
          given,       \* ghost: references that wah_pin returned
          freed        \* ghost: the free list, its head last

vars == <<slot_count, free_head, value, generation, next_free, reuse, given, freed>>

Slots       == 0..(SlotCap - 1)
Generations == 0..(GenMod - 1)
Refs        == [slot : Slots, generation : Generations]

(* (generation + 1) & WAH_PIN_GEN_MASK *)
Bumped(g) == IF g + 1 = GenMod THEN 0 ELSE g + 1
-----------------------------------------------------------------------------
(* Mistake: wah_pinned_slot does not compare generations. *)
ResolvesAnyGeneration(ref) == ref.slot < slot_count /\ value[ref.slot] # Null

(* wah_pinned_slot: the reference names a slot, and is its current one. *)
Resolves(ref) ==
    /\ ref.slot < slot_count
    /\ value[ref.slot] # Null
    /\ generation[ref.slot] = ref.generation

(* Makes slot s, whose generation is g, hold v, and gives out a reference. *)
Occupy(s, g, v) ==
    /\ value' = [value EXCEPT ![s] = v]
    /\ next_free' = [next_free EXCEPT ![s] = 0]
    /\ given' = given \cup {[ref |-> [slot |-> s, generation |-> g], nth |-> reuse[s]]}
    /\ UNCHANGED reuse

(* wah_pin with a free slot at hand. *)
PinReused(v) ==
    /\ free_head # 0
    /\ free_head' = next_free[free_head - 1]
    /\ Occupy(free_head - 1, generation[free_head - 1], v)
    /\ freed' = SubSeq(freed, 1, Len(freed) - 1)
    /\ UNCHANGED <<slot_count, generation>>

(* wah_pin otherwise: the table grows, up to the slots a reference names. *)
PinGrown(v) ==
    /\ free_head = 0
    /\ slot_count < SlotCap
    /\ slot_count' = slot_count + 1
    /\ generation' = [generation EXCEPT ![slot_count] = 0]
    /\ Occupy(slot_count, 0, v)
    /\ UNCHANGED <<free_head, freed>>

(* wah_pin returns WAH_ERROR_TOO_LARGE, or fails to get memory. *)
PinRejected ==
    /\ free_head = 0
    /\ UNCHANGED vars

(* Mistake: the released slot is not put on the free list. *)
UnpinLeaks(ref) ==
    /\ Resolves(ref)
    /\ reuse[ref.slot] < MaxReuse
    /\ value' = [value EXCEPT ![ref.slot] = Null]
    /\ generation' = [generation EXCEPT ![ref.slot] = Bumped(@)]
    /\ reuse' = [reuse EXCEPT ![ref.slot] = @ + 1]
    /\ UNCHANGED <<slot_count, given, next_free, free_head, freed>>

(* wah_unpin of a reference that resolves. *)
Unpin(ref) ==
    /\ Resolves(ref)
    /\ reuse[ref.slot] < MaxReuse
    /\ value' = [value EXCEPT ![ref.slot] = Null]
    /\ generation' = [generation EXCEPT ![ref.slot] = Bumped(@)]
    /\ next_free' = [next_free EXCEPT ![ref.slot] = free_head]
    /\ free_head' = ref.slot + 1
    /\ reuse' = [reuse EXCEPT ![ref.slot] = @ + 1]
    /\ freed' = Append(freed, ref.slot)
    /\ UNCHANGED <<slot_count, given>>

(* wah_unpin of anything else but NULL returns false. *)
UnpinRejected(ref) ==
    /\ ~Resolves(ref)
    /\ UNCHANGED vars
-----------------------------------------------------------------------------
Init ==
    /\ slot_count = 0
    /\ free_head = 0
    /\ value = [s \in Slots |-> Null]
    /\ generation = [s \in Slots |-> 0]
    /\ next_free = [s \in Slots |-> 0]
    /\ reuse = [s \in Slots |-> 0]
    /\ given = {}
    /\ freed = <<>>

Next == \/ \E v \in Values : PinReused(v) \/ PinGrown(v)
        \/ PinRejected
        \/ \E ref \in Refs : Unpin(ref) \/ UnpinRejected(ref)

Spec == Init /\ [][Next]_vars
-----------------------------------------------------------------------------
TypeOK ==
    /\ slot_count \in 0..SlotCap
    /\ free_head \in 0..SlotCap
    /\ value \in [Slots -> Values \cup {Null}]
    /\ generation \in [Slots -> Generations]
    /\ next_free \in [Slots -> 0..SlotCap]
    /\ reuse \in [Slots -> Nat]
    /\ given \subseteq [ref : Refs, nth : Nat]
    /\ freed \in Seq(Slots)

(* The slots that wah_pin handed out and wah_unpin has not taken back. *)
Pinned == {s \in Slots : value[s] # Null}

(* The free list threaded through next_free is a stack without repetition  *)
(* of exactly the slots that are not pinned: it never reaches a pinned     *)
(* slot, loses none and has no cycle, whatever the order of pins and       *)
(* unpins and whatever the host presents.                                  *)
FreeListExact ==
    /\ \A s \in Slots : (\E i \in 1..Len(freed) : freed[i] = s)
                            <=> (s < slot_count /\ value[s] = Null)
    /\ \A i, j \in 1..Len(freed) : freed[i] = freed[j] => i = j
    /\ free_head = IF freed = <<>> THEN 0 ELSE freed[Len(freed)] + 1
    /\ \A i \in 1..Len(freed) :
          next_free[freed[i]] = IF i = 1 THEN 0 ELSE freed[i - 1] + 1

(* A reference that was released is rejected by wah_pinned_slot until its  *)
(* slot was released GenMod times in all since it was given; and one that  *)
(* was not released resolves.                                              *)
OnlyCurrentResolves ==
    \A g \in given :
        LET s == g.ref.slot IN
        reuse[s] - g.nth < GenMod => (Resolves(g.ref) <=> reuse[s] = g.nth)

(* A number that wah_pin never returned does not resolve. *)
OnlyGivenResolves ==
    \A ref \in Refs : Resolves(ref) => \E g \in given : g.ref = ref

(* The table grows only when every slot it has is pinned. *)
GrowsOnlyWhenFull ==
    [][slot_count' # slot_count => \A s \in Slots : s < slot_count => s \in Pinned]_vars
=============================================================================
