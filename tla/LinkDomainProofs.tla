-------------------------- MODULE LinkDomainProofs --------------------------
(***************************************************************************)
(* Proofs about linking and freeing contexts: however contexts are linked, *)
(* instantiated, grown and freed, a context that is not poisoned knows no  *)
(* context that is freed or poisoned, code holds the current buffers, and  *)
(* each buffer is freed with the one context that it was allocated for.    *)
(***************************************************************************)
EXTENDS LinkDomain, TLAPS

-----------------------------------------------------------------------------
(* The stack holds contexts being instantiated, each once and unpoisoned;  *)
(* all but the innermost are running their start functions.                *)
StackSound ==
    /\ \A i \in 1..Len(stack) :
          status[stack[i]] \in {"importing", "finalizing", "starting"} /\ stack[i] \notin poisoned
    /\ \A i, j \in 1..Len(stack) : stack[i] = stack[j] => i = j
    /\ \A i \in 1..Len(stack) : i < Len(stack) => status[stack[i]] = "starting"

(* A context that is not there holds nothing. *)
Blank(x) ==
    /\ slot[x] = NoSlot /\ version[x] = 0 /\ refs[x] = {} /\ links[x] = {} /\ dependents[x] = {}
    /\ bridged[x] = {}
    /\ x \notin poisoned /\ x \notin may_share_refs /\ x \notin has_objects
    /\ x \in Primaries => modules[x] = {} /\ gc_dependents[x] = {}
BlankUnlessLive == \A x \in Contexts : ~Live(x) => Blank(x)

(* An owned context is there while its primary links it. *)
Ownership ==
    /\ \A m \in Owned : links[m] = {} /\ status[m] \in {"absent", "ready", "instantiated", "freed"}
    /\ \A m \in Owned : Live(m) <=> m \in links[OwnedBy[m]]
    /\ \A m \in Owned : status[OwnedBy[m]] \in {"absent", "ready"} => status[m] = "absent"
    /\ \A p \in Primaries : \A m \in links[p] \cap Owned : OwnedBy[m] = p /\ m \in modules[p]
    /\ \A p \in Primaries : \A m \in modules[p] : OwnedBy[m] = p
    /\ \A p \in Primaries : p \notin links[p]
    /\ \A p \in Primaries : \A q \in links[p] : status[q] # "absent"

(* An owned context imports from what its primary links. *)
WantsLinked == \A m \in Owned : Live(m) /\ wants[m] # Null => wants[m] \in links[OwnedBy[m]]

(* Only contexts that may share references run code. *)
Sharing ==
    \A p \in Primaries :
        /\ HasCode(p) => p \in may_share_refs
        /\ p \in may_share_refs => status[p] \in {"starting", "instantiated", "failed"}

(* What is linked is instantiated, and knows it. *)
Linked ==
    \A p \in Primaries : Usable(p) =>
        \A q \in links[p] \cap Primaries : status[q] = "instantiated" /\ p \in dependents[q]

(* Both ends of a link are poisoned together. *)
SameFate == \A p \in Primaries : \A q \in links[p] : Usable(p) <=> Usable(q)

(* An import leads to the context that has the buffer at once. *)
Flat ==
    \A x \in Contexts : slot[x].imported =>
        /\ slot[x].import_ctx \in Contexts
        /\ ~slot[slot[x].import_ctx].imported
        /\ slot[slot[x].import_ctx].buf # Null \/ status[slot[x].import_ctx] = "freed"

(* Imports that are still to be bound are zeroed. *)
Unbound ==
    /\ \A p \in Primaries : status[p] = "ready"
          => slot[p] = NoSlot \/ (~slot[p].imported /\ slot[p].buf # Null)
    /\ \A p \in Primaries : status[p] = "importing" /\ binding.to # p => slot[p] = NoSlot
    /\ \A m \in Owned :
          /\ Pending(m) /\ status[OwnedBy[m]] \in {"importing", "finalizing"}
          /\ binding.to # m
          => slot[m] = NoSlot

(* The slot of x holds a buffer for good. *)
Bound(x) ==
    IF x \in Owned THEN status[x] = "instantiated" \/ (status[x] = "ready" /\ wants[x] = Null)
    ELSE status[x] \in {"finalizing", "starting", "instantiated"}

(* A slot is bound by the innermost instantiation, to one that is bound. *)
BindingSound ==
    binding # NoBinding =>
        /\ stack # << >>
        /\ binding.to \in Contexts /\ Heap(binding.to) = stack[Len(stack)]
        /\ binding.from \in links[stack[Len(stack)]] /\ Bound(binding.from)
        /\ IF binding.to \in Owned
           THEN status[stack[Len(stack)]] = "finalizing" /\ Pending(binding.to)
           ELSE status[stack[Len(stack)]] = "importing"
        /\ slot[binding.to].imported /\ slot[binding.to].import_ctx = Holder(binding.from)

(* A bound slot holds the current buffer, whose owner knows the alias. *)
Current(x)    == slot[x].buf = <<Holder(x), version[Holder(x)]>>
BoundCurrent  == \A x \in Contexts : Usable(x) /\ Bound(x) => Current(x)
BoundKnown    == \A x \in Contexts : Usable(x) /\ Bound(x) /\ slot[x].imported
                                       => x \in dependents[slot[x].import_ctx]

(* A consumer imports from or links the one on whose list it is. *)
Consumer(x, y) == (slot[y].imported /\ slot[y].import_ctx = x) \/ (x \in Primaries /\ x \in links[y])
ListsSound ==
    /\ \A x \in Contexts : Usable(x) => \A y \in dependents[x] : Consumer(x, y)
    /\ \A h \in Primaries : Usable(h) =>
          \A y \in gc_dependents[h] : \E o \in Contexts : Heap(o) = h /\ y \in dependents[o]

(* While nothing is severed, who was given an object across a bridge is in *)
(* the link domain of the giver, and both are poisoned together.           *)
Giver(y, z) ==
    /\ y \in Primaries /\ z \in Primaries /\ Live(y) /\ Live(z)
    /\ z \in may_share_refs /\ y \in may_share_refs \cup has_objects
Tied == \A y \in Contexts : \A z \in bridged[y] :
            /\ Giver(y, z) /\ (Usable(y) <=> Usable(z))
            /\ Usable(y) => z \in PoisonDomain(y) /\ y \in PoisonDomain(z)

(* The contexts tied to p, by links or by objects given across a bridge,   *)
(* through contexts that may share references.                             *)
FirmEdges(share, link) ==
    [y \in Contexts |-> {z \in Contexts : z \in share /\ y \in share /\ (z \in link[y] \/ y \in link[z])}]
Firm(share, link, p) == Closure(FirmEdges(share, link), p)
Bonds    == [x \in Contexts |-> links[x] \cup bridged[x]]
Class(p) == Firm(may_share_refs, Bonds, p)

(* The primary p, or one that it links, is firmly tied to h.     *)
Joined(p, h) == p = h \/ \E l \in links[p] : l \in Primaries /\ h \in Class(l)

(* A context is linked with those it imports from. *)
ImportsJoined ==
    \A x \in Contexts : Usable(x) /\ slot[x].imported => Joined(Heap(x), Heap(slot[x].import_ctx))

(* ... and with those whose functions and objects it may have.  Only host  *)
(* objects can be of a context that may not share references yet.          *)
Near(h, y) ==
    \/ Heap(y) \in Class(h)
    \/ y \in has_objects /\ \E l \in Bonds[y] : l \in Primaries /\ l \in Class(h)
RefsJoined ==
    \A x \in Contexts : Usable(x) =>
        \A y \in refs[x] : Heap(x) \in may_share_refs /\ Near(Heap(x), y)

LinkInv ==
    /\ TypeOK /\ StackSound /\ BlankUnlessLive /\ Ownership /\ WantsLinked /\ Sharing
    /\ Linked /\ SameFate /\ ListsSound /\ Intact /\ Tied
    /\ Flat /\ Unbound /\ BindingSound /\ BoundCurrent /\ BoundKnown /\ FreedOnce
    /\ ImportsJoined /\ RefsJoined
-----------------------------------------------------------------------------
(* What one step reaches are contexts. *)
Graph == [Contexts -> SUBSET Contexts]

(* A set that is closed under the relation contains what is reached. *)
LEMMA ClosureLeast ==
    ASSUME NEW E, NEW S \in SUBSET Contexts, NEW x \in S, \A z \in S : E[z] \subseteq S
    PROVE  Closure(E, x) \subseteq S
  BY DEF Closure

(* The start is reached. *)
LEMMA ClosureSelf ==
    ASSUME NEW E, NEW x \in Contexts
    PROVE  x \in Closure(E, x) /\ Closure(E, x) \subseteq Contexts
  BY DEF Closure

(* What one more step reaches is reached. *)
LEMMA ClosureStep ==
    ASSUME NEW E \in Graph, NEW x, NEW y \in Closure(E, x), NEW z \in E[y]
    PROVE  z \in Closure(E, x)
  <1>1. y \in Contexts /\ z \in Contexts
    BY DEF Closure, Graph
  <1>2. ASSUME NEW S \in SUBSET Contexts, x \in S, \A w \in S : E[w] \subseteq S
        PROVE  z \in S
    <2>1. y \in S
      BY <1>2 DEF Closure
    <2> QED
      BY <1>2, <2>1
  <1> QED
    BY <1>1, <1>2 DEF Closure

(* Reaching is transitive. *)
LEMMA ClosureTrans ==
    ASSUME NEW E \in Graph, NEW x, NEW y \in Closure(E, x)
    PROVE  Closure(E, y) \subseteq Closure(E, x)
  <1>1. Closure(E, x) \in SUBSET Contexts
    BY DEF Closure
  <1>2. \A z \in Closure(E, x) : E[z] \subseteq Closure(E, x)
    BY ClosureStep
  <1> QED
    BY <1>1, <1>2, ClosureLeast

(* A relation that is symmetric reaches back. *)
LEMMA ClosureSym ==
    ASSUME NEW E \in Graph, NEW x \in Contexts, NEW y \in Closure(E, x),
           \A u, v \in Contexts : u \in E[v] => v \in E[u]
    PROVE  x \in Closure(E, y)
  <1> DEFINE S == {z \in Contexts : x \in Closure(E, z)}
  <1>1. x \in S
    BY ClosureSelf
  <1>2. ASSUME NEW z \in S, NEW w \in E[z] PROVE w \in S
    <2>1. w \in Contexts /\ z \in Contexts /\ x \in Closure(E, z)
      BY <1>2 DEF Graph
    <2>2. z \in E[w]
      BY <1>2, <2>1
    <2>3. z \in Closure(E, w)
      BY <2>1, <2>2, ClosureSelf, ClosureStep
    <2> QED
      BY <2>1, <2>3, ClosureTrans
  <1>3. Closure(E, x) \subseteq S
    BY <1>1, <1>2, ClosureLeast
  <1> QED
    BY <1>3

(* More edges reach more. *)
LEMMA ClosureMono ==
    ASSUME NEW E, NEW D \in Graph, NEW x \in Contexts, \A z \in Contexts : E[z] \subseteq D[z]
    PROVE  Closure(E, x) \subseteq Closure(D, x)
  <1>1. Closure(D, x) \in SUBSET Contexts /\ x \in Closure(D, x)
    BY ClosureSelf
  <1>2. \A z \in Closure(D, x) : E[z] \subseteq Closure(D, x)
    BY <1>1, ClosureStep
  <1> QED
    BY <1>1, <1>2, ClosureLeast
-----------------------------------------------------------------------------
(* No context is there yet. *)
LEMMA InitInv == Init => LinkInv
  <1> SUFFICES ASSUME Init PROVE LinkInv
    OBVIOUS
  <1>0. \A x \in Contexts : ~Live(x) /\ ~Usable(x) /\ ~HasCode(x) /\ ~slot[x].imported /\ slot[x].buf = Null
    BY DEF Init, Live, Usable, HasCode, NoSlot
  <1>1. TypeOK
    <2>1. severed \in BOOLEAN
      BY DEF Init
    <2> QED
      BY <2>1, LinkAssumption DEF Init, TypeOK, Contexts, Statuses, NoSlot, Slots, NoBinding
  <1>2. StackSound /\ BlankUnlessLive /\ Ownership
    BY LinkAssumption DEF Init, StackSound, BlankUnlessLive, Blank, Ownership, Live, Contexts
  <1>3. WantsLinked /\ Sharing
    BY DEF Init, WantsLinked, Sharing, HasCode, Contexts
  <1>4. Linked /\ SameFate /\ ListsSound /\ Intact /\ Tied
    BY <1>0 DEF Init, Linked, SameFate, ListsSound, Intact, Tied, Contexts
  <1>5. Flat /\ BoundCurrent /\ BoundKnown /\ FreedOnce /\ ImportsJoined /\ RefsJoined
    BY <1>0 DEF Flat, BoundCurrent, BoundKnown, FreedOnce, ImportsJoined, RefsJoined
  <1>6. Unbound /\ BindingSound
    BY DEF Init, Unbound, Pending, BindingSound, Contexts
  <1> QED
    BY <1>1, <1>2, <1>3, <1>4, <1>5, <1>6 DEF LinkInv
-----------------------------------------------------------------------------
(* The heap of a context is that of a primary. *)
LEMMA HeapFacts ==
    /\ \A x \in Contexts : Heap(x) \in Primaries /\ Heap(x) \in Contexts
    /\ \A p \in Primaries : p \in Contexts /\ p \notin Owned /\ Heap(p) = p
    /\ \A m \in Owned : m \in Contexts /\ m \notin Primaries /\ Heap(m) = OwnedBy[m] /\ OwnedBy[m] \in Primaries
  BY LinkAssumption DEF Heap, Contexts

(* The slots that contexts start with. *)
LEMMA SlotFacts ==
    /\ ~NoSlot.imported /\ NoSlot.imported = FALSE /\ NoSlot.import_ctx = Null /\ NoSlot.buf = Null
    /\ \A x : ~Own(x).imported /\ Own(x).imported = FALSE /\ Own(x).import_ctx = Null /\ Own(x).buf = <<x, 0>>
  BY DEF NoSlot, Own

(* Contexts that may share references are in one class if they are linked; *)
(* classes are disjoint.                                                   *)
LEMMA EdgeFacts ==
    ASSUME NEW share \in SUBSET Contexts, NEW link \in Graph
    PROVE  /\ FirmEdges(share, link) \in Graph
           /\ \A u, v \in Contexts : u \in FirmEdges(share, link)[v]
                                     <=> /\ u \in share /\ v \in share
                                         /\ u \in link[v] \/ v \in link[u]
  BY DEF FirmEdges, Graph

(* Classes are disjoint, and linked contexts that may share are in one. *)
LEMMA FirmFacts ==
    ASSUME NEW share \in SUBSET Contexts, NEW link \in Graph, NEW p \in Contexts
    PROVE  /\ p \in Firm(share, link, p) /\ Firm(share, link, p) \subseteq Contexts
           /\ \A y \in Firm(share, link, p) : y = p \/ (y \in share /\ p \in share)
           /\ \A y \in Firm(share, link, p) : Firm(share, link, y) = Firm(share, link, p)
           /\ \A q \in Contexts : /\ p \in share /\ q \in share
                                  /\ q \in link[p] \/ p \in link[q]
                                  => q \in Firm(share, link, p) /\ Firm(share, link, q) = Firm(share, link, p)
  <1> DEFINE E == FirmEdges(share, link)
             C(q) == Firm(share, link, q)
  <1>1. E \in Graph /\ \A u, v \in Contexts : u \in E[v] => v \in E[u]
    BY EdgeFacts
  <1>2. p \in C(p) /\ C(p) \subseteq Contexts
    BY ClosureSelf DEF Firm
  <1>3. \A y \in C(p) : y = p \/ (y \in share /\ p \in share)
    <2> DEFINE S == {y \in Contexts : y = p \/ (y \in share /\ p \in share)}
    <2>1. S \in SUBSET Contexts /\ p \in S
      OBVIOUS
    <2>2. \A z \in S : E[z] \subseteq S
      BY EdgeFacts DEF Graph
    <2>3. Closure(E, p) \subseteq S
      BY <2>1, <2>2, ClosureLeast
    <2> QED
      BY <2>3 DEF Firm
  <1>4. ASSUME NEW y \in C(p) PROVE C(y) = C(p)
    <2>1. y \in Contexts /\ y \in Closure(E, p)
      BY <1>2, <1>4 DEF Firm
    <2> HIDE DEF E
    <2>2. p \in Closure(E, y)
      BY <1>1, <2>1, ClosureSym
    <2>3. Closure(E, y) \subseteq Closure(E, p) /\ Closure(E, p) \subseteq Closure(E, y)
      BY <1>1, <2>1, <2>2, ClosureTrans
    <2> QED
      BY <2>3 DEF Firm, E
  <1>5. ASSUME NEW q \in Contexts, p \in share, q \in share, q \in link[p] \/ p \in link[q]
        PROVE  q \in C(p) /\ C(q) = C(p)
    <2>1. q \in E[p]
      BY <1>5, EdgeFacts
    <2>2. p \in Closure(E, p)
      BY ClosureSelf
    <2> HIDE DEF E
    <2>3. q \in Closure(E, p)
      BY <1>1, <2>1, <2>2, ClosureStep
    <2>4. q \in C(p)
      BY <2>3 DEF Firm, E
    <2> QED
      BY <2>4, <1>4
  <1> QED
    BY <1>2, <1>3, <1>4, <1>5

(* Classes as they are now. *)
LEMMA ClassFacts ==
    ASSUME TypeOK, NEW p \in Contexts
    PROVE  /\ p \in Class(p) /\ Class(p) \subseteq Contexts
           /\ \A y \in Class(p) : y = p \/ (y \in may_share_refs /\ p \in may_share_refs)
           /\ \A y \in Class(p) : Class(y) = Class(p)
           /\ \A q \in Contexts : /\ p \in may_share_refs /\ q \in may_share_refs
                                  /\ q \in Bonds[p] \/ p \in Bonds[q] \/ q \in links[p] \/ p \in links[q]
                                  => q \in Class(p) /\ Class(q) = Class(p)
  <1>1. may_share_refs \in SUBSET Contexts /\ Bonds \in Graph
    BY DEF TypeOK, Contexts, Graph, Bonds
  <1>2. \A q \in Contexts : links[q] \subseteq Bonds[q]
    BY DEF Bonds
  <1> QED
    BY <1>1, <1>2, FirmFacts DEF Class

(* The same after a step. *)
LEMMA NextClassFacts ==
    ASSUME TypeOK', NEW p \in Contexts
    PROVE  /\ p \in Class(p)' /\ Class(p)' \subseteq Contexts
           /\ \A y \in Class(p)' : y = p \/ (y \in may_share_refs' /\ p \in may_share_refs')
           /\ \A y \in Class(p)' : Class(y)' = Class(p)'
           /\ \A q \in Contexts : /\ p \in may_share_refs' /\ q \in may_share_refs'
                                  /\ q \in Bonds'[p] \/ p \in Bonds'[q] \/ q \in links'[p] \/ p \in links'[q]
                                  => q \in Class(p)' /\ Class(q)' = Class(p)'
  <1>1. may_share_refs' \in SUBSET Contexts /\ Bonds' \in Graph
    BY DEF TypeOK, Contexts, Graph, Bonds
  <1>2. \A q \in Contexts : links'[q] \subseteq Bonds'[q]
    BY DEF Bonds
  <1> QED
    BY <1>1, <1>2, FirmFacts DEF Class

(* Classes grow with the links among contexts that may share references. *)
LEMMA ClassGrows ==
    ASSUME TypeOK, TypeOK', may_share_refs \subseteq may_share_refs',
           \A y, z \in may_share_refs : /\ z \in links[y] => z \in links'[y]
                                        /\ z \in bridged[y] => z \in bridged'[y]
    PROVE  \A p \in Contexts : Class(p) \subseteq Class(p)'
  <1> DEFINE E == FirmEdges(may_share_refs, Bonds)
             D == FirmEdges(may_share_refs', Bonds')
  <1>1. D \in Graph
    BY DEF FirmEdges, Graph
  <1>2. \A z \in Contexts : E[z] \subseteq D[z]
    <2>1. \A y, z \in may_share_refs : z \in Contexts /\ y \in Contexts /\ (z \in Bonds[y] => z \in Bonds'[y])
      BY DEF Bonds, TypeOK, Contexts
    <2> QED
      BY <2>1 DEF FirmEdges
  <1>3. ASSUME NEW p \in Contexts PROVE Class(p) \subseteq Class(p)'
    <2>1. Class(p) = Closure(E, p) /\ Class(p)' = Closure(D, p)
      BY DEF Class, Firm
    <2> HIDE DEF E, D
    <2> QED
      BY <1>1, <1>2, <2>1, ClosureMono
  <1> QED
    BY <1>3

(* What the invariant says about a context in use. *)
LEMMA UsableFacts ==
    ASSUME LinkInv
    PROVE  /\ \A x \in Contexts : Usable(x) => Usable(Heap(x)) /\ (x \in Owned => x \in links[Heap(x)])
           /\ \A x \in Contexts : Usable(x) => /\ Holder(x) \in Contexts /\ Usable(Holder(x))
                                               /\ ~slot[Holder(x)].imported /\ Holder(Holder(x)) = Holder(x)
           /\ \A p \in Primaries : Usable(p) =>
                 \A l \in links[p] : /\ l \in Contexts /\ Usable(l)
                                     /\ l \in Primaries => l \in may_share_refs
           /\ \A p \in Primaries : Usable(p) => \A l \in Bonds[p] : l \in Primaries =>
                 l \in Contexts /\ Usable(l) /\ l \in may_share_refs
  <1>1. ASSUME NEW x \in Contexts, Usable(x)
        PROVE  Usable(Heap(x)) /\ (x \in Owned => x \in links[Heap(x)])
    <2>1. x \in Owned => x \in links[Heap(x)]
      BY <1>1, HeapFacts DEF LinkInv, Ownership, Usable
    <2>2. x \in Owned \/ x = Heap(x)
      BY HeapFacts DEF Contexts
    <2> QED
      BY <1>1, <2>1, <2>2, HeapFacts DEF LinkInv, SameFate
  <1>2. ASSUME NEW x \in Contexts, Usable(x)
        PROVE  /\ Holder(x) \in Contexts /\ Usable(Holder(x))
               /\ ~slot[Holder(x)].imported /\ Holder(Holder(x)) = Holder(x)
    <2>1. Usable(Holder(x))
      BY <1>2 DEF LinkInv, Intact
    <2>2. Holder(x) \in Contexts /\ ~slot[Holder(x)].imported
      BY <1>2 DEF LinkInv, Flat, Holder
    <2> QED
      BY <2>1, <2>2 DEF Holder
  <1>3. ASSUME NEW p \in Primaries, Usable(p), NEW l \in links[p]
        PROVE  l \in Contexts /\ Usable(l) /\ (l \in Primaries => l \in may_share_refs)
    <2>1. p \in Contexts /\ l \in Contexts
      BY HeapFacts DEF LinkInv, TypeOK
    <2>2. Usable(l)
      BY <1>3, <2>1 DEF LinkInv, Intact
    <2>3. l \in Primaries => l \in may_share_refs
      BY <1>3 DEF LinkInv, Linked, Sharing, HasCode
    <2> QED
      BY <2>1, <2>2, <2>3
  <1>4. ASSUME NEW p \in Primaries, Usable(p), NEW l \in Bonds[p], l \in Primaries
        PROVE  l \in Contexts /\ Usable(l) /\ l \in may_share_refs
    <2>1. p \in Contexts /\ l \in Contexts /\ (l \in links[p] \/ l \in bridged[p])
      BY <1>4, HeapFacts DEF Bonds
    <2>2. CASE l \in bridged[p]
      BY <1>4, <2>1, <2>2 DEF LinkInv, Tied, Giver
    <2> QED
      BY <1>3, <1>4, <2>1, <2>2
  <1> QED
    BY <1>1, <1>2, <1>3, <1>4

(* A step that only adds to lists and flags keeps contexts tied. *)
LEMMA TiedKept ==
    ASSUME TypeOK, TypeOK', Tied, bridged' = bridged,
           \A x \in Contexts : \A y \in links[x] : y \in links'[x],
           \A x \in Contexts : \A y \in dependents[x] : y \in dependents'[x],
           may_share_refs \subseteq may_share_refs',
           \A y \in has_objects : y \in has_objects' \/ y \in may_share_refs',
           \A x \in Contexts : Live(x) => Live(x)' /\ (Usable(x)' <=> Usable(x))
    PROVE  Tied'
  <1> DEFINE E == [y \in Contexts |-> links[y] \cup dependents[y]]
             D == [y \in Contexts |-> links'[y] \cup dependents'[y]]
  <1>1. D \in Graph /\ \A z \in Contexts : E[z] \subseteq D[z]
    BY DEF Graph, TypeOK
  <1>2. \A x : PoisonDomain(x) = Closure(E, x) /\ PoisonDomain(x)' = Closure(D, x)
    BY DEF PoisonDomain
  <1> HIDE DEF E, D
  <1>3. \A x \in Contexts : PoisonDomain(x) \subseteq PoisonDomain(x)'
    BY <1>1, <1>2, ClosureMono
  <1> SUFFICES ASSUME NEW y \in Contexts, NEW z \in bridged[y]
               PROVE  /\ Giver(y, z)' /\ (Usable(y)' <=> Usable(z)')
                      /\ Usable(y)' => z \in PoisonDomain(y)' /\ y \in PoisonDomain(z)'
    BY DEF Tied
  <1>4. /\ Giver(y, z) /\ (Usable(y) <=> Usable(z))
        /\ Usable(y) => z \in PoisonDomain(y) /\ y \in PoisonDomain(z)
        /\ z \in Contexts
    BY DEF Tied, TypeOK
  <1>5. Live(y) /\ Live(z)
    BY <1>4 DEF Giver
  <1>6. Giver(y, z)'
    BY <1>4, <1>5 DEF Giver
  <1> QED
    BY <1>3, <1>4, <1>5, <1>6

(* While a slot is being bound, the host does not have control. *)
LEMMA HostTurnFacts ==
    ASSUME LinkInv, HostTurn
    PROVE  binding = NoBinding
  BY DEF LinkInv, BindingSound, HostTurn

(* The innermost instantiation, whose slots are being bound. *)
LEMMA TopFacts ==
    ASSUME LinkInv, NEW p \in Primaries, Top(p)
    PROVE  /\ stack \in Seq(Primaries) /\ Len(stack) \in Nat \ {0} /\ stack[Len(stack)] = p
           /\ status[p] \in {"importing", "finalizing", "starting"} /\ Usable(p)
           /\ \A i \in 1..(Len(stack) - 1) : stack[i] # p /\ status[stack[i]] = "starting"
  <1>1. stack \in Seq(Primaries) /\ Len(stack) \in Nat \ {0} /\ stack[Len(stack)] = p
    BY DEF LinkInv, TypeOK, Top
  <1>2. Len(stack) \in 1..Len(stack) /\ \A i \in 1..(Len(stack) - 1) : i \in 1..Len(stack) /\ i < Len(stack)
    BY <1>1
  <1>3. status[p] \in {"importing", "finalizing", "starting"} /\ p \notin poisoned
    BY <1>1, <1>2 DEF LinkInv, StackSound
  <1>4. \A i \in 1..(Len(stack) - 1) : stack[i] # p /\ status[stack[i]] = "starting"
    BY <1>1, <1>2 DEF LinkInv, StackSound
  <1> QED
    BY <1>1, <1>3, <1>4 DEF Usable, Live

(* A step that adds importers to the lists at most, poisons nothing and    *)
(* frees nothing keeps what is known among contexts in use.                *)
LEMMA NetKept ==
    ASSUME LinkInv, TypeOK',
           \A x \in Contexts : (Live(x)' <=> Live(x)) /\ (Usable(x)' <=> Usable(x)),
           links' = links, refs' = refs, bridged' = bridged,
           \A x \in Contexts : \A y \in dependents[x] : y \in dependents'[x],
           \A x \in Contexts : \A y \in dependents'[x] :
              y \in dependents[x] \/ (Usable(y) /\ slot'[y].imported /\ slot'[y].import_ctx = x),
           \A h \in Primaries : \A y \in gc_dependents'[h] :
              y \in gc_dependents[h] \/ (Usable(y) /\ \E o \in Contexts : Heap(o) = h /\ y \in dependents'[o]),
           \A x \in Contexts : /\ slot'[x].imported = slot[x].imported
                               /\ slot'[x].import_ctx = slot[x].import_ctx,
           may_share_refs \subseteq may_share_refs',
           \A y \in has_objects : y \in has_objects' \/ y \in may_share_refs'
    PROVE  SameFate' /\ ListsSound' /\ Intact' /\ Tied' /\ ImportsJoined' /\ RefsJoined'
  <1>1. SameFate'
    BY HeapFacts DEF LinkInv, SameFate, TypeOK
  <1>2. \A x, y \in Contexts : Consumer(x, y)' <=> Consumer(x, y)
    BY DEF Consumer
  <1>3. ListsSound'
    <2>1. ASSUME NEW x \in Contexts, Usable(x)', NEW y \in dependents'[x]
          PROVE  Consumer(x, y)'
      <3>1. y \in Contexts
        BY <2>1 DEF TypeOK
      <3>2. CASE y \in dependents[x]
        BY <1>2, <2>1, <3>1, <3>2 DEF LinkInv, ListsSound
      <3>3. CASE slot'[y].imported /\ slot'[y].import_ctx = x
        BY <3>3 DEF Consumer
      <3> QED
        BY <2>1, <3>2, <3>3
    <2>2. ASSUME NEW h \in Primaries, Usable(h)', NEW y \in gc_dependents'[h]
          PROVE  \E o \in Contexts : Heap(o) = h /\ y \in dependents'[o]
      <3>1. Usable(h)
        BY <2>2, HeapFacts
      <3> QED
        BY <2>2, <3>1 DEF LinkInv, ListsSound
    <2> QED
      BY <2>1, <2>2 DEF ListsSound, Heap
  <1>4. \A x \in Contexts : Holder(x)' = Holder(x)
    BY DEF Holder
  <1>5. Intact'
    <2> SUFFICES ASSUME NEW x \in Contexts, Usable(x)',
                        NEW y \in links[x] \cup dependents'[x] \cup gc_dependents'[Heap(x)] \cup {Holder(x)} \cup refs[x]
                 PROVE  Usable(y)'
      BY <1>4 DEF Intact, Heap
    <2>0. Usable(x) /\ Heap(x) \in Primaries
      BY HeapFacts
    <2>1. Usable(y)
      BY <2>0 DEF LinkInv, Intact
    <2>2. y \in Contexts
      BY <2>1, UsableFacts, HeapFacts DEF LinkInv, TypeOK
    <2> QED
      BY <2>1, <2>2
  <1>6. \A p \in Contexts : Class(p) \subseteq Class(p)'
    BY ClassGrows DEF LinkInv
  <1>7. ImportsJoined'
    <2> SUFFICES ASSUME NEW x \in Contexts, Usable(x)', slot'[x].imported
                 PROVE  Joined(Heap(x), Heap(slot[x].import_ctx))'
      BY DEF ImportsJoined
    <2>1. Joined(Heap(x), Heap(slot[x].import_ctx))
      BY DEF LinkInv, ImportsJoined
    <2>2. slot'[x].import_ctx = slot[x].import_ctx
      OBVIOUS
    <2>3. \A l \in Primaries : l \in Contexts
      BY HeapFacts
    <2> QED
      BY <1>6, <2>1, <2>2, <2>3 DEF Joined, Heap
  <1>8. RefsJoined'
    <2> SUFFICES ASSUME NEW x \in Contexts, Usable(x)', NEW y \in refs[x]
                 PROVE  Heap(x) \in may_share_refs' /\ Near(Heap(x), y)'
      BY DEF RefsJoined, Heap
    <2>1. Usable(x) /\ Usable(y) /\ Heap(x) \in may_share_refs /\ Near(Heap(x), y) /\ y \in Contexts
      BY DEF LinkInv, RefsJoined, Intact, TypeOK
    <2>2. Heap(x) \in Contexts /\ Class(Heap(x)) \subseteq Class(Heap(x))'
      BY <1>6, HeapFacts
    <2>3. CASE Heap(y) \in Class(Heap(x))
      BY <2>1, <2>2, <2>3 DEF Near, Heap
    <2>4. CASE y \in has_objects /\ \E l \in Bonds[y] : l \in Primaries /\ l \in Class(Heap(x))
      <3>0. Bonds' = Bonds
        BY DEF Bonds
      <3>1. PICK l \in Bonds[y] : l \in Primaries /\ l \in Class(Heap(x))
        BY <2>4
      <3>2. y \in Primaries /\ l \in may_share_refs /\ l \in Contexts /\ Heap(y) = y
        BY <2>1, <2>4, <3>1, UsableFacts, HeapFacts DEF LinkInv, TypeOK
      <3>3. CASE y \in has_objects'
        BY <2>1, <2>2, <3>0, <3>1, <3>3 DEF Near, Heap
      <3>4. CASE y \in may_share_refs'
        <4>1. l \in Class(Heap(x))' /\ l \in may_share_refs'
          BY <2>2, <3>1, <3>2
        <4>2. Class(l)' = Class(Heap(x))' /\ y \in Class(l)'
          <5>1. Class(l)' = Class(Heap(x))'
            BY <2>2, <4>1, NextClassFacts
          <5>2. y \in Class(l)'
            BY <2>1, <3>0, <3>1, <3>2, <3>4, <4>1, NextClassFacts
          <5> QED
            BY <5>1, <5>2
        <4> QED
          BY <2>1, <2>2, <3>2, <4>2 DEF Near, Heap
      <3> QED
        BY <2>4, <3>3, <3>4
    <2> QED
      BY <2>1, <2>3, <2>4 DEF Near
  <1>9. Tied'
    BY TiedKept DEF LinkInv
  <1> QED
    BY <1>1, <1>3, <1>5, <1>7, <1>8, <1>9
-----------------------------------------------------------------------------
(* Steps that change flags, refs or modules only. *)
LEMMA StateKept ==
    ASSUME LinkInv, TypeOK', UNCHANGED <<status, poisoned, may_share_refs, links, dependents, gc_dependents,
                                         slot, version, wants, binding, stack>>,
           \A x \in Contexts : bridged[x] \subseteq bridged'[x]
    PROVE  /\ StackSound' /\ WantsLinked' /\ Sharing' /\ Linked' /\ SameFate' /\ ListsSound'
           /\ Flat' /\ Unbound' /\ BindingSound' /\ BoundCurrent' /\ BoundKnown' /\ FreedOnce' /\ ImportsJoined'
           /\ \A x \in Contexts : (Live(x)' <=> Live(x)) /\ (Usable(x)' <=> Usable(x))
           /\ \A p \in Contexts : Class(p) \subseteq Class(p)'
  <1>1. \A x : /\ Live(x)' <=> Live(x)
               /\ Usable(x)' <=> Usable(x)
               /\ HasCode(x)' <=> HasCode(x)
               /\ Pending(x)' <=> Pending(x)
               /\ Bound(x)' <=> Bound(x)
               /\ Holder(x)' = Holder(x)
               /\ Heap(x)' = Heap(x)
               /\ Current(x)' <=> Current(x)
    BY DEF Live, Usable, HasCode, Pending, Bound, Holder, Heap, Current
  <1>2. \A p \in Contexts : Class(p) \subseteq Class(p)'
    <2>1. \A y, z \in may_share_refs : z \in bridged[y] => z \in bridged'[y]
      BY HeapFacts DEF LinkInv, TypeOK
    <2> QED
      BY <2>1, ClassGrows DEF LinkInv
  <1>3. \A p, h : /\ Joined(p, h) => Joined(p, h)'
                  /\ Consumer(p, h)' <=> Consumer(p, h)
    BY <1>2, HeapFacts DEF Joined, Consumer
  <1>4. StackSound' /\ WantsLinked' /\ Sharing'
    BY <1>1 DEF LinkInv, StackSound, WantsLinked, Sharing
  <1>5. Linked' /\ SameFate' /\ ListsSound'
    BY <1>1, <1>3 DEF LinkInv, Linked, SameFate, ListsSound
  <1>6. Flat' /\ Unbound' /\ BindingSound'
    BY <1>1 DEF LinkInv, Flat, Unbound, BindingSound, NoBinding
  <1>7. BoundCurrent' /\ BoundKnown' /\ FreedOnce'
    BY <1>1 DEF LinkInv, BoundCurrent, BoundKnown, FreedOnce
  <1>8. ImportsJoined'
    BY <1>1, <1>3 DEF LinkInv, ImportsJoined
  <1> QED
    BY <1>1, <1>2, <1>4, <1>5, <1>6, <1>7, <1>8

(* A step that changes nothing. *)
LEMMA StutterStep ==
    ASSUME LinkInv, UNCHANGED vars
    PROVE  LinkInv'
  <1>1. /\ UNCHANGED <<status, poisoned, may_share_refs, links, dependents, gc_dependents,
                       slot, version, wants, bridged, severed, binding, stack>>
        /\ UNCHANGED <<has_objects, modules, refs>>
    BY DEF vars, flags, registry, buffers, bridges
  <1>2. TypeOK'
    BY <1>1 DEF LinkInv, TypeOK
  <1>3. BlankUnlessLive' /\ Ownership'
    BY <1>1 DEF LinkInv, BlankUnlessLive, Blank, Live, Ownership
  <1>4. \A x : (Live(x)' <=> Live(x)) /\ (Usable(x)' <=> Usable(x)) /\ Heap(x)' = Heap(x) /\ Holder(x)' = Holder(x)
    BY <1>1 DEF Usable, Live, Heap, Holder
  <1>5. Intact' /\ Tied' /\ RefsJoined'
    BY <1>1, <1>2, <1>4, NetKept
  <1> QED
    BY <1>1, <1>2, <1>3, <1>5, StateKept DEF LinkInv

(* The registration with the heap that is taken back leaves no trace. *)
LEMMA LinkContextOutOfMemoryStep ==
    ASSUME LinkInv, NEW p \in Primaries, NEW q \in Primaries, LinkContextOutOfMemory(p, q)
    PROVE  LinkInv'
  <1>1. gc_dependents \in [Primaries -> SUBSET Contexts]
    BY DEF LinkInv, TypeOK
  <1>2. gc_dependents' = gc_dependents
    BY <1>1 DEF LinkContextOutOfMemory
  <1>3. UNCHANGED vars
    BY <1>2 DEF LinkContextOutOfMemory, vars, registry, buffers, flags, bridges
  <1> QED
    BY <1>3, StutterStep

(* A module is linked without creating a context. *)
LEMMA LinkModuleStep ==
    ASSUME LinkInv, NEW p \in Primaries, NEW m \in Owned, LinkModule(p, m)
    PROVE  LinkInv'
  <1>1. /\ UNCHANGED <<status, poisoned, may_share_refs, links, dependents, gc_dependents,
                       slot, version, wants, bridged, severed, binding, stack>>
        /\ UNCHANGED <<has_objects, refs>>
        /\ modules' = [modules EXCEPT ![p] = @ \cup {m}] /\ OwnedBy[m] = p /\ status[p] = "ready"
    BY DEF LinkModule, flags, registry, buffers, bridges
  <1>2. TypeOK'
    BY <1>1 DEF LinkInv, TypeOK
  <1>3. /\ modules \in [Primaries -> SUBSET Owned] /\ modules' \in [Primaries -> SUBSET Owned]
        /\ \A q \in Primaries : modules'[q] = IF q = p THEN modules[q] \cup {m} ELSE modules[q]
    BY <1>1, <1>2 DEF LinkInv, TypeOK
  <1>4. BlankUnlessLive'
    BY <1>1, <1>3 DEF LinkInv, BlankUnlessLive, Blank, Live
  <1>5. Ownership'
    BY <1>1, <1>3 DEF LinkInv, Ownership, Live
  <1>6. \A x \in Contexts : (Live(x)' <=> Live(x)) /\ (Usable(x)' <=> Usable(x))
    BY <1>1 DEF Usable, Live
  <1>7. Intact' /\ Tied' /\ RefsJoined'
    BY <1>1, <1>2, <1>6, NetKept
  <1> QED
    BY <1>1, <1>2, <1>4, <1>5, <1>7, StateKept DEF LinkInv

(* The heap of a context that shares nothing gets objects. *)
LEMMA HostObjectStep ==
    ASSUME LinkInv, NEW p \in Primaries, HostObject(p)
    PROVE  LinkInv'
  <1>1. /\ UNCHANGED <<status, poisoned, may_share_refs, links, dependents, gc_dependents,
                       slot, version, wants, bridged, severed, binding, stack>>
        /\ UNCHANGED <<modules, refs>>
        /\ has_objects' = has_objects \cup {p} /\ Usable(p)
    BY DEF HostObject, registry, buffers, bridges
  <1>2. TypeOK'
    BY <1>1 DEF LinkInv, TypeOK
  <1>3. BlankUnlessLive' /\ Ownership'
    BY <1>1 DEF LinkInv, BlankUnlessLive, Blank, Live, Usable, Ownership
  <1>4. \A x \in Contexts : (Live(x)' <=> Live(x)) /\ (Usable(x)' <=> Usable(x))
    BY <1>1 DEF Usable, Live
  <1>5. Intact' /\ Tied' /\ RefsJoined'
    BY <1>1, <1>2, <1>4, NetKept
  <1> QED
    BY <1>1, <1>2, <1>3, <1>5, StateKept DEF LinkInv
-----------------------------------------------------------------------------
(* The innermost instantiation ends, well or badly, and with it what it    *)
(* was binding.                                                            *)
LEMMA LeaveKept ==
    ASSUME LinkInv, NEW p \in Primaries, Top(p), NEW s \in {"instantiated", "failed"},
           s = "instantiated" => status[p] = "starting",
           status' = [status EXCEPT ![p] = s], Pop, binding' = NoBinding,
           UNCHANGED <<poisoned, may_share_refs, modules, links, slot, version, wants>>,
           \A x \in Contexts : \A y \in dependents[x] : y \in dependents'[x]
    PROVE  /\ stack' \in Seq(Primaries) /\ status' \in [Contexts -> Statuses]
           /\ StackSound' /\ Ownership' /\ WantsLinked' /\ Sharing' /\ Linked'
           /\ Flat' /\ Unbound' /\ BindingSound' /\ BoundCurrent' /\ BoundKnown' /\ FreedOnce'
           /\ \A x \in Contexts : (Live(x)' <=> Live(x)) /\ (Usable(x)' <=> Usable(x))
  <1>0. /\ p \in Contexts /\ p \notin Owned
        /\ status[p] \in {"importing", "finalizing", "starting"} /\ Usable(p)
        /\ status \in [Contexts -> Statuses]
    BY TopFacts, HeapFacts DEF LinkInv, TypeOK
  <1>1. \A x \in Contexts : status'[x] = IF x = p THEN s ELSE status[x]
    BY <1>0
  <1>2. status' \in [Contexts -> Statuses]
    BY <1>0 DEF Statuses
  <1>3. \A x \in Contexts : /\ Live(x)' <=> Live(x)
                            /\ Usable(x)' <=> Usable(x)
                            /\ Pending(x)' <=> Pending(x)
                            /\ Bound(x)' => Bound(x)
                            /\ HasCode(x)' => HasCode(x)
                            /\ Holder(x)' = Holder(x)
    BY <1>0, <1>1 DEF Live, Usable, Pending, Bound, HasCode, Holder
  <1>4. stack' \in Seq(Primaries) /\ StackSound'
    <2>1. PICK n \in Nat \ {0} : n = Len(stack)
      BY TopFacts
    <2>2. stack \in Seq(Primaries) /\ stack' = SubSeq(stack, 1, n - 1)
      BY <2>1, TopFacts DEF Pop
    <2>3. /\ stack' \in Seq(Primaries) /\ Len(stack') = n - 1
          /\ \A i \in 1..(n - 1) : stack'[i] = stack[i] /\ i \in 1..n /\ i < n
      BY <2>1, <2>2
    <2>4. \A i \in 1..(n - 1) : stack[i] # p /\ status[stack[i]] = "starting" /\ stack[i] \in Contexts
      BY <2>1, <2>2, <2>3, TopFacts, HeapFacts
    <2>5. \A i \in 1..(n - 1) : stack[i] \notin poisoned /\ \A j \in 1..(n - 1) : stack[i] = stack[j] => i = j
      BY <2>1, <2>3 DEF LinkInv, StackSound
    <2>6. \A i \in 1..(n - 1) : status'[stack'[i]] = "starting"
      BY <1>1, <2>3, <2>4
    <2> QED
      BY <2>3, <2>5, <2>6 DEF StackSound
  <1>5. Ownership'
    BY <1>0, <1>1, <1>3, HeapFacts DEF LinkInv, Ownership, TypeOK
  <1>6. WantsLinked' /\ Sharing'
    BY <1>0, <1>1, <1>3, HeapFacts DEF LinkInv, WantsLinked, Sharing, HasCode
  <1>7. Linked'
    BY <1>0, <1>1, <1>3, HeapFacts DEF LinkInv, Linked
  <1>8. Flat'
    BY <1>0, <1>1 DEF LinkInv, Flat
  <1>9. Unbound' /\ BindingSound'
    <2>1. binding # NoBinding => binding.to \in Contexts /\ Heap(binding.to) = p
      BY TopFacts DEF LinkInv, BindingSound
    <2>2. binding = NoBinding => binding.to = Null /\ binding'.to = Null
      BY DEF NoBinding
    <2>3. Null \notin Contexts
      BY LinkAssumption DEF Contexts
    <2>4. \A q \in Primaries : q # p => q # binding.to
      BY <2>1, <2>2, <2>3, HeapFacts
    <2>5. \A m \in Owned : OwnedBy[m] # p => m # binding.to
      BY <2>1, <2>2, <2>3, HeapFacts
    <2>6. \A q \in Primaries : status'[q] = "importing" => q # p /\ status[q] = "importing"
      BY <1>1, HeapFacts
    <2>7. \A m \in Owned : status'[OwnedBy[m]] \in {"importing", "finalizing"}
                           => OwnedBy[m] # p /\ status[OwnedBy[m]] \in {"importing", "finalizing"}
      BY <1>1, HeapFacts
    <2>8. Unbound'
      BY <1>3, <2>4, <2>5, <2>6, <2>7, HeapFacts DEF LinkInv, Unbound
    <2> QED
      BY <2>8 DEF BindingSound, NoBinding
  <1>10. BoundCurrent'
    BY <1>3 DEF LinkInv, BoundCurrent, Current
  <1>11. BoundKnown'
    BY <1>3 DEF LinkInv, BoundKnown, Flat
  <1>12. FreedOnce'
    BY <1>3 DEF LinkInv, FreedOnce
  <1> QED
    BY <1>2, <1>3, <1>4, <1>5, <1>6, <1>7, <1>8, <1>9, <1>10, <1>11, <1>12

(* The start functions returned. *)
LEMMA FinishInstantiateStep ==
    ASSUME LinkInv, NEW p \in Primaries, FinishInstantiate(p)
    PROVE  LinkInv'
  <1>1. /\ Top(p) /\ status[p] = "starting" /\ status' = [status EXCEPT ![p] = "instantiated"] /\ Pop
        /\ UNCHANGED <<poisoned, may_share_refs, modules, links, slot, version, wants>>
        /\ UNCHANGED <<has_objects, dependents, gc_dependents, refs, bridged, severed, binding>>
    BY DEF FinishInstantiate, flags, registry, buffers, bridges
  <1>2. binding' = NoBinding
    BY <1>1, TopFacts DEF LinkInv, BindingSound
  <1>3. /\ stack' \in Seq(Primaries) /\ status' \in [Contexts -> Statuses]
        /\ StackSound' /\ Ownership' /\ WantsLinked' /\ Sharing' /\ Linked'
        /\ Flat' /\ Unbound' /\ BindingSound' /\ BoundCurrent' /\ BoundKnown' /\ FreedOnce'
        /\ \A x \in Contexts : (Live(x)' <=> Live(x)) /\ (Usable(x)' <=> Usable(x))
    BY <1>1, <1>2, LeaveKept
  <1>4. TypeOK'
    BY <1>1, <1>3 DEF LinkInv, TypeOK
  <1>5. BlankUnlessLive'
    BY <1>1, <1>3 DEF LinkInv, BlankUnlessLive, Blank
  <1>6. SameFate' /\ ListsSound' /\ Intact' /\ Tied' /\ ImportsJoined' /\ RefsJoined'
    BY <1>1, <1>3, <1>4, NetKept
  <1> QED
    BY <1>3, <1>4, <1>5, <1>6 DEF LinkInv

(* A failure leaves what is bound and registered as it is. *)
LEMMA InstantiateFailsStep ==
    ASSUME LinkInv, NEW p \in Primaries, InstantiateFails(p)
    PROVE  LinkInv'
  <1>1. /\ Top(p) /\ status' = [status EXCEPT ![p] = "failed"] /\ Pop /\ binding' = NoBinding
        /\ UNCHANGED <<poisoned, may_share_refs, modules, links, slot, version, wants>>
        /\ UNCHANGED <<has_objects, dependents, gc_dependents, refs, bridged, severed>>
    BY DEF InstantiateFails, Fail, flags, registry, buffers, bridges
  <1>3. /\ stack' \in Seq(Primaries) /\ status' \in [Contexts -> Statuses]
        /\ StackSound' /\ Ownership' /\ WantsLinked' /\ Sharing' /\ Linked'
        /\ Flat' /\ Unbound' /\ BindingSound' /\ BoundCurrent' /\ BoundKnown' /\ FreedOnce'
        /\ \A x \in Contexts : (Live(x)' <=> Live(x)) /\ (Usable(x)' <=> Usable(x))
    BY <1>1, LeaveKept
  <1>4. TypeOK'
    BY <1>1, <1>3 DEF LinkInv, TypeOK, NoBinding
  <1>5. BlankUnlessLive'
    BY <1>1, <1>3 DEF LinkInv, BlankUnlessLive, Blank
  <1>6. SameFate' /\ ListsSound' /\ Intact' /\ Tied' /\ ImportsJoined' /\ RefsJoined'
    BY <1>1, <1>3, <1>4, NetKept
  <1> QED
    BY <1>3, <1>4, <1>5, <1>6 DEF LinkInv
-----------------------------------------------------------------------------
(* The slot that is being bound, and the owner of its buffer, are in use. *)
LEMMA BindingFacts ==
    ASSUME LinkInv, NEW p \in Primaries, Top(p), binding # NoBinding,
           NEW x, x = binding.to, NEW f, f = binding.from, NEW o, o = slot[x].import_ctx
    PROVE  /\ x \in Contexts /\ Heap(x) = p /\ Usable(x) /\ slot[x].imported
           /\ IF x \in Owned THEN status[x] = "ready" /\ wants[x] # Null /\ status[p] = "finalizing"
              ELSE x = p /\ status[p] = "importing"
           /\ f \in Contexts /\ f \in links[p] /\ Usable(f) /\ Bound(f) /\ f # x
           /\ slot[f].buf = <<o, version[o]>>
           /\ o = Holder(f) /\ o \in Contexts /\ Usable(o) /\ ~slot[o].imported /\ o # x
  <1>1. /\ x \in Contexts /\ Heap(x) = p /\ slot[x].imported
        /\ f \in links[p] /\ Bound(f) /\ o = Holder(f)
        /\ IF x \in Owned THEN Pending(x) /\ status[p] = "finalizing" ELSE status[p] = "importing"
    BY TopFacts DEF LinkInv, BindingSound
  <1>2. x \in Owned \/ x = p
    BY <1>1, HeapFacts DEF Contexts
  <1>3. IF x \in Owned THEN status[x] = "ready" /\ wants[x] # Null /\ status[p] = "finalizing"
        ELSE x = p /\ status[p] = "importing"
    BY <1>1, <1>2 DEF Pending
  <1>4. ~Bound(x)
    BY <1>3 DEF Bound
  <1>5. Usable(p) /\ p \in Contexts
    BY TopFacts, HeapFacts
  <1>6. Usable(x)
    <2>1. CASE x = p
      BY <1>5, <2>1
    <2>2. CASE x \in Owned
      <3>1. Live(x) /\ x \in links[p]
        BY <1>1, <1>3, <2>2, HeapFacts DEF LinkInv, Ownership, Live
      <3> QED
        BY <1>5, <3>1 DEF LinkInv, SameFate
    <2> QED
      BY <1>2, <2>1, <2>2
  <1>7. f \in Contexts /\ Usable(f)
    BY <1>1, <1>5, UsableFacts
  <1>8. o \in Contexts /\ Usable(o) /\ ~slot[o].imported
    BY <1>1, <1>7, UsableFacts
  <1>9. slot[f].buf = <<o, version[o]>>
    BY <1>1, <1>7 DEF LinkInv, BoundCurrent, Current
  <1> QED
    BY <1>1, <1>3, <1>4, <1>6, <1>7, <1>8, <1>9

(* A slot that is marked but not registered is not bound, nor owned. *)
LEMMA RegisterImporterFailsStep ==
    ASSUME LinkInv, NEW p \in Primaries, RegisterImporterFails(p)
    PROVE  LinkInv'
  <1> DEFINE x == binding.to
             o == slot[x].import_ctx
  <1>1. /\ Top(p) /\ binding # NoBinding
        /\ dependents' = dependents \/ dependents' = [dependents EXCEPT ![o] = @ \cup {x}]
        /\ status' = [status EXCEPT ![p] = "failed"] /\ Pop /\ binding' = NoBinding
        /\ UNCHANGED <<poisoned, may_share_refs, modules, links, slot, version, wants>>
        /\ UNCHANGED <<has_objects, gc_dependents, refs, bridged, severed>>
    BY DEF RegisterImporterFails, Fail, flags, registry, buffers, bridges
  <1>2. x \in Contexts /\ Usable(x) /\ slot[x].imported /\ o \in Contexts /\ Usable(o)
    BY <1>1, BindingFacts
  <1>3. /\ dependents \in [Contexts -> SUBSET Contexts] /\ dependents' \in [Contexts -> SUBSET Contexts]
        /\ \A y \in Contexts : dependents[y] \subseteq dependents'[y]
        /\ \A y \in Contexts : \A z \in dependents'[y] : z \in dependents[y] \/ (z = x /\ y = o)
    <2>1. dependents \in [Contexts -> SUBSET Contexts]
      BY DEF LinkInv, TypeOK
    <2> HIDE DEF x, o
    <2> QED
      BY <1>1, <1>2, <2>1
  <1>4. /\ stack' \in Seq(Primaries) /\ status' \in [Contexts -> Statuses]
        /\ StackSound' /\ Ownership' /\ WantsLinked' /\ Sharing' /\ Linked'
        /\ Flat' /\ Unbound' /\ BindingSound' /\ BoundCurrent' /\ BoundKnown' /\ FreedOnce'
        /\ \A y \in Contexts : (Live(y)' <=> Live(y)) /\ (Usable(y)' <=> Usable(y))
    BY <1>1, <1>3, LeaveKept
  <1>5. TypeOK'
    BY <1>1, <1>3, <1>4 DEF LinkInv, TypeOK, NoBinding
  <1>6. BlankUnlessLive'
    <2>1. \A y \in Contexts : ~Live(y) => dependents'[y] = dependents[y]
      BY <1>2, <1>3 DEF Usable
    <2> QED
      BY <1>1, <1>4, <2>1 DEF LinkInv, BlankUnlessLive, Blank
  <1>7. \A y \in Contexts : \A z \in dependents'[y] :
           z \in dependents[y] \/ (Usable(z) /\ slot'[z].imported /\ slot'[z].import_ctx = y)
    BY <1>1, <1>2, <1>3
  <1>8. SameFate' /\ ListsSound' /\ Intact' /\ Tied' /\ ImportsJoined' /\ RefsJoined'
    BY <1>1, <1>3, <1>4, <1>5, <1>7, NetKept
  <1> QED
    BY <1>4, <1>5, <1>6, <1>8 DEF LinkInv

(* The slot is bound to a buffer whose owner knows it now. *)
LEMMA RegisterImporterStep ==
    ASSUME LinkInv, NEW p \in Primaries, RegisterImporter(p)
    PROVE  LinkInv'
  <1>0. PICK x, f, o : x = binding.to /\ f = binding.from /\ o = slot[x].import_ctx
    OBVIOUS
  <1>1. /\ Top(p) /\ binding # NoBinding
        /\ dependents' = [dependents EXCEPT ![o] = @ \cup {x}]
        /\ gc_dependents' = [gc_dependents EXCEPT ![Heap(o)] = @ \cup {x}]
        /\ slot' = [slot EXCEPT ![x].buf = slot[f].buf]
        /\ binding' = NoBinding
        /\ status' = [status EXCEPT ![x] = IF x \in Owned THEN "instantiated" ELSE "finalizing"]
        /\ UNCHANGED <<poisoned, may_share_refs, has_objects, modules, links, wants, version, refs, bridged, severed, stack>>
    BY <1>0 DEF RegisterImporter, Registered, flags, bridges
  <1>2. /\ x \in Contexts /\ Heap(x) = p /\ Usable(x) /\ slot[x].imported
        /\ IF x \in Owned THEN status[x] = "ready" /\ wants[x] # Null /\ status[p] = "finalizing"
           ELSE x = p /\ status[p] = "importing"
        /\ f \in Contexts /\ f \in links[p] /\ Usable(f) /\ Bound(f) /\ f # x
        /\ slot[f].buf = <<o, version[o]>>
        /\ o = Holder(f) /\ o \in Contexts /\ Usable(o) /\ ~slot[o].imported /\ o # x
    BY <1>0, <1>1, BindingFacts
  <1>3. TypeOK /\ Heap(o) \in Primaries /\ p \in Contexts /\ p \notin Owned
    BY <1>2, HeapFacts DEF LinkInv
  <1>4. /\ slot' \in [Contexts -> Slots] /\ slot'[x].buf = <<o, version[o]>>
        /\ slot'[x].imported /\ slot'[x].import_ctx = o
        /\ \A y \in Contexts : y # x => slot'[y] = slot[y]
        /\ \A y \in Contexts : slot'[y].imported = slot[y].imported /\ slot'[y].import_ctx = slot[y].import_ctx
    <2>1. slot \in [Contexts -> Slots] /\ version \in [Contexts -> 0..MaxGrowth]
      BY <1>3 DEF TypeOK
    <2>2. slot[f].buf \in (Contexts \X (0..MaxGrowth)) \cup {Null}
      BY <1>2, <2>1 DEF Slots
    <2>3. slot[x] \in [imported : BOOLEAN, import_ctx : Contexts \cup {Null}, buf : (Contexts \X (0..MaxGrowth)) \cup {Null}]
      BY <1>2, <2>1 DEF Slots
    <2>4. slot'[x] = [slot[x] EXCEPT !.buf = slot[f].buf] /\ \A y \in Contexts : y # x => slot'[y] = slot[y]
      BY <1>1, <1>2, <2>1
    <2>5. slot'[x] \in Slots /\ slot'[x].imported = slot[x].imported /\ slot'[x].import_ctx = slot[x].import_ctx
          /\ slot'[x].buf = slot[f].buf
      BY <2>2, <2>3, <2>4 DEF Slots
    <2>6. slot' \in [Contexts -> Slots]
      BY <1>1, <2>1, <2>4, <2>5
    <2> QED
      BY <1>0, <1>2, <2>4, <2>5, <2>6
  <1>5. /\ status' \in [Contexts -> Statuses]
        /\ \A y \in Contexts : y # x => status'[y] = status[y]
        /\ status'[x] = IF x \in Owned THEN "instantiated" ELSE "finalizing"
    BY <1>1, <1>2, <1>3 DEF TypeOK, Statuses
  <1>6. /\ dependents' \in [Contexts -> SUBSET Contexts] /\ x \in dependents'[o]
        /\ \A y \in Contexts : dependents[y] \subseteq dependents'[y]
        /\ \A y \in Contexts : \A z \in dependents'[y] : z \in dependents[y] \/ (z = x /\ y = o)
    BY <1>1, <1>2, <1>3 DEF TypeOK
  <1>7. /\ gc_dependents' \in [Primaries -> SUBSET Contexts]
        /\ \A h \in Primaries : \A z \in gc_dependents'[h] : z \in gc_dependents[h] \/ (z = x /\ h = Heap(o))
    BY <1>1, <1>2, <1>3 DEF TypeOK
  <1>8. TypeOK'
    BY <1>1, <1>3, <1>4, <1>5, <1>6, <1>7 DEF TypeOK, NoBinding
  <1>9. \A y \in Contexts : /\ Live(y)' <=> Live(y)
                            /\ Usable(y)' <=> Usable(y)
                            /\ HasCode(y)' => HasCode(y) \/ (y = x /\ x \in Owned)
                            /\ Pending(y)' => Pending(y) /\ y # x
                            /\ Bound(y)' => Bound(y) \/ y = x
                            /\ Holder(y)' = Holder(y)
    BY <1>1, <1>2, <1>4, <1>5 DEF Live, Usable, HasCode, Pending, Bound, Holder
  <1>10. Holder(x) = o /\ Holder(o) = o /\ \A y \in Contexts : y # x => (Current(y)' <=> Current(y))
    <2>1. Holder(x) = o /\ Holder(o) = o
      BY <1>0, <1>2 DEF Holder
    <2>2. ASSUME NEW y \in Contexts, y # x PROVE Current(y)' <=> Current(y)
      <3>1. slot'[y] = slot[y] /\ version' = version /\ Holder(y)' = Holder(y)
        BY <1>1, <1>4, <1>9, <2>2
      <3> QED
        BY <3>1 DEF Current
    <2> QED
      BY <2>1, <2>2
  <1>11. StackSound'
    <2>1. \A i \in 1..Len(stack) : stack[i] \in Primaries /\ stack[i] \in Contexts
      BY <1>3, HeapFacts DEF TypeOK
    <2>2. \A i \in 1..(Len(stack) - 1) : stack[i] # p
      BY <1>1, TopFacts
    <2>3. Len(stack) \in Nat \ {0} /\ stack[Len(stack)] = p
      BY <1>1, TopFacts
    <2>4. \A i \in 1..Len(stack) : i < Len(stack) => stack[i] # x
      BY <1>2, <2>1, <2>2, <2>3, HeapFacts
    <2>5. \A i \in 1..Len(stack) : status'[stack[i]] \in {"importing", "finalizing", "starting"}
      BY <1>2, <1>5, <2>1, <2>3, <2>4, HeapFacts DEF LinkInv, StackSound
    <2>6. \A i \in 1..Len(stack) : i < Len(stack) => status'[stack[i]] = "starting"
      BY <1>5, <2>1, <2>4 DEF LinkInv, StackSound
    <2> QED
      BY <1>1, <2>5, <2>6 DEF LinkInv, StackSound
  <1>12. BlankUnlessLive'
    <2>1. \A y \in Contexts : ~Live(y) => y # x /\ y # o /\ y # Heap(o)
      BY <1>2, UsableFacts DEF Usable
    <2>2. \A y \in Contexts : ~Live(y) => dependents'[y] = dependents[y] /\ slot'[y] = slot[y]
      BY <1>4, <1>6, <2>1
    <2>3. \A h \in Primaries : ~Live(h) => gc_dependents'[h] = gc_dependents[h]
      BY <1>1, <1>3, <2>1, HeapFacts DEF TypeOK
    <2> QED
      BY <1>1, <1>9, <2>2, <2>3 DEF LinkInv, BlankUnlessLive, Blank
  <1>13. Ownership'
    BY <1>1, <1>2, <1>3, <1>5, <1>9, HeapFacts DEF LinkInv, Ownership, TypeOK
  <1>14. WantsLinked' /\ Sharing'
    BY <1>1, <1>2, <1>3, <1>5, <1>9, HeapFacts DEF LinkInv, WantsLinked, Sharing
  <1>15. Linked'
    BY <1>1, <1>2, <1>3, <1>5, <1>6, <1>9, HeapFacts DEF LinkInv, Linked
  <1>16. Flat'
    BY <1>2, <1>4, <1>5 DEF LinkInv, Flat
  <1>17. Unbound' /\ BindingSound'
    <2>1. \A q \in Primaries : status'[q] \in {"ready", "importing"} => q # x /\ status[q] = status'[q]
      BY <1>5, HeapFacts
    <2>2. \A m \in Owned : status'[OwnedBy[m]] \in {"importing", "finalizing"}
                           => status[OwnedBy[m]] \in {"importing", "finalizing"}
      BY <1>2, <1>5, HeapFacts
    <2>3. Unbound'
      BY <1>0, <1>4, <1>9, <2>1, <2>2, HeapFacts DEF LinkInv, Unbound
    <2> QED
      BY <1>1, <2>3 DEF BindingSound, NoBinding
  <1>18. BoundCurrent'
    <2>1. Current(x)'
      BY <1>1, <1>4, <1>9, <1>10 DEF Current
    <2> QED
      BY <1>9, <1>10, <2>1 DEF LinkInv, BoundCurrent
  <1>19. BoundKnown'
    BY <1>4, <1>6, <1>9 DEF LinkInv, BoundKnown, Flat
  <1>20. FreedOnce'
    BY <1>1, <1>4, <1>9 DEF LinkInv, FreedOnce
  <1>21. SameFate' /\ ListsSound' /\ Intact' /\ Tied' /\ ImportsJoined' /\ RefsJoined'
    <2>1. \A y \in Contexts : \A z \in dependents'[y] :
             z \in dependents[y] \/ (Usable(z) /\ slot'[z].imported /\ slot'[z].import_ctx = y)
      BY <1>2, <1>4, <1>6
    <2>2. \A h \in Primaries : \A z \in gc_dependents'[h] :
             z \in gc_dependents[h] \/ (Usable(z) /\ \E w \in Contexts : Heap(w) = h /\ z \in dependents'[w])
      BY <1>2, <1>6, <1>7
    <2> QED
      BY <1>1, <1>4, <1>6, <1>8, <1>9, <2>1, <2>2, NetKept
  <1> QED
    BY <1>8, <1>11, <1>12, <1>13, <1>14, <1>15, <1>16, <1>17, <1>18, <1>19, <1>20, <1>21 DEF LinkInv
-----------------------------------------------------------------------------
(* All slots are bound; the links of p join classes. *)
LEMMA BeginStartStep ==
    ASSUME LinkInv, NEW p \in Primaries, BeginStart(p)
    PROVE  LinkInv'
  <1>1. /\ Top(p) /\ modules[p] \subseteq links[p] /\ binding = NoBinding /\ status[p] = "finalizing"
        /\ \A m \in modules[p] : ~Pending(m)
        /\ status' = [x \in Contexts |-> IF x = p THEN "starting"
                                         ELSE IF x \in modules[p] THEN "instantiated" ELSE status[x]]
        /\ may_share_refs' = may_share_refs \cup {p} /\ has_objects' = has_objects \ {p}
        /\ UNCHANGED <<poisoned, modules, links, dependents, gc_dependents, slot, version, wants, refs, bridged, severed,
                       binding, stack>>
    BY DEF BeginStart, Complete, registry, buffers, bridges
  <1>2. TypeOK /\ p \in Contexts /\ p \notin Owned /\ Usable(p)
    BY <1>1, TopFacts, HeapFacts DEF LinkInv
  <1>3. \A m \in modules[p] : /\ m \in Owned /\ m \in Contexts /\ m # p /\ OwnedBy[m] = p /\ Live(m)
                              /\ status[m] \in {"ready", "instantiated"} /\ Bound(m)
    <2> SUFFICES ASSUME NEW m \in modules[p]
                 PROVE  /\ m \in Owned /\ m \in Contexts /\ m # p /\ OwnedBy[m] = p /\ Live(m)
                        /\ status[m] \in {"ready", "instantiated"} /\ Bound(m)
      OBVIOUS
    <2>1. m \in Owned /\ m \in Contexts /\ m # p
      BY <1>2, HeapFacts DEF TypeOK
    <2>2. OwnedBy[m] = p /\ Live(m)
      BY <1>1, <2>1 DEF LinkInv, Ownership
    <2>3. status[m] \in {"ready", "instantiated"}
      BY <2>1, <2>2 DEF LinkInv, Ownership, Live
    <2> QED
      BY <1>1, <2>1, <2>2, <2>3 DEF Pending, Bound
  <1>4. /\ status'[p] = "starting" /\ \A m \in modules[p] : status'[m] = "instantiated"
        /\ \A x \in Contexts : x # p /\ x \notin modules[p] => status'[x] = status[x]
    BY <1>1, <1>2, <1>3
  <1>5. TypeOK'
    <2>1. status' \in [Contexts -> Statuses]
      BY <1>1, <1>2 DEF TypeOK, Statuses
    <2> QED
      BY <1>1, <1>2, <2>1 DEF TypeOK
  <1>6. \A x \in Contexts : /\ Live(x)' <=> Live(x)
                            /\ Usable(x)' <=> Usable(x)
                            /\ Pending(x)' => Pending(x)
                            /\ Bound(x)' => Bound(x)
                            /\ Holder(x)' = Holder(x)
    BY <1>1, <1>2, <1>3, <1>4 DEF Live, Usable, Pending, Bound, Holder
  <1>7. \A q \in Primaries : q \in Contexts /\ q \notin modules[p] /\ (q # p => status'[q] = status[q])
    BY <1>3, <1>4, HeapFacts
  <1>8. StackSound'
    <2>1. \A i \in 1..Len(stack) : stack[i] \in Primaries
      BY <1>2 DEF TypeOK
    <2>2. stack' = stack /\ poisoned' = poisoned /\ status[p] = "finalizing"
      BY <1>1
    <2> QED
      BY <1>4, <1>7, <2>1, <2>2 DEF LinkInv, StackSound
  <1>9. BlankUnlessLive'
    BY <1>1, <1>2, <1>6 DEF LinkInv, BlankUnlessLive, Blank, Usable
  <1>10. Ownership'
    <2>1. \A m \in Owned : status'[m] \in {"absent", "ready", "instantiated", "freed"}
      BY <1>2, <1>3, <1>4, HeapFacts DEF LinkInv, Ownership
    <2>2. \A m \in Owned : status'[OwnedBy[m]] \in {"absent", "ready"} => status'[m] = "absent"
      <3> SUFFICES ASSUME NEW m \in Owned, status'[OwnedBy[m]] \in {"absent", "ready"}
                   PROVE  status'[m] = "absent"
        OBVIOUS
      <3>1. OwnedBy[m] # p /\ m \in Contexts /\ m # p
        BY <1>2, <1>4, HeapFacts
      <3>2. status[m] = "absent"
        BY <1>7, <3>1, HeapFacts DEF LinkInv, Ownership
      <3> QED
        BY <1>3, <1>4, <3>1, <3>2
    <2>3. \A x \in Contexts : status'[x] = "absent" => status[x] = "absent"
      BY <1>4
    <2> QED
      BY <1>1, <1>2, <1>6, <2>1, <2>2, <2>3, HeapFacts DEF LinkInv, Ownership, TypeOK
  <1>11. WantsLinked' /\ Sharing'
    BY <1>1, <1>4, <1>6, <1>7, HeapFacts DEF LinkInv, WantsLinked, Sharing, HasCode
  <1>12. Linked'
    BY <1>1, <1>4, <1>6, <1>7, HeapFacts DEF LinkInv, Linked
  <1>13. Flat'
    BY <1>1, <1>3, <1>4 DEF LinkInv, Flat, Live
  <1>14. Unbound' /\ BindingSound'
    <2>1. \A q \in Primaries : status'[q] \in {"importing", "finalizing"} => status[q] = status'[q]
      BY <1>4, <1>7
    <2> QED
      BY <1>1, <1>6, <2>1, HeapFacts DEF LinkInv, Unbound, BindingSound, NoBinding
  <1>15. BoundCurrent'
    BY <1>1, <1>6 DEF LinkInv, BoundCurrent, Current
  <1>16. BoundKnown' /\ FreedOnce'
    BY <1>1, <1>6 DEF LinkInv, BoundKnown, FreedOnce
  <1>17. SameFate' /\ ListsSound' /\ Intact' /\ Tied' /\ ImportsJoined' /\ RefsJoined'
    BY <1>1, <1>5, <1>6, NetKept
  <1> QED
    BY <1>5, <1>8, <1>9, <1>10, <1>11, <1>12, <1>13, <1>14, <1>15, <1>16, <1>17 DEF LinkInv
-----------------------------------------------------------------------------
(* An export is found in a context that is linked and bound. *)
LEMMA ResolveFacts ==
    ASSUME LinkInv, NEW p \in Primaries, Usable(p), NEW l \in links[p], NEW r \in Resolve(l)
    PROVE  r \in links[p] /\ r \in Contexts /\ Usable(r) /\ Bound(r)
  <1> DEFINE E == [x \in Contexts |-> IF Pending(x) THEN {wants[x]} ELSE {}]
  <1>1. links[p] \in SUBSET Contexts
    BY HeapFacts DEF LinkInv, TypeOK
  <1>2. \A z \in links[p] : E[z] \subseteq links[p]
    BY <1>1 DEF LinkInv, Ownership, WantsLinked, Pending, Live
  <1>3. Closure(E, l) \subseteq links[p]
    BY <1>1, <1>2, ClosureLeast
  <1>4. r \in links[p] /\ r \in Contexts /\ ~Pending(r)
    BY <1>1, <1>3 DEF Resolve
  <1>5. Usable(r)
    BY <1>4, UsableFacts
  <1>6. Bound(r)
    <2>1. CASE r \in Owned
      BY <1>4, <1>5, <2>1 DEF LinkInv, Ownership, Bound, Pending, Usable, Live
    <2>2. CASE r \in Primaries
      BY <1>4, <2>2, HeapFacts DEF LinkInv, Linked, Bound
    <2> QED
      BY <1>4, <2>1, <2>2 DEF Contexts
  <1> QED
    BY <1>4, <1>5, <1>6

(* Imports being flat, the chain ends after one step. *)
LEMMA FollowFacts ==
    ASSUME LinkInv, NEW r \in Contexts, Usable(r)
    PROVE  Follow(r) = Holder(r)
  <1> DEFINE E == [y \in Contexts |-> {Holder(y)}]
             S == {r, Holder(r)}
  <1>1. \A y \in Contexts : Holder(y) \in Contexts
    BY DEF LinkInv, Flat, Holder
  <1>2. E \in Graph
    BY <1>1 DEF Graph
  <1>3. Holder(Holder(r)) = Holder(r) /\ ~slot[Holder(r)].imported /\ Holder(r) \in Contexts
    BY UsableFacts
  <1>4. S \in SUBSET Contexts /\ r \in S /\ \A z \in S : E[z] \subseteq S
    BY <1>3
  <1>5. Closure(E, r) \subseteq S
    BY <1>4, ClosureLeast
  <1>6. Holder(r) \in E[r] /\ r \in Closure(E, r)
    BY ClosureSelf
  <1>7. Holder(r) \in Closure(E, r)
    <2> HIDE DEF E
    <2> QED
      BY <1>2, <1>6, ClosureStep
  <1>8. \A o \in Closure(E, r) : ~slot[o].imported <=> o = Holder(r)
    <2>1. \A o \in Closure(E, r) : o = r \/ o = Holder(r)
      BY <1>5
    <2> QED
      BY <1>3, <2>1 DEF Holder
  <1>9. Follow(r) = CHOOSE o \in Closure(E, r) : ~slot[o].imported
    BY DEF Follow
  <1> HIDE DEF E
  <1> QED
    BY <1>7, <1>8, <1>9

(* A slot that was zeroed is marked as imported from a context in use. *)
LEMMA MarkStep ==
    ASSUME LinkInv, NEW p \in Primaries, Top(p), binding = NoBinding,
           NEW x \in Contexts, Heap(x) = p,
           IF x \in Owned THEN status[p] = "finalizing" /\ Pending(x) ELSE status[p] = "importing",
           NEW l \in links[p], Mark(x, l)
    PROVE  LinkInv'
  <1>0. TypeOK /\ Usable(p) /\ p \in Contexts /\ Null \notin Contexts
    BY TopFacts, HeapFacts, LinkAssumption DEF LinkInv, Contexts
  <1>1. PICK r \in Resolve(l) :
          /\ slot[r].buf # Null
          /\ slot' = [slot EXCEPT ![x] = [imported |-> TRUE, import_ctx |-> Follow(r),
                                          buf |-> IF x \in Owned THEN slot[r].buf ELSE Null]]
          /\ binding' = [to |-> x, from |-> r]
    BY DEF Mark
  <1>2. UNCHANGED <<status, poisoned, may_share_refs, has_objects, modules, links, dependents,
                    gc_dependents, wants, version, refs, bridged, severed, stack>>
    BY DEF Mark, flags, registry, bridges
  <1>3. r \in links[p] /\ r \in Contexts /\ Usable(r) /\ Bound(r)
    BY <1>0, ResolveFacts
  <1>4. PICK o \in Contexts : o = Holder(r) /\ o = Follow(r) /\ Usable(o) /\ ~slot[o].imported
    BY <1>3, FollowFacts, UsableFacts
  <1>5. slot[x] = NoSlot /\ slot[x].buf = Null /\ ~slot[x].imported /\ ~Bound(x) /\ Usable(x)
    <2>1. x \in Owned \/ x = p
      BY HeapFacts DEF Contexts
    <2>2. binding.to # x
      BY <1>0 DEF NoBinding
    <2>3. slot[x] = NoSlot
      BY <2>1, <2>2, HeapFacts DEF LinkInv, Unbound
    <2>4. ~Bound(x)
      BY <2>1, HeapFacts DEF Bound, Pending
    <2>5. Usable(x)
      BY <1>0, <2>1, HeapFacts DEF LinkInv, Ownership, SameFate, Pending, Live
    <2> QED
      BY <2>3, <2>4, <2>5 DEF NoSlot
  <1>6. slot[o].buf # Null /\ o # x
    BY <1>1, <1>3, <1>4, <1>5 DEF LinkInv, Flat, Holder, Usable, Live
  <1>7. /\ slot' \in [Contexts -> Slots]
        /\ slot'[x].imported /\ slot'[x].import_ctx = o
        /\ \A y \in Contexts : y # x => slot'[y] = slot[y]
    <2>1. slot \in [Contexts -> Slots] /\ slot[r].buf \in (Contexts \X (0..MaxGrowth)) \cup {Null}
      BY <1>0, <1>3 DEF TypeOK, Slots
    <2>2. [imported |-> TRUE, import_ctx |-> Follow(r), buf |-> IF x \in Owned THEN slot[r].buf ELSE Null] \in Slots
      BY <1>4, <2>1 DEF Slots
    <2> QED
      BY <1>1, <1>4, <2>1, <2>2
  <1>8. TypeOK'
    BY <1>0, <1>1, <1>2, <1>3, <1>7 DEF TypeOK
  <1>9. \A y \in Contexts : /\ Live(y)' <=> Live(y)
                            /\ Usable(y)' <=> Usable(y)
                            /\ Pending(y)' <=> Pending(y)
                            /\ HasCode(y)' <=> HasCode(y)
                            /\ Bound(y)' <=> Bound(y)
                            /\ Holder(y)' = IF y = x THEN o ELSE Holder(y)
                            /\ Heap(y)' = Heap(y)
    BY <1>2, <1>7 DEF Live, Usable, Pending, HasCode, Bound, Holder, Heap
  <1>10. StackSound' /\ Ownership' /\ WantsLinked' /\ Sharing'
    BY <1>2 DEF LinkInv, StackSound, Ownership, WantsLinked, Sharing, Live, HasCode
  <1>11. BlankUnlessLive'
    BY <1>2, <1>5, <1>7, <1>9 DEF LinkInv, BlankUnlessLive, Blank, Usable
  <1>12. Linked' /\ SameFate'
    BY <1>2 DEF LinkInv, Linked, SameFate, Usable, Live
  <1>13. Flat'
    <2> SUFFICES ASSUME NEW y \in Contexts, slot'[y].imported
                 PROVE  /\ slot'[y].import_ctx \in Contexts
                        /\ ~slot'[slot'[y].import_ctx].imported
                        /\ slot'[slot'[y].import_ctx].buf # Null \/ status'[slot'[y].import_ctx] = "freed"
      BY DEF Flat
    <2>1. CASE y = x
      BY <1>4, <1>6, <1>7, <2>1
    <2>2. CASE y # x
      <3>1. PICK z \in Contexts : z = slot[y].import_ctx /\ z = slot'[y].import_ctx
                                  /\ ~slot[z].imported /\ (slot[z].buf # Null \/ status[z] = "freed")
        BY <1>7, <2>2 DEF LinkInv, Flat
      <3>2. z # x
        BY <1>5, <3>1 DEF Usable, Live
      <3> QED
        BY <1>2, <1>7, <3>1, <3>2
    <2> QED
      BY <2>1, <2>2
  <1>14. Unbound'
    <2>1. binding'.to = x /\ binding.to = Null
      BY <1>1 DEF NoBinding
    <2>2. \A q \in Primaries : q \in Contexts /\ q # Null
      BY <1>0, HeapFacts
    <2>3. \A m \in Owned : m \in Contexts /\ m # Null
      BY <1>0, HeapFacts
    <2>4. \A q \in Primaries : status[q] = "ready" => q # x
      BY HeapFacts
    <2> QED
      BY <1>2, <1>7, <1>9, <2>1, <2>2, <2>3, <2>4 DEF LinkInv, Unbound
  <1>15. BindingSound'
    <2>1. stack # << >> /\ stack[Len(stack)] = p
      BY DEF Top
    <2>2. binding'.to = x /\ binding'.from = r
      BY <1>1
    <2>3. r # x
      BY <1>3, <1>5
    <2>4. Holder(r)' = o /\ Heap(x)' = p /\ Bound(r)' /\ (Pending(x)' <=> Pending(x))
      BY <1>3, <1>4, <1>9, <2>3
    <2>5. IF x \in Owned THEN status'[p] = "finalizing" /\ Pending(x)' ELSE status'[p] = "importing"
      BY <1>2, <2>4
    <2> QED
      BY <1>2, <1>3, <1>7, <2>1, <2>2, <2>4, <2>5 DEF BindingSound, Bound, Heap, Pending, Holder
  <1>16. BoundCurrent' /\ BoundKnown'
    BY <1>2, <1>5, <1>7, <1>9 DEF LinkInv, BoundCurrent, BoundKnown, Current
  <1>17. FreedOnce'
    BY <1>2, <1>7, <1>9 DEF LinkInv, FreedOnce
  <1>18. ListsSound'
    <2>1. \A u, y \in Contexts : Consumer(u, y) => Consumer(u, y)'
      BY <1>2, <1>5, <1>7 DEF Consumer
    <2>2. \A y \in Contexts : dependents[y] \subseteq Contexts
      BY <1>0 DEF TypeOK
    <2> QED
      BY <1>2, <1>9, <2>1, <2>2, HeapFacts DEF LinkInv, ListsSound
  <1>19. Intact'
    <2> SUFFICES ASSUME NEW y \in Contexts, Usable(y)',
                        NEW z \in links[y] \cup dependents[y] \cup gc_dependents[Heap(y)] \cup {Holder(y)'} \cup refs[y]
                 PROVE  Usable(z)'
      BY <1>2, <1>9 DEF Intact
    <2>1. Usable(y)
      BY <1>9
    <2>2. CASE z = Holder(y)'
      BY <1>4, <1>9, <2>1, <2>2, UsableFacts
    <2>3. CASE z \in links[y] \cup dependents[y] \cup gc_dependents[Heap(y)] \cup refs[y]
      <3>1. Usable(z) /\ z \in Contexts
        BY <1>0, <2>1, <2>3, HeapFacts DEF LinkInv, Intact, TypeOK
      <3> QED
        BY <1>9, <3>1
    <2> QED
      BY <2>2, <2>3
  <1>20. \A q : Class(q)' = Class(q)
    BY <1>2 DEF Class, Bonds
  <1>21. RefsJoined'
    BY <1>2, <1>9, <1>20, HeapFacts DEF LinkInv, RefsJoined, Near, Bonds, TypeOK
  <1>22. \A q, h \in Primaries : Joined(q, h) => Joined(q, h)'
    BY <1>2, <1>20 DEF Joined
  <1>23. Joined(p, Heap(o))
    <2>1. r \in Owned \/ r \in Primaries
      BY <1>3 DEF Contexts
    <2>2. CASE r \in Owned
      <3>1. Heap(r) = p
        BY <1>3, <2>2, HeapFacts DEF LinkInv, Ownership
      <3> QED
        BY <1>3, <1>4, <3>1 DEF LinkInv, ImportsJoined, Holder, Joined
    <2>3. CASE r \in Primaries
      <3>1. r \in may_share_refs /\ Heap(r) = r /\ r \in Class(r) /\ Heap(o) \in Contexts
        BY <1>0, <1>3, <1>4, <2>3, UsableFacts, ClassFacts, HeapFacts
      <3>2. Joined(r, Heap(o))
        BY <1>3, <1>4, <3>1 DEF LinkInv, ImportsJoined, Holder, Joined
      <3>3. Heap(o) \in Class(r)
        <4>1. CASE r = Heap(o)
          BY <3>1, <4>1
        <4>2. CASE \E k \in links[r] : k \in Primaries /\ Heap(o) \in Class(k)
          <5>1. PICK k \in links[r] : k \in Primaries /\ Heap(o) \in Class(k)
            BY <4>2
          <5>2. k \in may_share_refs /\ k \in Contexts
            BY <1>3, <2>3, <5>1, UsableFacts
          <5>3. Class(k) = Class(r)
            BY <1>0, <1>3, <3>1, <5>1, <5>2, ClassFacts
          <5> QED
            BY <5>1, <5>3
        <4> QED
          BY <3>2, <4>1, <4>2 DEF Joined
      <3> QED
        BY <1>3, <2>3, <3>3 DEF Joined
    <2> QED
      BY <2>1, <2>2, <2>3
  <1>24. ImportsJoined'
    <2> SUFFICES ASSUME NEW y \in Contexts, Usable(y)', slot'[y].imported
                 PROVE  Joined(Heap(y), Heap(slot[y].import_ctx))'
      BY DEF ImportsJoined
    <2>1. CASE y = x
      <3>1. Joined(p, Heap(o))'
        BY <1>0, <1>4, <1>22, <1>23, HeapFacts
      <3> QED
        BY <1>7, <2>1, <3>1 DEF Joined, Heap
    <2>2. CASE y # x
      <3>1. slot'[y] = slot[y] /\ Usable(y)
        BY <1>7, <1>9, <2>2
      <3>2. PICK z \in Contexts : z = slot[y].import_ctx /\ Joined(Heap(y), Heap(z))
        BY <3>1 DEF LinkInv, ImportsJoined, Flat
      <3>3. Joined(Heap(y), Heap(z))'
        BY <1>22, <3>2, HeapFacts
      <3> QED
        BY <3>1, <3>2, <3>3 DEF Joined, Heap
    <2> QED
      BY <2>1, <2>2
  <1>25. Tied'
    BY <1>2, <1>8, <1>9, TiedKept DEF LinkInv
  <1> QED
    BY <1>8, <1>10, <1>11, <1>12, <1>13, <1>14, <1>15, <1>16, <1>17, <1>18, <1>19, <1>21, <1>24, <1>25 DEF LinkInv

(* The slot of p is marked. *)
LEMMA ImportPrimaryStep ==
    ASSUME LinkInv, NEW p \in Primaries, NEW l \in links[p], ImportPrimary(p, l)
    PROVE  LinkInv'
  BY MarkStep, HeapFacts DEF ImportPrimary, Complete

(* The slot of an owned context is marked. *)
LEMMA ImportOwnedStep ==
    ASSUME LinkInv, NEW p \in Primaries, NEW m \in Owned, ImportOwned(p, m)
    PROVE  LinkInv'
  <1>1. Top(p) /\ binding = NoBinding /\ status[p] = "finalizing" /\ m \in modules[p] /\ Pending(m) /\ Mark(m, wants[m])
    BY DEF ImportOwned, Complete
  <1>2. m \in Contexts /\ OwnedBy[m] = p /\ Heap(m) = p
    BY <1>1, HeapFacts DEF LinkInv, Ownership
  <1>3. wants[m] \in links[p]
    BY <1>1, <1>2 DEF LinkInv, WantsLinked, Pending, Live
  <1> QED
    BY <1>1, <1>2, <1>3, MarkStep
-----------------------------------------------------------------------------
(* A step that adds contexts, links and consumers, and poisons and frees   *)
(* nothing, keeps what is known among contexts in use.                     *)
LEMMA NetGrows ==
    ASSUME LinkInv, TypeOK',
           \A x \in Contexts : (Live(x) => Live(x)') /\ (Usable(x) => Usable(x)'),
           \A x \in Contexts : Usable(x)' => Usable(x) \/ (status[x] = "absent" /\ (x \in Owned => Usable(Heap(x)))),
           \A x \in Contexts : \A y \in links[x] : y \in links'[x],
           \A x \in Contexts : \A y \in links'[x] : y \in links[x] \/ (Usable(x)' /\ Usable(y)'),
           \A x \in Contexts : \A y \in dependents[x] : y \in dependents'[x],
           \A x \in Contexts : \A y \in dependents'[x] :
              y \in dependents[x] \/ (Usable(y)' /\ x \in Primaries /\ x \in links'[y]),
           \A h \in Primaries : \A y \in gc_dependents'[h] :
              y \in gc_dependents[h] \/ (Usable(y)' /\ y \in dependents'[h]),
           \A x \in Contexts : /\ slot'[x].imported = slot[x].imported
                               /\ slot'[x].import_ctx = slot[x].import_ctx,
           refs' = refs, bridged' = bridged, may_share_refs' = may_share_refs, has_objects \subseteq has_objects'
    PROVE  SameFate' /\ ListsSound' /\ Intact' /\ Tied' /\ ImportsJoined' /\ RefsJoined'
  <1>0. \A x \in Contexts : status[x] = "absent" =>
           /\ ~Usable(x) /\ links[x] = {} /\ dependents[x] = {} /\ refs[x] = {} /\ ~slot[x].imported
           /\ x \in Primaries => gc_dependents[x] = {}
    BY DEF LinkInv, BlankUnlessLive, Blank, Live, Usable, NoSlot
  <1>1. SameFate'
    <2> SUFFICES ASSUME NEW p \in Primaries, NEW q \in links'[p]
                 PROVE  Usable(p)' <=> Usable(q)'
      BY DEF SameFate
    <2>1. p \in Contexts /\ q \in Contexts
      BY HeapFacts DEF TypeOK
    <2>2. CASE q \in links[p]
      <3>1. Usable(p) <=> Usable(q)
        BY <2>2 DEF LinkInv, SameFate
      <3>2. status[q] # "absent" /\ status[p] # "absent"
        BY <1>0, <2>1, <2>2 DEF LinkInv, Ownership
      <3> QED
        BY <2>1, <3>1, <3>2
    <2>3. CASE Usable(p)' /\ Usable(q)'
      BY <2>3
    <2> QED
      BY <2>1, <2>2, <2>3
  <1>2. \A x, y \in Contexts : Consumer(x, y) => Consumer(x, y)'
    BY DEF Consumer
  <1>3. ListsSound'
    <2>1. ASSUME NEW x \in Contexts, Usable(x)', NEW y \in dependents'[x]
          PROVE  Consumer(x, y)'
      <3>1. y \in Contexts
        BY <2>1 DEF TypeOK
      <3>2. CASE y \in dependents[x]
        BY <1>0, <1>2, <2>1, <3>1, <3>2 DEF LinkInv, ListsSound
      <3>3. CASE x \in Primaries /\ x \in links'[y]
        BY <3>3 DEF Consumer
      <3> QED
        BY <2>1, <3>2, <3>3
    <2>2. ASSUME NEW h \in Primaries, Usable(h)', NEW y \in gc_dependents'[h]
          PROVE  \E o \in Contexts : Heap(o) = h /\ y \in dependents'[o]
      <3>0. h \in Contexts /\ Heap(h) = h
        BY HeapFacts
      <3>1. CASE y \in gc_dependents[h]
        <4>1. Usable(h)
          BY <1>0, <2>2, <3>0, <3>1
        <4> QED
          BY <3>1, <4>1 DEF LinkInv, ListsSound
      <3>2. CASE y \in dependents'[h]
        BY <3>0, <3>2
      <3> QED
        BY <2>2, <3>1, <3>2
    <2> QED
      BY <2>1, <2>2 DEF ListsSound, Heap
  <1>4. \A x \in Contexts : Holder(x)' = Holder(x)
    BY DEF Holder
  <1>5. Intact'
    <2> SUFFICES ASSUME NEW x \in Contexts, Usable(x)',
                        NEW y \in links'[x] \cup dependents'[x] \cup gc_dependents'[Heap(x)] \cup {Holder(x)} \cup refs[x]
                 PROVE  Usable(y)'
      BY <1>4 DEF Intact, Heap
    <2>0. Heap(x) \in Primaries /\ Heap(x) \in Contexts
      BY HeapFacts
    <2>1. CASE Usable(x)
      <3>1. y \in links[x] \cup dependents[x] \cup gc_dependents[Heap(x)] \cup {Holder(x)} \cup refs[x] \/ Usable(y)'
        BY <2>0
      <3>2. CASE y \in links[x] \cup dependents[x] \cup gc_dependents[Heap(x)] \cup {Holder(x)} \cup refs[x]
        <4>1. Usable(y)
          BY <2>1, <3>2 DEF LinkInv, Intact
        <4>2. y \in Contexts
          BY <2>0, <2>1, <3>2, UsableFacts DEF LinkInv, TypeOK
        <4> QED
          BY <4>1, <4>2
      <3> QED
        BY <3>1, <3>2
    <2>2. CASE status[x] = "absent" /\ (x \in Owned => Usable(Heap(x)))
      <3>1. Holder(x) = x /\ links[x] = {} /\ dependents[x] = {} /\ refs[x] = {}
        BY <1>0, <2>2 DEF Holder
      <3>2. CASE y \in gc_dependents'[Heap(x)]
        <4>1. CASE x \in Owned
          <5>1. y \in gc_dependents[Heap(x)] => Usable(y) /\ y \in Contexts
            BY <2>0, <2>2, <4>1, HeapFacts DEF LinkInv, Intact, TypeOK
          <5> QED
            BY <2>0, <3>2, <5>1
        <4>2. CASE x \in Primaries
          BY <1>0, <2>2, <3>2, <4>2, HeapFacts
        <4> QED
          BY <4>1, <4>2 DEF Contexts
      <3> QED
        BY <3>1, <3>2
    <2> QED
      BY <2>1, <2>2
  <1>6. \A p \in Contexts : Class(p) \subseteq Class(p)'
    <2>1. \A y, z \in may_share_refs : /\ z \in links[y] => z \in links'[y]
                                       /\ z \in bridged[y] => z \in bridged'[y]
      BY HeapFacts DEF LinkInv, TypeOK
    <2> QED
      BY <2>1, ClassGrows DEF LinkInv
  <1>7. \A l \in Primaries : l \in Contexts
    BY HeapFacts
  <1>8. ImportsJoined'
    <2> SUFFICES ASSUME NEW x \in Contexts, Usable(x)', slot'[x].imported
                 PROVE  Joined(Heap(x), Heap(slot[x].import_ctx))'
      BY DEF ImportsJoined
    <2>1. Usable(x) /\ slot[x].imported
      BY <1>0
    <2>2. Joined(Heap(x), Heap(slot[x].import_ctx))
      BY <2>1 DEF LinkInv, ImportsJoined
    <2>3. slot'[x].import_ctx = slot[x].import_ctx /\ Heap(x) \in Contexts
      BY HeapFacts
    <2> QED
      BY <1>6, <1>7, <2>2, <2>3 DEF Joined, Heap
  <1>9. RefsJoined'
    <2> SUFFICES ASSUME NEW x \in Contexts, Usable(x)', NEW y \in refs[x]
                 PROVE  Heap(x) \in may_share_refs' /\ Near(Heap(x), y)'
      BY DEF RefsJoined, Heap
    <2>1. Usable(x)
      BY <1>0
    <2>2. Heap(x) \in may_share_refs /\ Near(Heap(x), y) /\ y \in Contexts
      BY <2>1 DEF LinkInv, RefsJoined, TypeOK
    <2>3. Heap(x) \in Contexts /\ Class(Heap(x)) \subseteq Class(Heap(x))'
      BY <1>6, HeapFacts
    <2>4. Bonds[y] \subseteq Bonds'[y]
      BY <2>2 DEF Bonds
    <2> QED
      BY <2>2, <2>3, <2>4 DEF Near, Heap
  <1>10. Tied'
    <2>1. \A x \in Contexts : Live(x) => Live(x)' /\ (Usable(x)' <=> Usable(x))
      BY DEF Live
    <2> QED
      BY <2>1, TiedKept DEF LinkInv
  <1> QED
    BY <1>1, <1>3, <1>5, <1>8, <1>9, <1>10

(* Both ends of a new link are in use, and know each other. *)
LEMMA LinkContextStep ==
    ASSUME LinkInv, NEW p \in Primaries, NEW q \in Primaries, LinkContext(p, q)
    PROVE  LinkInv'
  <1>1. /\ HostTurn /\ status[p] = "ready" /\ p \notin poisoned
        /\ q # p /\ status[q] = "instantiated" /\ q \notin poisoned
        /\ gc_dependents' = [gc_dependents EXCEPT ![q] = @ \cup {p}]
        /\ dependents' = [dependents EXCEPT ![q] = @ \cup {p}]
        /\ links' = [links EXCEPT ![p] = @ \cup {q}]
        /\ UNCHANGED <<status, poisoned, may_share_refs, has_objects, modules, slot, version, wants, refs, bridged, severed,
                       binding, stack>>
    BY DEF LinkContext, Linkable, flags, buffers, bridges
  <1>2. /\ TypeOK /\ binding = NoBinding /\ p \in Contexts /\ q \in Contexts /\ p \notin Owned /\ q \notin Owned
        /\ Usable(p) /\ Usable(q)
    BY <1>1, HostTurnFacts, HeapFacts DEF LinkInv, Usable, Live
  <1>3. /\ links' \in [Contexts -> SUBSET Contexts]
        /\ \A x \in Contexts : links'[x] = IF x = p THEN links[x] \cup {q} ELSE links[x]
    BY <1>1, <1>2 DEF TypeOK
  <1>4. /\ dependents' \in [Contexts -> SUBSET Contexts]
        /\ \A x \in Contexts : dependents'[x] = IF x = q THEN dependents[x] \cup {p} ELSE dependents[x]
    BY <1>1, <1>2 DEF TypeOK
  <1>5. /\ gc_dependents' \in [Primaries -> SUBSET Contexts]
        /\ \A h \in Primaries : gc_dependents'[h] = IF h = q THEN gc_dependents[h] \cup {p} ELSE gc_dependents[h]
    BY <1>1, <1>2 DEF TypeOK
  <1>6. TypeOK'
    BY <1>1, <1>2, <1>3, <1>4, <1>5 DEF TypeOK
  <1>7. \A x \in Contexts : /\ Live(x)' <=> Live(x)
                            /\ Usable(x)' <=> Usable(x)
                            /\ HasCode(x)' <=> HasCode(x)
                            /\ Pending(x)' <=> Pending(x)
                            /\ Bound(x)' <=> Bound(x)
                            /\ Holder(x)' = Holder(x)
    BY <1>1 DEF Live, Usable, HasCode, Pending, Bound, Holder
  <1>8. StackSound' /\ Sharing'
    BY <1>1 DEF LinkInv, StackSound, Sharing, HasCode
  <1>9. BlankUnlessLive'
    <2>1. \A x \in Contexts : ~Live(x) => x # p /\ x # q
      BY <1>2 DEF Usable
    <2> QED
      BY <1>1, <1>3, <1>4, <1>5, <1>7, <2>1 DEF LinkInv, BlankUnlessLive, Blank
  <1>10. Ownership'
    BY <1>1, <1>2, <1>3, <1>7, HeapFacts DEF LinkInv, Ownership
  <1>11. WantsLinked'
    BY <1>1, <1>3, <1>7, HeapFacts DEF LinkInv, WantsLinked
  <1>12. Linked'
    <2> SUFFICES ASSUME NEW u \in Primaries, Usable(u)', NEW v \in links'[u] \cap Primaries
                 PROVE  status'[v] = "instantiated" /\ u \in dependents'[v]
      BY DEF Linked
    <2>1. u \in Contexts /\ v \in Contexts /\ Usable(u)
      BY <1>7, HeapFacts
    <2>2. CASE v \in links[u]
      BY <1>1, <1>4, <2>1, <2>2 DEF LinkInv, Linked
    <2>3. CASE u = p /\ v = q
      BY <1>1, <1>2, <1>4, <2>3
    <2> QED
      BY <1>3, <2>1, <2>2, <2>3
  <1>13. Flat' /\ Unbound' /\ BindingSound'
    BY <1>1, <1>2 DEF LinkInv, Flat, Unbound, BindingSound, Pending, NoBinding
  <1>14. BoundCurrent' /\ FreedOnce'
    BY <1>1, <1>7 DEF LinkInv, BoundCurrent, Current, FreedOnce
  <1>15. BoundKnown'
    BY <1>1, <1>4, <1>7 DEF LinkInv, BoundKnown, Flat
  <1>16. SameFate' /\ ListsSound' /\ Intact' /\ Tied' /\ ImportsJoined' /\ RefsJoined'
    <2>1. \A x \in Contexts : \A y \in links'[x] : y \in links[x] \/ (Usable(x)' /\ Usable(y)')
      BY <1>2, <1>3, <1>7
    <2>2. \A x \in Contexts : \A y \in dependents'[x] :
             y \in dependents[x] \/ (Usable(y)' /\ x \in Primaries /\ x \in links'[y])
      BY <1>2, <1>3, <1>4, <1>7
    <2>3. \A h \in Primaries : \A y \in gc_dependents'[h] :
              y \in gc_dependents[h] \/ (Usable(y)' /\ y \in dependents'[h])
      BY <1>2, <1>4, <1>5, <1>7
    <2>4. \A x \in Contexts : /\ \A y \in links[x] : y \in links'[x]
                              /\ \A y \in dependents[x] : y \in dependents'[x]
      BY <1>3, <1>4
    <2> QED
      BY <1>1, <1>6, <1>7, <2>1, <2>2, <2>3, <2>4, NetGrows
  <1> QED
    BY <1>6, <1>8, <1>9, <1>10, <1>11, <1>12, <1>13, <1>14, <1>15, <1>16 DEF LinkInv

(* A new context knows nobody, and nobody knows it. *)
LEMMA NewContextStep ==
    ASSUME LinkInv, NEW p \in Primaries, NEW own \in BOOLEAN, NewContext(p, own)
    PROVE  LinkInv'
  <1>1. /\ HostTurn /\ status[p] = "absent"
        /\ status' = [status EXCEPT ![p] = "ready"]
        /\ slot' = [slot EXCEPT ![p] = IF own THEN Own(p) ELSE NoSlot]
        /\ UNCHANGED <<poisoned, may_share_refs, has_objects, modules, links, dependents, gc_dependents,
                       wants, version, refs, bridged, severed, binding, stack>>
    BY DEF NewContext, flags, registry, bridges
  <1>2. TypeOK /\ binding = NoBinding /\ p \in Contexts /\ p \notin Owned /\ Heap(p) = p /\ Null \notin Contexts
    BY <1>1, HostTurnFacts, HeapFacts, LinkAssumption DEF LinkInv, Contexts
  <1>3. Blank(p) /\ ~Live(p) /\ slot[p] = NoSlot
    BY <1>1, <1>2 DEF LinkInv, BlankUnlessLive, Blank, Live
  <1>4. /\ status' \in [Contexts -> Statuses] /\ status'[p] = "ready"
        /\ \A x \in Contexts : x # p => status'[x] = status[x]
    BY <1>1, <1>2 DEF TypeOK, Statuses
  <1>5. /\ slot' \in [Contexts -> Slots]
        /\ \A x \in Contexts : x # p => slot'[x] = slot[x]
        /\ slot'[p] = NoSlot \/ slot'[p] = Own(p)
    <2>1. NoSlot \in Slots /\ Own(p) \in Slots
      BY <1>2, LinkAssumption DEF NoSlot, Own, Slots
    <2> QED
      BY <1>1, <1>2, <2>1 DEF TypeOK
  <1>6. \A x \in Contexts : slot'[x].imported = slot[x].imported /\ slot'[x].import_ctx = slot[x].import_ctx
    <2>1. /\ slot[p].imported = FALSE /\ slot'[p].imported = FALSE
          /\ slot[p].import_ctx = Null /\ slot'[p].import_ctx = Null
      BY <1>3, <1>5 DEF NoSlot, Own
    <2> QED
      BY <1>5, <2>1
  <1>7. TypeOK'
    BY <1>1, <1>2, <1>4, <1>5 DEF TypeOK
  <1>8. /\ \A x \in Contexts : x # p => /\ Live(x)' <=> Live(x)
                                        /\ Usable(x)' <=> Usable(x)
                                        /\ HasCode(x)' <=> HasCode(x)
                                        /\ Bound(x)' <=> Bound(x)
        /\ \A x \in Contexts : (Pending(x)' <=> Pending(x)) /\ Holder(x)' = Holder(x)
        /\ Live(p)' /\ ~HasCode(p)' /\ ~Bound(p)' /\ Usable(p)'
    BY <1>1, <1>2, <1>3, <1>4, <1>6 DEF Live, Usable, HasCode, Bound, Pending, Holder, Blank
  <1>9. \A q \in Primaries : /\ q \in Contexts
                             /\ status'[q] \in {"importing", "finalizing", "starting", "instantiated", "failed"}
                                => q # p /\ status[q] = status'[q]
    BY <1>4, HeapFacts
  <1>10. StackSound'
    <2>a. \A i \in 1..Len(stack) : stack[i] \in Primaries
      BY <1>2 DEF TypeOK
    <2>b. \A i \in 1..Len(stack) : status[stack[i]] # "absent"
      BY DEF LinkInv, StackSound
    <2>1. \A i \in 1..Len(stack) : stack[i] \in Primaries /\ stack[i] # p
      BY <1>1, <2>a, <2>b
    <2> QED
      BY <1>1, <1>4, <2>1, HeapFacts DEF LinkInv, StackSound
  <1>11. BlankUnlessLive'
    BY <1>1, <1>5, <1>8 DEF LinkInv, BlankUnlessLive, Blank
  <1>12. Ownership'
    <2>1. \A m \in Owned : status'[m] = status[m] /\ (Live(m)' <=> Live(m))
      BY <1>2, <1>4, <1>8, HeapFacts
    <2>2. \A m \in Owned : status'[OwnedBy[m]] \in {"absent", "ready"} => status[OwnedBy[m]] \in {"absent", "ready"}
      BY <1>1, <1>2, <1>4, HeapFacts
    <2>3. \A q \in Primaries : \A y \in links[q] : status'[y] # "absent"
      BY <1>2, <1>4, HeapFacts DEF LinkInv, Ownership, TypeOK
    <2> QED
      BY <1>1, <2>1, <2>2, <2>3 DEF LinkInv, Ownership
  <1>13. WantsLinked' /\ Sharing'
    <2>1. WantsLinked'
      BY <1>1, <1>2, <1>8, HeapFacts DEF LinkInv, WantsLinked
    <2>2. p \notin may_share_refs
      BY <1>3 DEF Blank
    <2>3. \A q \in Primaries : q # p => (HasCode(q)' <=> HasCode(q)) /\ status'[q] = status[q]
      BY <1>4, <1>8, <1>9
    <2>4. Sharing'
      BY <1>1, <1>8, <2>2, <2>3 DEF LinkInv, Sharing
    <2> QED
      BY <2>1, <2>4
  <1>14. Linked'
    <2> SUFFICES ASSUME NEW u \in Primaries, Usable(u)', NEW v \in links[u] \cap Primaries
                 PROVE  status'[v] = "instantiated" /\ u \in dependents[v]
      BY <1>1 DEF Linked
    <2>1. u # p /\ u \in Contexts /\ v \in Contexts
      BY <1>3, HeapFacts DEF Blank
    <2>2. status[v] = "instantiated" /\ u \in dependents[v]
      BY <1>8, <2>1 DEF LinkInv, Linked
    <2>3. v # p
      BY <1>1, <2>2
    <2> QED
      BY <1>4, <2>1, <2>2, <2>3
  <1>15. Flat'
    <2> SUFFICES ASSUME NEW y \in Contexts, slot'[y].imported
                 PROVE  /\ slot'[y].import_ctx \in Contexts
                        /\ ~slot'[slot'[y].import_ctx].imported
                        /\ slot'[slot'[y].import_ctx].buf # Null \/ status'[slot'[y].import_ctx] = "freed"
      BY DEF Flat
    <2>1. PICK z \in Contexts : z = slot[y].import_ctx /\ z = slot'[y].import_ctx
                                /\ ~slot[z].imported /\ (slot[z].buf # Null \/ status[z] = "freed")
      BY <1>6 DEF LinkInv, Flat
    <2>2. z # p
      BY <1>1, <1>3, <2>1 DEF NoSlot
    <2> QED
      BY <1>4, <1>5, <2>1, <2>2
  <1>16. Unbound' /\ BindingSound'
    <2>1. \A m \in Owned : m # p /\ m \in Contexts /\ OwnedBy[m] \in Primaries
      BY <1>2, HeapFacts
    <2>2. slot'[p] = NoSlot \/ (~slot'[p].imported /\ slot'[p].buf # Null)
      BY <1>2, <1>5, LinkAssumption DEF Own, NoSlot
    <2>3. \A q \in Primaries : status'[q] = "ready"
            => slot'[q] = NoSlot \/ (~slot'[q].imported /\ slot'[q].buf # Null)
      BY <1>4, <1>5, <2>2, HeapFacts DEF LinkInv, Unbound
    <2>4. \A q \in Primaries : status'[q] = "importing" /\ binding.to # q => slot'[q] = NoSlot
      BY <1>5, <1>9 DEF LinkInv, Unbound
    <2>5. \A m \in Owned : /\ Pending(m)' /\ status'[OwnedBy[m]] \in {"importing", "finalizing"}
                           /\ binding.to # m
                           => slot'[m] = NoSlot
      BY <1>5, <1>8, <1>9, <2>1 DEF LinkInv, Unbound
    <2> QED
      BY <1>1, <1>2, <2>3, <2>4, <2>5 DEF Unbound, BindingSound, NoBinding
  <1>17. BoundCurrent' /\ BoundKnown'
    BY <1>1, <1>5, <1>8 DEF LinkInv, BoundCurrent, BoundKnown, Current
  <1>18. FreedOnce'
    BY <1>1, <1>3, <1>5, <1>8 DEF LinkInv, FreedOnce, Blank, Own, NoSlot
  <1>19. SameFate' /\ ListsSound' /\ Intact' /\ Tied' /\ ImportsJoined' /\ RefsJoined'
    <2>1. \A x \in Contexts : (Live(x) => Live(x)') /\ (Usable(x) => Usable(x)')
      BY <1>8
    <2>2. \A x \in Contexts : Usable(x)' => Usable(x) \/ (status[x] = "absent" /\ (x \in Owned => Usable(Heap(x))))
      BY <1>1, <1>2, <1>8
    <2> QED
      BY <1>1, <1>6, <1>7, <2>1, <2>2, NetGrows
  <1> QED
    BY <1>7, <1>10, <1>11, <1>12, <1>13, <1>14, <1>15, <1>16, <1>17, <1>18, <1>19 DEF LinkInv

(* New owned contexts are known to their primary only. *)
LEMMA CreateOwnedStep ==
    ASSUME LinkInv, NEW p \in Primaries, NEW made \in SUBSET modules[p], NEW objects \in BOOLEAN,
           NEW want \in [made -> links[p] \cup made \cup {Null}], CreateOwned(p, made, want, objects)
    PROVE  LinkInv'
  <1>1. /\ HostTurn /\ status[p] = "ready" /\ p \notin poisoned
        /\ status' = [x \in Contexts |->
                        IF x \in made THEN "ready" ELSE IF x # p THEN status[x]
                        ELSE IF slot[p] = NoSlot THEN "importing" ELSE "finalizing"]
        /\ links' = [links EXCEPT ![p] = @ \cup made]
        /\ wants' = [m \in Owned |-> IF m \in made THEN want[m] ELSE wants[m]]
        /\ slot' = [x \in Contexts |->
                      IF x \notin made THEN slot[x] ELSE IF want[x] = Null THEN Own(x) ELSE NoSlot]
        /\ has_objects' = (IF objects THEN has_objects \cup {p} ELSE has_objects)
        /\ stack' = Append(stack, p)
        /\ UNCHANGED <<poisoned, may_share_refs, modules, dependents, gc_dependents, version, refs, bridged, severed, binding>>
    BY DEF CreateOwned, Create, registry, bridges
  <1>2. /\ TypeOK /\ binding = NoBinding /\ p \in Contexts /\ p \notin Owned /\ Heap(p) = p
        /\ Usable(p) /\ Live(p) /\ Null \notin Contexts
    BY <1>1, HostTurnFacts, HeapFacts, LinkAssumption DEF LinkInv, Usable, Live, Contexts
  <1>3. \A m \in made : /\ m \in Owned /\ m \in Contexts /\ m # p /\ m \notin Primaries
                        /\ OwnedBy[m] = p /\ Heap(m) = p /\ status[m] = "absent"
    BY <1>1, <1>2, HeapFacts DEF TypeOK, LinkInv, Ownership
  <1>4. \A m \in made : /\ Blank(m) /\ ~Live(m) /\ slot[m] = NoSlot /\ version[m] = 0 /\ links[m] = {}
                        /\ m \notin poisoned
    BY <1>3 DEF LinkInv, BlankUnlessLive, Blank, Live
  <1>5. /\ status' \in [Contexts -> Statuses]
        /\ \A m \in made : status'[m] = "ready"
        /\ status'[p] = (IF slot[p] = NoSlot THEN "importing" ELSE "finalizing")
        /\ \A x \in Contexts : x \notin made /\ x # p => status'[x] = status[x]
    BY <1>1, <1>2, <1>3 DEF TypeOK, Statuses
  <1>6. /\ links' \in [Contexts -> SUBSET Contexts]
        /\ \A x \in Contexts : links'[x] = IF x = p THEN links[x] \cup made ELSE links[x]
    BY <1>1, <1>2, <1>3 DEF TypeOK
  <1>7. /\ wants' \in [Owned -> Contexts \cup {Null}]
        /\ \A m \in made : wants'[m] = want[m] /\ (want[m] # Null => want[m] \in links'[p])
        /\ \A m \in Owned : m \notin made => wants'[m] = wants[m]
    BY <1>1, <1>2, <1>3, <1>6 DEF TypeOK
  <1>8. /\ slot' \in [Contexts -> Slots]
        /\ \A x \in Contexts : x \notin made => slot'[x] = slot[x]
        /\ \A m \in made : slot'[m] = (IF want[m] = Null THEN Own(m) ELSE NoSlot)
    <2>1. NoSlot \in Slots /\ \A x \in Contexts : Own(x) \in Slots
      BY <1>2, LinkAssumption DEF NoSlot, Own, Slots
    <2> QED
      BY <1>1, <1>2, <1>3, <2>1 DEF TypeOK
  <1>9. \A x \in Contexts : slot'[x].imported = slot[x].imported /\ slot'[x].import_ctx = slot[x].import_ctx
    <2>1. \A m \in made : /\ slot[m].imported = FALSE /\ slot'[m].imported = FALSE
                          /\ slot[m].import_ctx = Null /\ slot'[m].import_ctx = Null
      BY <1>4, <1>8, SlotFacts
    <2> QED
      BY <1>8, <2>1
  <1>10. TypeOK'
    <2>1. stack' \in Seq(Primaries) /\ has_objects' \subseteq Primaries
      BY <1>1, <1>2 DEF TypeOK
    <2> QED
      BY <1>1, <1>2, <1>5, <1>6, <1>7, <1>8, <2>1 DEF TypeOK
  <1>11. /\ \A x \in Contexts : x \notin made => /\ Live(x)' <=> Live(x)
                                                 /\ Usable(x)' <=> Usable(x)
                                                 /\ Pending(x)' <=> Pending(x)
                                                 /\ HasCode(x)' <=> HasCode(x)
                                                 /\ x # p => (Bound(x)' <=> Bound(x))
         /\ \A x \in Contexts : Holder(x)' = Holder(x)
         /\ \A m \in made : Live(m)' /\ Usable(m)' /\ ~HasCode(m)' /\ Holder(m) = m
    <2>1. \A x \in Contexts : x \notin made => /\ Live(x)' <=> Live(x)
                                               /\ Usable(x)' <=> Usable(x)
                                               /\ HasCode(x)' <=> HasCode(x)
      BY <1>1, <1>2, <1>5 DEF Live, Usable, HasCode
    <2>2. \A x \in Contexts : x \notin made => /\ Pending(x)' <=> Pending(x)
                                               /\ x # p => (Bound(x)' <=> Bound(x))
      BY <1>2, <1>5, <1>7 DEF Pending, Bound
    <2>3. \A x \in Contexts : Holder(x)' = Holder(x)
      BY <1>9 DEF Holder
    <2>4. \A m \in made : Live(m)' /\ Usable(m)' /\ ~HasCode(m)' /\ Holder(m) = m
      BY <1>1, <1>4, <1>5, SlotFacts DEF Live, Usable, HasCode, Holder
    <2> QED
      BY <2>1, <2>2, <2>3, <2>4
  <1>12. \A q \in Primaries : q \in Contexts /\ q \notin made
    BY <1>3, HeapFacts
  <1>13. StackSound'
    <2>1. PICK n \in Nat : n = Len(stack)
      BY <1>2 DEF TypeOK
    <2>2. /\ stack \in Seq(Primaries) /\ Len(stack') = n + 1 /\ stack'[n + 1] = p
          /\ \A i \in 1..n : stack'[i] = stack[i] /\ stack[i] \in Primaries
      BY <1>1, <1>2, <2>1 DEF TypeOK
    <2>3. \A i \in 1..n : /\ status[stack[i]] \in {"importing", "finalizing", "starting"} /\ stack[i] \notin poisoned
                          /\ \A j \in 1..n : stack[i] = stack[j] => i = j
      BY <2>1 DEF LinkInv, StackSound
    <2>4. \A i \in 1..n : stack[i] # p
      BY <1>1, <2>3
    <2>5. \A i \in 1..n : status[stack[i]] = "starting"
      <3>1. \A i \in 1..n : i < n => status[stack[i]] = "starting"
        BY <2>1 DEF LinkInv, StackSound
      <3>2. n # 0 => status[stack[n]] = "starting"
        BY <1>1, <2>1, <2>2 DEF HostTurn
      <3> QED
        BY <3>1, <3>2
    <2>6. \A i \in 1..n : status'[stack'[i]] = "starting" /\ stack'[i] # p
      BY <1>5, <1>12, <2>2, <2>4, <2>5
    <2>7. status'[stack'[n + 1]] \in {"importing", "finalizing", "starting"}
      BY <1>5, <2>2
    <2>8. \A i \in 1..(n + 1) : i \in 1..n \/ i = n + 1
      OBVIOUS
    <2>9. \A i \in 1..(n + 1) : /\ status'[stack'[i]] \in {"importing", "finalizing", "starting"}
                                /\ stack'[i] \notin poisoned
      BY <1>1, <2>2, <2>3, <2>6, <2>7, <2>8
    <2>10. \A i, j \in 1..(n + 1) : stack'[i] = stack'[j] => i = j
      BY <2>2, <2>3, <2>6, <2>8
    <2>11. \A i \in 1..(n + 1) : i < n + 1 => status'[stack'[i]] = "starting"
      BY <2>6, <2>8
    <2> QED
      BY <1>1, <2>2, <2>9, <2>10, <2>11 DEF StackSound
  <1>14. BlankUnlessLive'
    <2>1. \A x \in Contexts : ~Live(x)' => x \notin made /\ x # p /\ ~Live(x)
      BY <1>2, <1>11
    <2>2. \A x \in Contexts : x # p => (x \in has_objects' <=> x \in has_objects)
      BY <1>1
    <2> QED
      BY <1>1, <1>6, <1>8, <2>1, <2>2 DEF LinkInv, BlankUnlessLive, Blank
  <1>15. Ownership'
    <2>1. \A m \in Owned : links'[m] = {} /\ status'[m] \in {"absent", "ready", "instantiated", "freed"}
      BY <1>2, <1>5, <1>6, HeapFacts DEF LinkInv, Ownership
    <2>2. \A m \in Owned : Live(m)' <=> m \in links'[OwnedBy[m]]
      BY <1>2, <1>3, <1>6, <1>11, HeapFacts DEF LinkInv, Ownership
    <2>3. \A m \in Owned : status'[OwnedBy[m]] \in {"absent", "ready"} => status'[m] = "absent"
      <3> SUFFICES ASSUME NEW m \in Owned, status'[OwnedBy[m]] \in {"absent", "ready"}
                   PROVE  status'[m] = "absent"
        OBVIOUS
      <3>1. OwnedBy[m] # p /\ m \in Contexts /\ m # p
        BY <1>2, <1>5, HeapFacts
      <3>2. m \notin made
        BY <1>3, <3>1
      <3>3. status'[OwnedBy[m]] = status[OwnedBy[m]]
        BY <1>5, <1>12, <3>1, HeapFacts
      <3> QED
        BY <1>5, <3>1, <3>2, <3>3 DEF LinkInv, Ownership
    <2>4. \A q \in Primaries : \A m \in links'[q] \cap Owned : OwnedBy[m] = q /\ m \in modules'[q]
      BY <1>1, <1>3, <1>6, <1>12 DEF LinkInv, Ownership
    <2>5. \A q \in Primaries : q \notin links'[q]
      BY <1>6, <1>12 DEF LinkInv, Ownership
    <2>6. \A q \in Primaries : \A y \in links'[q] : status'[y] # "absent"
      <3> SUFFICES ASSUME NEW q \in Primaries, NEW y \in links'[q] PROVE status'[y] # "absent"
        OBVIOUS
      <3>1. y \in Contexts /\ (y \in made \/ y \in links[q])
        BY <1>6, <1>12
      <3>2. y \in links[q] => status[y] # "absent"
        BY DEF LinkInv, Ownership
      <3> QED
        BY <1>5, <3>1, <3>2
    <2> QED
      BY <1>1, <2>1, <2>2, <2>3, <2>4, <2>5, <2>6 DEF LinkInv, Ownership
  <1>16. WantsLinked'
    BY <1>3, <1>6, <1>7, <1>11, HeapFacts DEF LinkInv, WantsLinked
  <1>17. Sharing'
    <2>1. p \notin may_share_refs
      BY <1>1 DEF LinkInv, Sharing
    <2> QED
      BY <1>1, <1>5, <1>12, <2>1 DEF LinkInv, Sharing, HasCode
  <1>18. Linked'
    <2> SUFFICES ASSUME NEW u \in Primaries, Usable(u)', NEW v \in links'[u] \cap Primaries
                 PROVE  status'[v] = "instantiated" /\ u \in dependents[v]
      BY <1>1 DEF Linked
    <2>1. u \in Contexts /\ v \in Contexts /\ v \in links[u] /\ Usable(u)
      BY <1>6, <1>11, <1>12
    <2>2. status[v] = "instantiated" /\ u \in dependents[v]
      BY <2>1 DEF LinkInv, Linked
    <2> QED
      BY <1>1, <1>5, <1>12, <2>1, <2>2
  <1>19. Flat'
    <2> SUFFICES ASSUME NEW y \in Contexts, slot'[y].imported
                 PROVE  /\ slot'[y].import_ctx \in Contexts
                        /\ ~slot'[slot'[y].import_ctx].imported
                        /\ slot'[slot'[y].import_ctx].buf # Null \/ status'[slot'[y].import_ctx] = "freed"
      BY DEF Flat
    <2>1. PICK z \in Contexts : z = slot[y].import_ctx /\ z = slot'[y].import_ctx
                                /\ ~slot[z].imported /\ (slot[z].buf # Null \/ status[z] = "freed")
      BY <1>9 DEF LinkInv, Flat
    <2>2. z \notin made
      BY <1>3, <1>4, <2>1 DEF NoSlot
    <2>3. status[z] = "freed" => status'[z] = "freed"
      BY <1>1, <1>5, <2>2
    <2> QED
      BY <1>8, <2>1, <2>2, <2>3
  <1>20. Unbound' /\ BindingSound'
    <2>1. \A q \in Primaries : slot'[q] = slot[q]
      BY <1>8, <1>12
    <2>2. \A q \in Primaries : status'[q] = "ready"
            => slot'[q] = NoSlot \/ (~slot'[q].imported /\ slot'[q].buf # Null)
      BY <1>5, <1>12, <2>1 DEF LinkInv, Unbound
    <2>3. \A q \in Primaries : status'[q] = "importing" /\ binding.to # q => slot'[q] = NoSlot
      BY <1>5, <1>12, <2>1 DEF LinkInv, Unbound
    <2>4. \A m \in Owned : /\ Pending(m)' /\ status'[OwnedBy[m]] \in {"importing", "finalizing"}
                           /\ binding.to # m
                           => slot'[m] = NoSlot
      <3> SUFFICES ASSUME NEW m \in Owned, Pending(m)', status'[OwnedBy[m]] \in {"importing", "finalizing"},
                          binding.to # m
                   PROVE  slot'[m] = NoSlot
        OBVIOUS
      <3>1. m \in Contexts /\ m # p /\ OwnedBy[m] \in Primaries
        BY <1>2, HeapFacts
      <3>2. CASE m \in made
        BY <1>7, <1>8, <3>2 DEF Pending
      <3>3. CASE m \notin made
        <4>1. Pending(m) /\ status[m] = "ready"
          BY <1>11, <3>1, <3>3 DEF Pending
        <4>2. OwnedBy[m] # p
          BY <1>1, <4>1 DEF LinkInv, Ownership
        <4>3. status'[OwnedBy[m]] = status[OwnedBy[m]]
          BY <1>5, <1>12, <3>1, <4>2
        <4> QED
          BY <1>8, <3>1, <3>3, <4>1, <4>3 DEF LinkInv, Unbound
      <3> QED
        BY <3>2, <3>3
    <2> QED
      BY <1>1, <1>2, <2>2, <2>3, <2>4 DEF Unbound, BindingSound, NoBinding
  <1>21. \A m \in made : Bound(m)' => slot'[m] = Own(m)
    BY <1>3, <1>5, <1>7, <1>8 DEF Bound
  <1>22. Bound(p)' => ~slot[p].imported /\ slot[p].buf = <<p, version[p]>> /\ Holder(p) = p
    <2>1. Bound(p)' => slot[p] # NoSlot
      BY <1>2, <1>5 DEF Bound
    <2>2. slot[p] # NoSlot => ~slot[p].imported /\ slot[p].buf # Null
      BY <1>1 DEF LinkInv, Unbound
    <2> QED
      BY <1>2, <2>1, <2>2 DEF LinkInv, FreedOnce, Holder
  <1>23. BoundCurrent'
    <2> SUFFICES ASSUME NEW x \in Contexts, Usable(x)', Bound(x)' PROVE Current(x)'
      BY DEF BoundCurrent
    <2>1. CASE x \in made
      <3>1. slot'[x] = Own(x) /\ version'[x] = 0 /\ Holder(x)' = x
        BY <1>1, <1>4, <1>11, <1>21, <2>1
      <3>2. slot'[x].buf = <<x, 0>>
        BY <3>1, SlotFacts
      <3> QED
        BY <3>1, <3>2 DEF Current
    <2>2. CASE x = p
      BY <1>1, <1>8, <1>11, <1>12, <1>22, <2>2 DEF Current
    <2>3. CASE x \notin made /\ x # p
      BY <1>1, <1>8, <1>11, <2>3 DEF LinkInv, BoundCurrent, Current
    <2> QED
      BY <2>1, <2>2, <2>3
  <1>24. BoundKnown'
    <2> SUFFICES ASSUME NEW x \in Contexts, Usable(x)', Bound(x)', slot'[x].imported
                 PROVE  x \in dependents[slot[x].import_ctx]
      BY <1>1, <1>9 DEF BoundKnown
    <2>1. x \notin made
      BY <1>21, SlotFacts
    <2>2. x # p
      BY <1>9, <1>22
    <2> QED
      BY <1>9, <1>11, <2>1, <2>2 DEF LinkInv, BoundKnown
  <1>25. FreedOnce'
    <2> SUFFICES ASSUME NEW x \in Contexts, Live(x)', ~slot'[x].imported, slot'[x].buf # Null
                 PROVE  slot'[x].buf = <<x, version[x]>>
      BY <1>1 DEF FreedOnce
    <2>1. CASE x \in made
      BY <1>4, <1>8, <2>1, SlotFacts
    <2>2. CASE x \notin made
      BY <1>8, <1>11, <2>2 DEF LinkInv, FreedOnce
    <2> QED
      BY <2>1, <2>2
  <1>26. SameFate' /\ ListsSound' /\ Intact' /\ Tied' /\ ImportsJoined' /\ RefsJoined'
    <2>1. \A x \in Contexts : (Live(x) => Live(x)') /\ (Usable(x) => Usable(x)')
      BY <1>4, <1>11
    <2>2. \A x \in Contexts : Usable(x)' => Usable(x) \/ (status[x] = "absent" /\ (x \in Owned => Usable(Heap(x))))
      BY <1>2, <1>3, <1>11
    <2>3. Usable(p)'
      BY <1>2, <2>1
    <2>4. \A x \in Contexts : /\ \A y \in links[x] : y \in links'[x]
                              /\ \A y \in links'[x] : y \in links[x] \/ (Usable(x)' /\ Usable(y)')
      BY <1>6, <1>11, <2>3
    <2>5. has_objects \subseteq has_objects'
      BY <1>1
    <2> QED
      BY <1>1, <1>9, <1>10, <2>1, <2>2, <2>4, <2>5, NetGrows
  <1> QED
    BY <1>10, <1>13, <1>14, <1>15, <1>16, <1>17, <1>18, <1>19, <1>20, <1>23, <1>24, <1>25, <1>26 DEF LinkInv
-----------------------------------------------------------------------------
(* Contexts that run code are firmly linked with all that they may have. *)
LEMMA CodeNear ==
    ASSUME LinkInv, NEW p \in Primaries, p \in may_share_refs,
           NEW y \in Contexts, Usable(y), HasCode(y), Near(p, y)
    PROVE  Heap(y) \in may_share_refs /\ Heap(y) \in Class(p) /\ Class(Heap(y)) = Class(p)
  <1>0. TypeOK /\ p \in Contexts /\ Heap(y) \in Contexts
    BY HeapFacts DEF LinkInv
  <1>1. Heap(y) \in Class(p)
    <2>1. CASE Heap(y) \in Class(p)
      BY <2>1
    <2>2. CASE y \in has_objects /\ \E l \in Bonds[y] : l \in Primaries /\ l \in Class(p)
      <3>1. PICK l \in Bonds[y] : l \in Primaries /\ l \in Class(p)
        BY <2>2
      <3>2. y \in Primaries /\ Heap(y) = y /\ y \in may_share_refs
        BY <1>0, <2>2, HeapFacts DEF TypeOK, LinkInv, Sharing
      <3>3. l \in may_share_refs /\ l \in Contexts
        BY <3>1, <3>2, UsableFacts
      <3>4. y \in Class(l)
        BY <1>0, <3>1, <3>2, <3>3, ClassFacts
      <3> QED
        BY <1>0, <3>1, <3>2, <3>4, ClassFacts
    <2> QED
      BY <2>1, <2>2 DEF Near
  <1> QED
    BY <1>0, <1>1, ClassFacts

(* All that may become involved when the code of p runs is in use, and     *)
(* firmly linked with p.                                                   *)
LEMMA InvolvedFacts ==
    ASSUME LinkInv, NEW p \in Primaries, Usable(p), HasCode(p)
    PROVE  /\ p \in may_share_refs
           /\ \A y \in Involved(p) : y \in Contexts /\ Usable(y) /\ Near(p, y)
  <1> DEFINE E == [x \in Contexts |-> AtHand(x)]
             S == {y \in Contexts : Usable(y) /\ Near(p, y)}
  <1>0. TypeOK /\ p \in Contexts /\ Heap(p) = p /\ p \in may_share_refs /\ p \in Class(p)
    BY HeapFacts, ClassFacts DEF LinkInv, Sharing
  <1>1. p \in S
    BY <1>0 DEF Near
  <1>2. ASSUME NEW y \in S, NEW z \in E[y] PROVE z \in S
    <2>0. y \in Contexts /\ Usable(y) /\ Near(p, y) /\ z \in AtHand(y)
      BY <1>2
    <2>1. HasCode(y) /\ z \in links[Heap(y)] \cup {Holder(y)} \cup refs[y]
      BY <2>0 DEF AtHand
    <2>2. PICK h \in Primaries : h = Heap(y) /\ h \in Contexts /\ Usable(h)
      BY <2>0, HeapFacts, UsableFacts
    <2>3. h \in may_share_refs /\ h \in Class(p) /\ Class(h) = Class(p)
      BY <1>0, <2>0, <2>1, <2>2, CodeNear
    <2>4. CASE z \in links[h]
      <3>1. z \in Contexts /\ Usable(z) /\ (z \in Primaries => z \in may_share_refs)
        BY <2>2, <2>4, UsableFacts
      <3>2. CASE z \in Primaries
        <4>1. z \in Class(h) /\ Heap(z) = z
          BY <1>0, <2>2, <2>3, <2>4, <3>1, <3>2, ClassFacts, HeapFacts
        <4> QED
          BY <2>3, <3>1, <4>1 DEF Near
      <3>3. CASE z \in Owned
        <4>1. Heap(z) = h
          BY <2>4, <3>3, HeapFacts DEF LinkInv, Ownership
        <4> QED
          BY <2>3, <3>1, <4>1 DEF Near
      <3> QED
        BY <3>1, <3>2, <3>3 DEF Contexts
    <2>5. CASE z = Holder(y)
      <3>1. z \in Contexts /\ Usable(z)
        BY <2>0, <2>5, UsableFacts
      <3>2. Joined(h, Heap(z))
        <4>1. CASE slot[y].imported
          BY <2>0, <2>2, <2>5, <4>1 DEF LinkInv, ImportsJoined, Holder
        <4>2. CASE ~slot[y].imported
          BY <2>2, <2>5, <4>2 DEF Holder, Joined
        <4> QED
          BY <4>1, <4>2
      <3>3. CASE h = Heap(z)
        BY <2>3, <3>1, <3>3 DEF Near
      <3>4. CASE \E l \in links[h] : l \in Primaries /\ Heap(z) \in Class(l)
        <4>1. PICK l \in links[h] : l \in Primaries /\ Heap(z) \in Class(l)
          BY <3>4
        <4>2. l \in may_share_refs /\ l \in Contexts
          BY <2>2, <4>1, UsableFacts
        <4>3. Class(l) = Class(h)
          BY <1>0, <2>2, <2>3, <4>1, <4>2, ClassFacts
        <4> QED
          BY <2>3, <3>1, <4>1, <4>3 DEF Near
      <3> QED
        BY <3>2, <3>3, <3>4 DEF Joined
    <2>6. CASE z \in refs[y]
      <3>1. z \in Contexts /\ Usable(z) /\ Near(h, z)
        BY <1>0, <2>0, <2>2, <2>6 DEF LinkInv, RefsJoined, Intact, TypeOK
      <3> QED
        BY <2>3, <3>1 DEF Near
    <2> QED
      BY <2>1, <2>2, <2>4, <2>5, <2>6
  <1>3. Closure(E, p) \subseteq S
    BY <1>1, <1>2, ClosureLeast
  <1> QED
    BY <1>0, <1>3 DEF Involved

(* References spread among contexts that are firmly tied. *)
LEMMA RefsStep ==
    ASSUME LinkInv, UNCHANGED <<status, poisoned, may_share_refs, links, dependents, gc_dependents,
                                slot, version, wants, binding, stack, modules, has_objects, severed>>,
           refs' \in [Contexts -> SUBSET Contexts], bridged' \in [Contexts -> SUBSET Contexts],
           \A x \in Contexts : refs'[x] # refs[x] \/ bridged'[x] # bridged[x] => Live(x),
           \A x \in Contexts : bridged[x] \subseteq bridged'[x],
           \A y \in Contexts : \A z \in bridged'[y] :
              \/ z \in bridged[y]
              \/ /\ Giver(y, z) /\ Usable(y) /\ Usable(z)
                 /\ z \in PoisonDomain(y) /\ y \in PoisonDomain(z),
           \A x \in Contexts : \A y \in refs'[x] :
              y \in refs[x] \/ (Usable(y) /\ Heap(x) \in may_share_refs /\ Near(Heap(x), y)')
    PROVE  LinkInv'
  <1>1. TypeOK'
    BY DEF LinkInv, TypeOK
  <1>2. /\ StackSound' /\ WantsLinked' /\ Sharing' /\ Linked' /\ SameFate' /\ ListsSound'
        /\ Flat' /\ Unbound' /\ BindingSound' /\ BoundCurrent' /\ BoundKnown' /\ FreedOnce' /\ ImportsJoined'
        /\ \A x \in Contexts : (Live(x)' <=> Live(x)) /\ (Usable(x)' <=> Usable(x))
        /\ \A p \in Contexts : Class(p) \subseteq Class(p)'
    BY <1>1, StateKept
  <1>3. BlankUnlessLive'
    BY <1>2 DEF LinkInv, BlankUnlessLive, Blank
  <1>4. Ownership'
    BY DEF LinkInv, Ownership, Live
  <1>5. Intact'
    <2> SUFFICES ASSUME NEW x \in Contexts, Usable(x)',
                        NEW y \in links[x] \cup dependents[x] \cup gc_dependents[Heap(x)] \cup {Holder(x)} \cup refs'[x]
                 PROVE  Usable(y)'
      BY DEF Intact, Heap, Holder
    <2>1. Usable(x)
      BY <1>2
    <2>2. Usable(y)
      BY <2>1 DEF LinkInv, Intact
    <2>3. y \in Contexts
      BY <2>1, UsableFacts, HeapFacts DEF LinkInv, TypeOK
    <2> QED
      BY <1>2, <2>2, <2>3
  <1>6. RefsJoined'
    <2> SUFFICES ASSUME NEW x \in Contexts, Usable(x)', NEW y \in refs'[x]
                 PROVE  Heap(x) \in may_share_refs /\ Near(Heap(x), y)'
      BY DEF RefsJoined, Heap
    <2>1. Usable(x) /\ y \in Contexts /\ Heap(x) \in Contexts
      BY <1>2, HeapFacts
    <2>2. CASE y \in refs[x]
      <3>1. Heap(x) \in may_share_refs /\ Near(Heap(x), y)
        BY <2>1, <2>2 DEF LinkInv, RefsJoined
      <3>2. Class(Heap(x)) \subseteq Class(Heap(x))' /\ Bonds[y] \subseteq Bonds'[y]
        BY <1>2, <2>1 DEF Bonds
      <3> QED
        BY <3>1, <3>2 DEF Near, Heap
    <2> QED
      BY <2>2
  <1>7. Tied'
    <2> SUFFICES ASSUME NEW y \in Contexts, NEW z \in bridged'[y]
                 PROVE  /\ Giver(y, z)' /\ (Usable(y)' <=> Usable(z)')
                        /\ Usable(y)' => z \in PoisonDomain(y)' /\ y \in PoisonDomain(z)'
      BY DEF Tied
    <2>1. /\ Giver(y, z) /\ (Usable(y) <=> Usable(z)) /\ z \in Contexts
          /\ Usable(y) => z \in PoisonDomain(y) /\ y \in PoisonDomain(z)
      BY DEF LinkInv, Tied
    <2>2. Giver(y, z)' /\ (Usable(y)' <=> Usable(y)) /\ (Usable(z)' <=> Usable(z))
      BY <1>2, <2>1 DEF Giver
    <2>3. PoisonDomain(y)' = PoisonDomain(y) /\ PoisonDomain(z)' = PoisonDomain(z)
      BY DEF PoisonDomain
    <2> QED
      BY <2>1, <2>2, <2>3
  <1> QED
    BY <1>1, <1>2, <1>3, <1>4, <1>5, <1>6, <1>7 DEF LinkInv

(* What code gets hold of is firmly linked with it. *)
LEMMA RunStep ==
    ASSUME LinkInv, NEW p \in Primaries, Run(p)
    PROVE  LinkInv'
  <1>0. Usable(p) /\ HasCode(p) /\ TypeOK /\ p \in Contexts
    BY HeapFacts DEF Run, Runs, HasCode, Usable, Live, LinkInv
  <1>1. PICK all : /\ all = Involved(p)
                   /\ refs' = [x \in Contexts |-> IF x \in all /\ HasCode(x) THEN refs[x] \cup all ELSE refs[x]]
    BY DEF Run
  <1>2. UNCHANGED <<status, poisoned, may_share_refs, links, dependents, gc_dependents,
                    slot, version, wants, binding, stack, modules, has_objects, bridged, severed>>
    BY DEF Run, flags, registry, buffers, bridges
  <1>3. p \in may_share_refs /\ \A y \in all : y \in Contexts /\ Usable(y) /\ Near(p, y)
    BY <1>0, <1>1, InvolvedFacts
  <1>4. refs' \in [Contexts -> SUBSET Contexts]
    BY <1>0, <1>1, <1>3 DEF TypeOK
  <1>5. \A x \in Contexts : refs'[x] # refs[x] => Live(x)
    BY <1>1, <1>3 DEF Usable
  <1>6. ASSUME NEW x \in Contexts, NEW y \in refs'[x], y \notin refs[x]
        PROVE  Usable(y) /\ Heap(x) \in may_share_refs /\ Near(Heap(x), y)'
    <2>1. x \in all /\ HasCode(x) /\ y \in all
      BY <1>1, <1>6
    <2>2. Heap(x) \in may_share_refs /\ Class(Heap(x)) = Class(p)
      BY <1>3, <2>1, CodeNear
    <2>3. Near(Heap(x), y)
      BY <1>3, <2>1, <2>2 DEF Near
    <2> QED
      BY <1>2, <1>3, <2>1, <2>2, <2>3 DEF Near, Class, Bonds, Heap
  <1> QED
    BY <1>0, <1>2, <1>4, <1>5, <1>6, RefsStep DEF TypeOK

(* A link or an import between contexts that may share references joins    *)
(* their classes.                                                          *)
LEMMA EdgeJoins ==
    ASSUME LinkInv, NEW z \in Contexts, Usable(z), NEW w \in links[z] \cup dependents[z]
    PROVE  /\ w \in Contexts /\ Usable(w)
           /\ Heap(z) \in may_share_refs /\ Heap(w) \in may_share_refs => Heap(w) \in Class(Heap(z))
  <1>0. TypeOK /\ w \in Contexts /\ Usable(w)
    BY DEF LinkInv, TypeOK, Intact
  <1>1. PICK g \in Primaries, k \in Primaries :
          /\ g = Heap(z) /\ k = Heap(w) /\ g \in Contexts /\ k \in Contexts /\ Usable(g) /\ Usable(k)
          /\ g \in Class(g) /\ k \in Class(k)
    BY <1>0, HeapFacts, UsableFacts, ClassFacts
  <1>2. ASSUME g \in may_share_refs, k \in may_share_refs PROVE k \in Class(g)
    <2>1. CASE w \in links[z]
      <3>1. z = g /\ z \in Primaries
        BY <1>1, <2>1, HeapFacts DEF LinkInv, Ownership, Contexts
      <3>2. w \in Owned => k = z
        BY <1>1, <2>1, <3>1, HeapFacts DEF LinkInv, Ownership
      <3>3. w \in Primaries => k = w
        BY <1>1, HeapFacts
      <3>4. w \in Primaries => k \in Class(g)
        BY <1>0, <1>1, <1>2, <2>1, <3>1, <3>3, ClassFacts
      <3> QED
        BY <1>0, <1>1, <3>1, <3>2, <3>4 DEF Contexts
    <2>2. CASE w \in dependents[z]
      <3>1. Consumer(z, w)
        BY <2>2 DEF LinkInv, ListsSound
      <3>2. CASE slot[w].imported /\ slot[w].import_ctx = z
        <4>1. Joined(k, g)
          BY <1>0, <1>1, <3>2 DEF LinkInv, ImportsJoined
        <4>2. CASE \E l \in links[k] : l \in Primaries /\ g \in Class(l)
          <5>1. PICK l \in links[k] : l \in Primaries /\ g \in Class(l)
            BY <4>2
          <5>2. l \in may_share_refs /\ l \in Contexts
            BY <1>1, <5>1, UsableFacts
          <5>3. Class(l) = Class(k) /\ Class(g) = Class(l)
            BY <1>0, <1>1, <1>2, <5>1, <5>2, ClassFacts
          <5> QED
            BY <1>1, <5>3
        <4> QED
          BY <1>1, <4>1, <4>2 DEF Joined
      <3>3. CASE z \in Primaries /\ z \in links[w]
        <4>1. w = k /\ z = g
          BY <1>0, <1>1, <3>3, HeapFacts DEF LinkInv, Ownership, Contexts
        <4> QED
          BY <1>0, <1>1, <1>2, <3>3, <4>1, ClassFacts
      <3> QED
        BY <3>1, <3>2, <3>3 DEF Consumer
    <2> QED
      BY <2>1, <2>2
  <1> QED
    BY <1>0, <1>1, <1>2

(* Host objects go to contexts that are firmly linked. *)
LEMMA FirmDomainFacts ==
    ASSUME LinkInv, NEW p \in Primaries, Usable(p), p \in has_objects \cup may_share_refs,
           NEW q \in Primaries, q \in may_share_refs, q \in FirmDomain(p)
    PROVE  Near(q, p)
  <1> DEFINE E == [y \in Contexts |-> IF y = p \/ Heap(y) \in may_share_refs
                                      THEN links[y] \cup dependents[y] ELSE {}]
             K == {k \in Contexts : IF p \in may_share_refs THEN k \in Class(p)
                                    ELSE \E l \in links[p] : l \in Primaries /\ k \in Class(l)}
             S == {z \in Contexts : Usable(z) /\ (Heap(z) \in may_share_refs => Heap(z) \in K)}
  <1>0. TypeOK /\ p \in Contexts /\ Heap(p) = p /\ q \in Contexts /\ Heap(q) = q /\ p \in Class(p)
    BY HeapFacts, ClassFacts DEF LinkInv
  <1>1. p \in S
    BY <1>0
  <1>2. \A l \in links[p] : l \in Contexts
    BY <1>0 DEF TypeOK
  <1>3. ASSUME NEW g \in K, NEW k \in Class(g) PROVE k \in K
    <2>1. g \in Contexts /\ k \in Contexts
      BY <1>0, <1>3, ClassFacts
    <2>2. CASE p \in may_share_refs
      BY <1>0, <1>3, <2>1, <2>2, ClassFacts
    <2>3. CASE p \notin may_share_refs
      <3>1. PICK l \in links[p] : l \in Primaries /\ g \in Class(l)
        BY <1>3, <2>3
      <3>2. Class(g) = Class(l)
        BY <1>0, <1>2, <3>1, ClassFacts
      <3> QED
        BY <1>3, <2>1, <2>3, <3>1, <3>2
    <2> QED
      BY <2>2, <2>3
  <1>4. ASSUME NEW z \in S, NEW w \in E[z] PROVE w \in S
    <2>0. z \in Contexts /\ Usable(z) /\ (Heap(z) \in may_share_refs => Heap(z) \in K)
      BY <1>4
    <2>1. w \in links[z] \cup dependents[z] /\ (z = p \/ Heap(z) \in may_share_refs)
      BY <1>4, <2>0
    <2>2. w \in Contexts /\ Usable(w) /\ Heap(w) \in Contexts
      BY <2>0, <2>1, EdgeJoins, HeapFacts
    <2>3. ASSUME Heap(w) \in may_share_refs PROVE Heap(w) \in K
      <3>1. CASE Heap(z) \in may_share_refs
        <4>1. Heap(w) \in Class(Heap(z)) /\ Heap(z) \in K
          BY <2>0, <2>1, <2>3, <3>1, EdgeJoins
        <4> QED
          BY <1>3, <4>1
      <3>2. CASE z = p /\ p \notin may_share_refs
        <4>1. CASE w \in links[p]
          <5>1. w \in Primaries
            BY <1>0, <2>2, <2>3, <3>2, <4>1, HeapFacts DEF LinkInv, Ownership, Contexts
          <5>2. Heap(w) = w /\ w \in Class(w)
            BY <1>0, <2>2, <5>1, HeapFacts, ClassFacts
          <5> QED
            BY <2>2, <3>2, <4>1, <5>1, <5>2
        <4>2. CASE w \in dependents[p]
          <5>1. Consumer(p, w)
            BY <1>0, <4>2 DEF LinkInv, ListsSound
          <5>2. CASE slot[w].imported /\ slot[w].import_ctx = p
            <6>1. Joined(Heap(w), p)
              BY <1>0, <2>2, <5>2 DEF LinkInv, ImportsJoined
            <6>2. PICK l \in links[Heap(w)] : l \in Primaries /\ p \in Class(l)
              BY <2>3, <3>2, <6>1 DEF Joined
            <6>3. l \in may_share_refs /\ l \in Contexts
              BY <2>2, <6>2, UsableFacts, HeapFacts
            <6> QED
              BY <1>0, <3>2, <6>2, <6>3, ClassFacts
          <5>3. CASE p \in links[w]
            <6>1. w \in Primaries
              BY <2>2, <5>3, HeapFacts DEF LinkInv, Ownership, Contexts
            <6> QED
              BY <2>2, <3>2, <5>3, <6>1, UsableFacts
          <5> QED
            BY <5>1, <5>2, <5>3 DEF Consumer
        <4> QED
          BY <2>1, <3>2, <4>1, <4>2
      <3> QED
        BY <2>1, <3>1, <3>2, <1>0
    <2> QED
      BY <2>2, <2>3
  <1>5. q \in S
    <2>1. Closure(E, p) \subseteq S
      BY <1>1, <1>4, ClosureLeast
    <2> QED
      BY <2>1 DEF FirmDomain
  <1>6. q \in K
    BY <1>0, <1>5
  <1>7. CASE p \in may_share_refs
    <2>1. q \in Class(p)
      BY <1>6, <1>7
    <2>2. p \in Class(q)
      BY <1>0, <2>1, ClassFacts
    <2> QED
      BY <1>0, <2>2 DEF Near
  <1>8. CASE p \notin may_share_refs
    <2>1. PICK l \in links[p] : l \in Primaries /\ q \in Class(l)
      BY <1>6, <1>8
    <2>2. l \in Class(q)
      <3>1. Class(q) = Class(l) /\ l \in Class(l)
        BY <1>0, <1>2, <2>1, ClassFacts
      <3> QED
        BY <3>1
    <2> QED
      BY <1>0, <1>8, <2>1, <2>2 DEF Near, Bonds
  <1> QED
    BY <1>7, <1>8

-----------------------------------------------------------------------------
(* Every bound alias of the buffer is known to its owner, and updated. *)
LEMMA GrowStep ==
    ASSUME LinkInv, NEW p \in Primaries, NEW f \in Contexts, Grow(p, f)
    PROVE  LinkInv'
  <1>0. TypeOK /\ Usable(p) /\ HasCode(p)
    BY DEF LinkInv, Grow, Runs, HasCode, Usable, Live
  <1>1. Usable(f)
    BY <1>0, InvolvedFacts DEF Grow
  <1>2. PICK o \in Contexts : o = Holder(f) /\ Usable(o) /\ Live(o) /\ ~slot[o].imported /\ Holder(o) = o
    BY <1>1, UsableFacts DEF Usable
  <1>3. PICK v \in 0..MaxGrowth : v = version[o] + 1 /\ version' = [version EXCEPT ![o] = v]
    <2>1. PICK n \in Nat : n = version[o] /\ n < MaxGrowth /\ MaxGrowth \in Nat
      BY <1>0, <1>2, LinkAssumption DEF Grow, TypeOK
    <2>2. version' = [version EXCEPT ![o] = version[o] + 1]
      BY <1>2 DEF Grow
    <2>3. n + 1 \in 0..MaxGrowth
      BY <2>1
    <2> QED
      BY <2>1, <2>2, <2>3
  <1> DEFINE Reached(x) == x = f \/ x = o \/ (x \in Propagated(p, o) /\ slot[x].imported
                                                                     /\ slot[x].import_ctx = o)
  <1>4. slot' = [x \in Contexts |-> IF Reached(x) THEN [slot[x] EXCEPT !.buf = <<o, v>>] ELSE slot[x]]
    BY <1>2, <1>3 DEF Grow
  <1>5. UNCHANGED <<status, poisoned, may_share_refs, has_objects, modules, links, dependents, gc_dependents,
                    wants, refs, bridged, severed, binding, stack>>
    BY DEF Grow, flags, registry, bridges
  <1>6. \A x \in Contexts : Reached(x) => Holder(x) = o
    BY <1>2 DEF Holder
  <1>7. \A x \in Contexts : Usable(x) /\ Bound(x) /\ Holder(x) = o => Reached(x)
    <2> SUFFICES ASSUME NEW x \in Contexts, Usable(x), Bound(x), Holder(x) = o PROVE Reached(x)
      OBVIOUS
    <2>1. CASE slot[x].imported
      <3>1. slot[x].import_ctx = o
        BY <2>1 DEF Holder
      <3>2. x \in dependents[o]
        BY <2>1, <3>1 DEF LinkInv, BoundKnown
      <3>3. x \in Propagated(p, o)
        BY <3>2 DEF Propagated
      <3> QED
        BY <2>1, <3>1, <3>3
    <2>2. CASE ~slot[x].imported
      BY <2>2 DEF Holder
    <2> QED
      BY <2>1, <2>2
  <1>8. \A x \in Contexts : Reached(x) => Live(x)
    <2> SUFFICES ASSUME NEW x \in Contexts, Reached(x), ~Live(x) PROVE FALSE
      OBVIOUS
    <2>1. ~slot[x].imported
      BY SlotFacts DEF LinkInv, BlankUnlessLive, Blank
    <2> QED
      BY <1>1, <1>2, <2>1 DEF Usable
  <1>9. <<o, v>> \in Contexts \X (0..MaxGrowth) /\ <<o, v>> # Null
    BY LinkAssumption DEF Contexts
  <1> HIDE DEF Reached
  <1>10. /\ slot' \in [Contexts -> Slots]
         /\ \A x \in Contexts : Reached(x) => slot'[x].buf = <<o, v>>
         /\ \A x \in Contexts : ~Reached(x) => slot'[x] = slot[x]
         /\ \A x \in Contexts : slot'[x].imported = slot[x].imported /\ slot'[x].import_ctx = slot[x].import_ctx
    <2>1. slot \in [Contexts -> Slots]
      BY <1>0 DEF TypeOK
    <2>2. ASSUME NEW x \in Contexts, Reached(x)
          PROVE  /\ slot'[x] \in Slots /\ slot'[x].buf = <<o, v>>
                 /\ slot'[x].imported = slot[x].imported /\ slot'[x].import_ctx = slot[x].import_ctx
      <3>1. slot[x] \in [imported : BOOLEAN, import_ctx : Contexts \cup {Null}, buf : (Contexts \X (0..MaxGrowth)) \cup {Null}]
        BY <2>1 DEF Slots
      <3>2. slot'[x] = [slot[x] EXCEPT !.buf = <<o, v>>]
        BY <1>4, <2>2
      <3> QED
        BY <1>9, <3>1, <3>2 DEF Slots
    <2>3. \A x \in Contexts : ~Reached(x) => slot'[x] = slot[x]
      BY <1>4
    <2>4. \A x \in Contexts : slot'[x] \in Slots
      BY <2>1, <2>2, <2>3
    <2>5. slot' \in [Contexts -> Slots]
      BY <1>4, <2>4
    <2> QED
      BY <2>2, <2>3, <2>5
  <1>11. /\ version' \in [Contexts -> 0..MaxGrowth] /\ version'[o] = v
         /\ \A x \in Contexts : x # o => version'[x] = version[x]
    BY <1>0, <1>2, <1>3 DEF TypeOK
  <1>12. TypeOK'
    BY <1>0, <1>5, <1>10, <1>11 DEF TypeOK
  <1>13. \A x \in Contexts : /\ Live(x)' <=> Live(x)
                             /\ Usable(x)' <=> Usable(x)
                             /\ HasCode(x)' <=> HasCode(x)
                             /\ Pending(x)' <=> Pending(x)
                             /\ Bound(x)' <=> Bound(x)
                             /\ Holder(x)' = Holder(x)
                             /\ Heap(x)' = Heap(x)
    BY <1>5, <1>10 DEF Live, Usable, HasCode, Pending, Bound, Holder, Heap
  <1>14. StackSound' /\ Ownership' /\ WantsLinked' /\ Sharing' /\ Linked'
    BY <1>5 DEF LinkInv, StackSound, Ownership, WantsLinked, Sharing, Linked, Live, Usable, HasCode
  <1>15. BlankUnlessLive'
    <2>1. \A x \in Contexts : ~Live(x) => slot'[x] = slot[x] /\ version'[x] = version[x]
      BY <1>2, <1>8, <1>10, <1>11
    <2> QED
      BY <1>5, <1>13, <2>1 DEF LinkInv, BlankUnlessLive, Blank
  <1>16. \A x \in Contexts : slot[x].buf # Null => slot'[x].buf # Null
    BY <1>9, <1>10
  <1>17. Flat'
    BY <1>5, <1>10, <1>16 DEF LinkInv, Flat
  <1>18. binding = NoBinding
    BY HostTurnFacts DEF Grow, Runs
  <1>19. Unbound' /\ BindingSound'
    <2>1. \A q \in Primaries : q \in Contexts
      BY HeapFacts
    <2>2. \A m \in Owned : m \in Contexts /\ OwnedBy[m] \in Primaries
      BY HeapFacts
    <2>3. \A q \in Primaries : status[q] = "ready"
             => slot'[q] = NoSlot \/ (~slot'[q].imported /\ slot'[q].buf # Null)
      <3> SUFFICES ASSUME NEW q \in Primaries, status[q] = "ready"
                   PROVE  slot'[q] = NoSlot \/ (~slot'[q].imported /\ slot'[q].buf # Null)
        OBVIOUS
      <3>1. q \in Contexts /\ ~slot[q].imported
        BY <2>1, SlotFacts DEF LinkInv, Unbound
      <3>2. CASE Reached(q)
        BY <1>9, <1>10, <3>1, <3>2
      <3>3. CASE ~Reached(q)
        BY <1>10, <3>1, <3>3 DEF LinkInv, Unbound
      <3> QED
        BY <3>2, <3>3
    <2>4. \A x \in Contexts : slot[x] = NoSlot /\ x # o => slot'[x] = NoSlot
      <3> SUFFICES ASSUME NEW x \in Contexts, slot[x] = NoSlot, x # o, Reached(x) PROVE FALSE
        BY <1>10
      <3> QED
        BY <1>6, SlotFacts DEF Holder
    <2>5. slot[o].buf # Null
      <3>1. CASE f = o
        <4>1. HasCode(f)
          BY DEF Grow
        <4>2. Bound(f)
          BY <4>1 DEF HasCode, Bound, LinkInv, Ownership
        <4>3. slot[o].buf = <<o, version[o]>>
          BY <1>1, <1>2, <3>1, <4>2 DEF LinkInv, BoundCurrent, Current
        <4>4. version[o] \in Nat
          BY <1>0, <1>2, LinkAssumption DEF TypeOK
        <4> QED
          BY <1>2, <4>3, <4>4, LinkAssumption DEF Contexts
      <3>2. CASE f # o
        BY <1>1, <1>2, <3>2 DEF LinkInv, Flat, Holder, Live
      <3> QED
        BY <3>1, <3>2
    <2>6. \A x \in Contexts : slot[x] = NoSlot => slot'[x] = NoSlot
      BY <2>4, <2>5, SlotFacts
    <2>7. Unbound'
      BY <1>5, <1>13, <2>1, <2>2, <2>3, <2>6 DEF LinkInv, Unbound
    <2> QED
      BY <1>5, <1>18, <2>7 DEF BindingSound, NoBinding
  <1>20. BoundCurrent'
    <2> SUFFICES ASSUME NEW x \in Contexts, Usable(x)', Bound(x)'
                 PROVE  slot'[x].buf = <<Holder(x), version'[Holder(x)]>>
      BY <1>13 DEF BoundCurrent, Current
    <2>1. Usable(x) /\ Bound(x) /\ Holder(x) \in Contexts
      BY <1>13, UsableFacts
    <2>2. CASE Holder(x) = o
      BY <1>7, <1>10, <1>11, <2>1, <2>2
    <2>3. CASE Holder(x) # o
      BY <1>6, <1>10, <1>11, <2>1, <2>3 DEF LinkInv, BoundCurrent, Current
    <2> QED
      BY <2>2, <2>3
  <1>21. BoundKnown'
    BY <1>5, <1>10, <1>13 DEF LinkInv, BoundKnown
  <1>22. FreedOnce'
    <2> SUFFICES ASSUME NEW x \in Contexts, Live(x)', ~slot'[x].imported, slot'[x].buf # Null
                 PROVE  slot'[x].buf = <<x, version'[x]>>
      BY DEF FreedOnce
    <2>1. Live(x) /\ ~slot[x].imported /\ Holder(x) = x
      BY <1>10, <1>13 DEF Holder
    <2>2. CASE Reached(x)
      BY <1>6, <1>10, <1>11, <2>1, <2>2
    <2>3. CASE ~Reached(x)
      <3>1. x # o
        BY <2>3 DEF Reached
      <3> QED
        BY <1>10, <1>11, <2>1, <2>3, <3>1 DEF LinkInv, FreedOnce
    <2> QED
      BY <2>2, <2>3
  <1>23. SameFate' /\ ListsSound' /\ Intact' /\ Tied' /\ ImportsJoined' /\ RefsJoined'
    BY <1>5, <1>10, <1>12, <1>13, NetKept
  <1> QED
    BY <1>12, <1>14, <1>15, <1>17, <1>19, <1>20, <1>21, <1>22, <1>23 DEF LinkInv
-----------------------------------------------------------------------------
(* The contexts that a free of p poisons: links are followed both ways,    *)
(* and owned contexts go with their primary.                               *)
LEMMA DomainFacts ==
    ASSUME LinkInv, NEW p \in Primaries, Usable(p), NEW D, D = PoisonDomain(p)
    PROVE  /\ p \in D /\ D \subseteq Contexts
           /\ \A y \in D : Usable(y) /\ Heap(y) \in D
           /\ \A y \in D : links[y] \subseteq D /\ dependents[y] \subseteq D
           /\ \A z \in Primaries : \A l \in links[z] : l \in D => z \in D
           /\ \A y \in D : y \in Primaries => Class(y) \subseteq D
           /\ \A y \in D : PoisonDomain(y) \subseteq D
  <1> DEFINE E == [y \in Contexts |-> links[y] \cup dependents[y]]
  <1>0. TypeOK /\ p \in Contexts /\ Heap(p) = p /\ E \in Graph
    BY HeapFacts DEF LinkInv, TypeOK, Graph
  <1>1. D = Closure(E, p)
    BY DEF PoisonDomain
  <1>2. p \in D /\ D \subseteq Contexts
    BY <1>0, <1>1, ClosureSelf
  <1>3. \A y \in D : links[y] \subseteq D /\ dependents[y] \subseteq D
    <2>1. \A y \in D : E[y] \subseteq D
      <3> HIDE DEF E
      <3> QED
        BY <1>0, <1>1, ClosureStep
    <2> QED
      BY <1>2, <2>1
  <1>4. \A y \in D : Usable(y)
    <2> DEFINE S == {y \in Contexts : Usable(y)}
    <2>1. p \in S /\ \A z \in S : E[z] \subseteq S
      BY <1>0, EdgeJoins
    <2>2. Closure(E, p) \subseteq S
      BY <2>1, ClosureLeast
    <2> QED
      BY <1>1, <2>2
  <1> HIDE DEF E
  <1>5. ASSUME NEW z \in Primaries, NEW l \in links[z], l \in D, l \in Primaries PROVE z \in D
    <2>1. Usable(z)
      BY <1>4, <1>5 DEF LinkInv, SameFate
    <2>2. z \in dependents[l]
      BY <1>5, <2>1 DEF LinkInv, Linked
    <2> QED
      BY <1>3, <1>5, <2>2
  <1>6. \A y \in D : PoisonDomain(y) \subseteq D
    BY <1>0, <1>1, ClosureTrans DEF PoisonDomain, E
  <1>7. ASSUME NEW y \in D, y \in Primaries PROVE Class(y) \subseteq D
    <2> DEFINE F == FirmEdges(may_share_refs, Bonds)
    <2>1. \A z \in D : F[z] \subseteq D
      <3> SUFFICES ASSUME NEW z \in D, NEW w \in F[z] PROVE w \in D
        OBVIOUS
      <3>1. z \in Contexts /\ w \in Contexts
        BY <1>2 DEF FirmEdges
      <3>2. /\ w \in may_share_refs /\ z \in may_share_refs
            /\ w \in links[z] \/ z \in links[w] \/ w \in bridged[z] \/ z \in bridged[w]
        BY <3>1 DEF FirmEdges, Bonds
      <3>3. w \in Primaries /\ z \in Primaries
        BY <1>0, <3>2 DEF TypeOK
      <3>4. CASE w \in bridged[z] \/ z \in bridged[w]
        BY <1>4, <1>6, <3>1, <3>4 DEF LinkInv, Tied
      <3> QED
        BY <1>3, <1>5, <3>2, <3>3, <3>4
    <2>2. D \in SUBSET Contexts
      BY <1>2
    <2> HIDE DEF F
    <2>3. Closure(F, y) \subseteq D
      BY <1>7, <2>1, <2>2, ClosureLeast
    <2> QED
      BY <2>3 DEF Class, Firm, F
  <1>8. \A y \in D : Heap(y) \in D
    <2> DEFINE S == {y \in D : Heap(y) \in D}
    <2>1. p \in S /\ S \in SUBSET Contexts
      BY <1>0, <1>2
    <2>2. ASSUME NEW y \in S, NEW z \in E[y] PROVE z \in S
      <3>0. y \in Contexts /\ y \in D /\ Heap(y) \in D /\ Usable(y)
        BY <1>2, <1>4, <2>2
      <3>1. z \in links[y] \cup dependents[y] /\ z \in D /\ z \in Contexts /\ Usable(z)
        BY <1>2, <1>3, <1>4, <2>2, <3>0 DEF E
      <3>2. CASE z \in Primaries
        BY <3>1, <3>2, HeapFacts
      <3>3. CASE z \in Owned /\ z \in links[y]
        <4>1. y \in Primaries
          BY <3>0, <3>3 DEF LinkInv, Ownership, Contexts
        <4>2. Heap(z) = y
          BY <3>3, <4>1, HeapFacts DEF LinkInv, Ownership
        <4> QED
          BY <3>0, <3>1, <4>2
      <3>4. CASE z \in Owned /\ z \in dependents[y]
        <4>1. Consumer(y, z)
          BY <3>0, <3>4 DEF LinkInv, ListsSound
        <4>2. slot[z].imported /\ slot[z].import_ctx = y
          BY <3>4, <4>1 DEF Consumer, LinkInv, Ownership
        <4>3. Joined(Heap(z), Heap(y))
          BY <3>1, <4>2 DEF LinkInv, ImportsJoined
        <4>4. CASE Heap(z) = Heap(y)
          BY <3>0, <3>1, <4>4
        <4>5. CASE \E l \in links[Heap(z)] : l \in Primaries /\ Heap(y) \in Class(l)
          <5>1. PICK l \in links[Heap(z)] : l \in Primaries /\ Heap(y) \in Class(l)
            BY <4>5
          <5>2. l \in Contexts /\ Heap(y) \in Primaries /\ Heap(z) \in Primaries
            BY <3>0, <3>1, <5>1, HeapFacts
          <5>3. l \in Class(Heap(y))
            <6>1. Class(Heap(y)) = Class(l) /\ l \in Class(l)
              BY <1>0, <5>1, <5>2, ClassFacts
            <6> QED
              BY <6>1
          <5>4. l \in D
            BY <1>7, <3>0, <5>2, <5>3
          <5> QED
            BY <1>5, <3>1, <5>1, <5>2, <5>4
        <4> QED
          BY <4>3, <4>4, <4>5 DEF Joined
      <3> QED
        BY <3>1, <3>2, <3>3, <3>4 DEF Contexts
    <2>3. Closure(E, p) \subseteq S
      BY <2>1, <2>2, ClosureLeast
    <2> QED
      BY <1>1, <2>3
  <1>9. ASSUME NEW z \in Primaries, NEW l \in links[z], l \in D PROVE z \in D
    <2>1. CASE l \in Primaries
      BY <1>5, <1>9, <2>1
    <2>2. CASE l \in Owned
      <3>1. Heap(l) = z
        BY <1>9, <2>2, HeapFacts DEF LinkInv, Ownership
      <3> QED
        BY <1>8, <1>9, <3>1
    <2> QED
      BY <1>2, <1>9, <2>1, <2>2 DEF Contexts
  <1> QED
    BY <1>2, <1>3, <1>4, <1>6, <1>7, <1>8, <1>9

(* The contexts that are freed with p, and those that are poisoned. *)
Gone(p) == {p} \cup (links[p] \cap Owned)
Dead(p) == IF p \notin poisoned /\ p \in may_share_refs \cup has_objects THEN PoisonDomain(p) ELSE {}

(* What a free of p changes; only those that leave with p are taken off    *)
(* lists, and all of those that were on one.                               *)
LEMMA FreeEffect ==
    ASSUME LinkInv, NEW p \in Primaries, Free(p), NEW gone, gone = Gone(p), NEW dead, dead = Dead(p)
    PROVE  /\ p \in gone /\ gone \subseteq Contexts /\ dead \subseteq Contexts
           /\ \A x \in Contexts : x \in gone <=> Live(x) /\ Heap(x) = p
           /\ \A x \in gone : Usable(x) => Usable(p)
           /\ \A x \in dead : Usable(x)
           /\ status' = [x \in Contexts |-> IF x \in gone THEN "freed" ELSE status[x]]
           /\ poisoned' = (poisoned \cup dead) \ gone
           /\ may_share_refs' = may_share_refs \ gone /\ has_objects' = has_objects \ gone
           /\ links' = [links EXCEPT ![p] = {}] /\ modules' = [modules EXCEPT ![p] = {}]
           /\ slot' = [x \in Contexts |-> IF x \in gone THEN NoSlot ELSE slot[x]]
           /\ wants' = [m \in Owned |-> IF m \in gone THEN Null ELSE wants[m]]
           /\ version' = [x \in Contexts |-> IF x \in gone THEN 0 ELSE version[x]]
           /\ refs' = [x \in Contexts |-> IF x \in gone THEN {} ELSE refs[x]]
           /\ bridged' = [x \in Contexts |-> IF x \in gone THEN {} ELSE bridged[x] \ gone]
           /\ UNCHANGED <<binding, stack>> /\ binding = NoBinding
           /\ \A x \in Contexts : Usable(x)' <=> Usable(x) /\ x \notin gone /\ x \notin dead
  <1>0. TypeOK /\ p \in Contexts /\ Heap(p) = p /\ p \notin Owned /\ Live(p) /\ binding = NoBinding
    BY HeapFacts, HostTurnFacts DEF LinkInv, Free
  <1>1. p \in gone /\ gone \subseteq Contexts
    BY <1>0 DEF Gone, Contexts
  <1>2. ASSUME NEW x \in Contexts PROVE x \in gone <=> Live(x) /\ Heap(x) = p
    <2>1. CASE x \in Primaries
      BY <1>0, <2>1, HeapFacts DEF Gone
    <2>2. CASE x \in Owned
      <3>1. Heap(x) = OwnedBy[x] /\ x # p
        BY <1>0, <2>2, HeapFacts
      <3>2. x \in links[p] => OwnedBy[x] = p
        BY <2>2 DEF LinkInv, Ownership
      <3>3. Live(x) <=> x \in links[OwnedBy[x]]
        BY <2>2 DEF LinkInv, Ownership
      <3> QED
        BY <2>2, <3>1, <3>2, <3>3 DEF Gone
    <2> QED
      BY <2>1, <2>2 DEF Contexts
  <1>3. \A x \in gone : Usable(x) => Usable(p)
    BY DEF Gone, LinkInv, SameFate
  <1>4. dead \subseteq Contexts /\ \A x \in dead : Usable(x)
    <2>1. CASE p \notin poisoned /\ p \in may_share_refs \cup has_objects
      BY <1>0, <2>1, DomainFacts DEF Dead, Usable
    <2>2. CASE ~(p \notin poisoned /\ p \in may_share_refs \cup has_objects)
      BY <2>2 DEF Dead
    <2> QED
      BY <2>1, <2>2
  <1>5. /\ status' = [x \in Contexts |-> IF x \in gone THEN "freed" ELSE status[x]]
        /\ may_share_refs' = may_share_refs \ gone /\ has_objects' = has_objects \ gone
        /\ links' = [links EXCEPT ![p] = {}] /\ modules' = [modules EXCEPT ![p] = {}]
        /\ slot' = [x \in Contexts |-> IF x \in gone THEN NoSlot ELSE slot[x]]
        /\ wants' = [m \in Owned |-> IF m \in gone THEN Null ELSE wants[m]]
        /\ version' = [x \in Contexts |-> IF x \in gone THEN 0 ELSE version[x]]
        /\ refs' = [x \in Contexts |-> IF x \in gone THEN {} ELSE refs[x]]
        /\ bridged' = [x \in Contexts |-> IF x \in gone THEN {} ELSE bridged[x] \ gone]
        /\ UNCHANGED <<binding, stack>>
    BY DEF Free, Gone
  <1>6. poisoned' = (poisoned \cup dead) \ gone
    <2>1. poisoned' = (IF p \notin poisoned /\ p \in may_share_refs \cup has_objects
                       THEN poisoned \cup PoisonDomain(p) ELSE poisoned) \ gone
      BY DEF Free, Gone
    <2> QED
      BY <2>1 DEF Dead
  <1>7. \A x \in Contexts : Usable(x)' <=> Usable(x) /\ x \notin gone /\ x \notin dead
    BY <1>5, <1>6 DEF Usable, Live
  <1> QED
    BY <1>0, <1>1, <1>2, <1>3, <1>4, <1>5, <1>6, <1>7

(* The lists after a free of p: those of the freed contexts are empty, and *)
(* others lose only freed contexts, among them all that are consumers.     *)
LEMMA FreeLists ==
    ASSUME LinkInv, NEW p \in Primaries, Free(p), NEW gone, gone = Gone(p)
    PROVE  /\ dependents' \in [Contexts -> SUBSET Contexts] /\ gc_dependents' \in [Primaries -> SUBSET Contexts]
           /\ \A x \in gone : dependents'[x] = {}
           /\ gc_dependents'[p] = {}
           /\ \A x \in Contexts : dependents'[x] \subseteq dependents[x]
           /\ \A h \in Primaries : gc_dependents'[h] \subseteq gc_dependents[h]
           /\ \A x \in Contexts : x \notin gone => \A y \in dependents[x] : y \notin gone => y \in dependents'[x]
           /\ \A x \in Contexts : Usable(x) => \A y \in dependents'[x] : y \notin gone
           /\ \A o \in Contexts : Heap(o) # p => \A y \in gc_dependents'[Heap(o)] :
                                                     y \in dependents[o] => y \in dependents'[o]
  <1>0. TypeOK /\ p \in Contexts /\ Heap(p) = p /\ p \notin Owned /\ p \in gone /\ gone \subseteq Contexts
    BY HeapFacts DEF LinkInv, Gone, Contexts
  <1>1. \A x \in gone : Heap(x) = p /\ (x \in Primaries => x = p)
    BY <1>0, HeapFacts DEF Gone, LinkInv, Ownership
  <1>2. CASE p \in poisoned
    <2>1. /\ dependents' = [o \in Contexts |-> IF o \in gone THEN {} ELSE dependents[o]]
          /\ gc_dependents' = [h \in Primaries |-> IF h \in gone THEN {} ELSE gc_dependents[h]]
      BY <1>2 DEF Free, Forget, Gone
    <2>2. \A x \in Contexts : Usable(x) => \A y \in dependents'[x] : y \notin gone
      <3> SUFFICES ASSUME NEW x \in Contexts, Usable(x), NEW y \in dependents'[x], y \in gone PROVE FALSE
        OBVIOUS
      <3>1. Usable(y) /\ y \in Contexts
        BY <1>0, <2>1 DEF LinkInv, Intact
      <3> QED
        BY <1>1, <1>2, <3>1, UsableFacts DEF Usable
    <2> QED
      BY <1>0, <1>1, <2>1, <2>2 DEF TypeOK
  <1>3. CASE p \notin poisoned
    <2> DEFINE from(o) == {x \in gone : slot[x].imported /\ slot[x].import_ctx = o}
                             \cup (IF o \in links[p] \ Owned THEN {p} ELSE {})
               heap(h) == UNION {from(o) : o \in {x \in Contexts : Heap(x) = h}}
    <2>1. /\ dependents' = [o \in Contexts |-> IF o \in gone THEN {} ELSE dependents[o] \ from(o)]
          /\ gc_dependents' = [h \in Primaries |-> IF h \in gone THEN {} ELSE gc_dependents[h] \ heap(h)]
      BY <1>3 DEF Free, Unregister, Gone
    <2>2. \A o : from(o) \subseteq gone
      BY <1>0
    <2>3. \A o \in Contexts : from(o) \subseteq heap(Heap(o))
      OBVIOUS
    <2>4. ASSUME NEW x \in Contexts, Usable(x), NEW y \in dependents[x], y \in gone PROVE y \in from(x)
      <3>1. Consumer(x, y)
        BY <2>4 DEF LinkInv, ListsSound
      <3>2. CASE slot[y].imported /\ slot[y].import_ctx = x
        BY <2>4, <3>2
      <3>3. CASE x \in Primaries /\ x \in links[y]
        <4>1. y = p
          BY <2>4, <3>3 DEF Gone, LinkInv, Ownership
        <4> QED
          BY <3>3, <4>1, HeapFacts
      <3> QED
        BY <3>1, <3>2, <3>3 DEF Consumer
    <2> HIDE DEF from, heap
    <2>5. /\ \A x \in gone : dependents'[x] = {}
          /\ gc_dependents'[p] = {}
          /\ \A x \in Contexts : dependents'[x] \subseteq dependents[x]
          /\ \A h \in Primaries : gc_dependents'[h] \subseteq gc_dependents[h]
      BY <1>0, <2>1
    <2>6. \A x \in Contexts : Usable(x) => \A y \in dependents'[x] : y \notin gone
      BY <2>1, <2>4
    <2>7. \A x \in Contexts : x \notin gone => \A y \in dependents[x] : y \notin gone => y \in dependents'[x]
      BY <2>1, <2>2
    <2>8. \A o \in Contexts : Heap(o) # p => \A y \in gc_dependents'[Heap(o)] :
                                                 y \in dependents[o] => y \in dependents'[o]
      BY <1>1, <2>1, <2>3, HeapFacts
    <2>9. dependents' \in [Contexts -> SUBSET Contexts] /\ gc_dependents' \in [Primaries -> SUBSET Contexts]
      BY <1>0, <2>1 DEF TypeOK
    <2> QED
      BY <2>5, <2>6, <2>7, <2>8, <2>9
  <1> QED
    BY <1>2, <1>3

(* What a context that is still in use after a free of p knows is still in *)
(* use: it is not freed, and the poison did not reach it.                  *)
LEMMA FreeSpares ==
    ASSUME LinkInv, NEW p \in Primaries, Free(p)
    PROVE  /\ \A x \in Contexts : Usable(x) /\ Usable(Heap(x))' => Usable(x)'
           /\ \A x \in Contexts : Usable(x)' => Usable(Heap(x))'
           /\ \A x \in Contexts : Usable(x)' => \A y \in links[x] : Usable(y)'
           /\ \A z \in Primaries : z # p => \A l \in links[z] : Usable(l)' => Usable(z)'
           /\ \A l \in may_share_refs : Usable(l)' => \A k \in Class(l) : Usable(k)' /\ k \in may_share_refs
           /\ \A x \in Contexts : Usable(x)' => \A y \in refs[x] : Usable(y)'
           /\ \A y \in Contexts : \A z \in bridged[y] : y # p /\ z # p => (Usable(y)' <=> Usable(z)')
  <1>1. PICK gone, dead : gone = Gone(p) /\ dead = Dead(p)
    OBVIOUS
  <1>2. /\ TypeOK /\ p \in Contexts /\ Heap(p) = p /\ p \in gone /\ Live(p) /\ gone \subseteq Contexts
        /\ \A x \in Contexts : x \in gone <=> Live(x) /\ Heap(x) = p
        /\ \A x \in gone : Usable(x) => Usable(p)
        /\ \A x \in Contexts : Usable(x)' <=> Usable(x) /\ x \notin gone /\ x \notin dead
    <2>1. TypeOK /\ p \in Contexts /\ Heap(p) = p /\ Live(p)
      BY HeapFacts DEF LinkInv, Free
    <2>2. /\ p \in gone /\ gone \subseteq Contexts
          /\ \A x \in Contexts : x \in gone <=> Live(x) /\ Heap(x) = p
          /\ \A x \in gone : Usable(x) => Usable(p)
          /\ \A x \in Contexts : Usable(x)' <=> Usable(x) /\ x \notin gone /\ x \notin dead
      BY <1>1, FreeEffect
    <2> QED
      BY <2>1, <2>2
  <1>3. /\ \A y \in dead : Heap(y) \in dead
        /\ \A y \in dead : links[y] \subseteq dead
        /\ \A z \in Primaries : \A l \in links[z] : l \in dead => z \in dead
        /\ \A y \in dead : y \in Primaries => Class(y) \subseteq dead
        /\ \A y \in dead : PoisonDomain(y) \subseteq dead
        /\ Usable(p) /\ p \in may_share_refs \cup has_objects => p \in dead
    <2>1. CASE p \notin poisoned /\ p \in may_share_refs \cup has_objects
      BY <1>1, <1>2, <2>1, DomainFacts DEF Dead, Usable
    <2>2. CASE ~(p \notin poisoned /\ p \in may_share_refs \cup has_objects)
      BY <1>1, <2>2 DEF Dead, Usable
    <2> QED
      BY <2>1, <2>2
  <1>4. ASSUME NEW x \in Contexts, Usable(x), Usable(Heap(x))' PROVE Usable(x)'
    <2>1. Heap(x) \in Contexts
      BY HeapFacts
    <2>2. Heap(x) \notin gone /\ Heap(x) \notin dead
      BY <1>2, <1>4, <2>1
    <2> QED
      BY <1>2, <1>3, <1>4, <2>2
  <1>5. ASSUME NEW x \in Contexts, Usable(x)' PROVE Usable(Heap(x))'
    <2>1. /\ Usable(x) /\ x \notin gone /\ x \notin dead /\ Live(x)
          /\ Heap(x) \in Contexts /\ Heap(x) \in Primaries /\ Usable(Heap(x))
      BY <1>2, <1>5, HeapFacts, UsableFacts DEF Usable
    <2>2. Heap(x) \notin gone
      BY <1>2, <2>1, HeapFacts
    <2>3. Heap(x) \notin dead
      BY <1>3, <2>1, UsableFacts, HeapFacts DEF Contexts
    <2> QED
      BY <1>2, <2>1, <2>2, <2>3
  <1>6. ASSUME NEW x \in Contexts, Usable(x)', NEW y \in links[x] PROVE Usable(y)'
    <2>1. Usable(x) /\ x \notin gone /\ x \notin dead /\ x \in Primaries /\ Heap(x) = x /\ x # p
      BY <1>2, <1>6, HeapFacts DEF LinkInv, Ownership, Contexts
    <2>2. y \in Contexts /\ Usable(y) /\ (y \in Primaries => y \in may_share_refs)
      BY <1>6, <2>1, UsableFacts
    <2>3. y \notin dead
      BY <1>3, <1>6, <2>1
    <2>4. y # p
      BY <1>3, <2>2, <2>3
    <2>5. y \notin gone
      BY <1>1, <1>6, <2>1, <2>4 DEF Gone, LinkInv, Ownership
    <2> QED
      BY <1>2, <2>2, <2>3, <2>5
  <1>7. ASSUME NEW z \in Primaries, z # p, NEW l \in links[z], Usable(l)' PROVE Usable(z)'
    <2>1. z \in Contexts /\ l \in Contexts /\ Heap(z) = z
      BY <1>2, HeapFacts DEF TypeOK
    <2>2. Usable(z) /\ l \notin dead
      BY <1>2, <1>7, <2>1 DEF LinkInv, SameFate
    <2> QED
      BY <1>2, <1>3, <1>7, <2>1, <2>2
  <1>8. ASSUME NEW l \in may_share_refs, Usable(l)', NEW k \in Class(l)
        PROVE  Usable(k)' /\ k \in may_share_refs
    <2>1. /\ l \in Primaries /\ l \in Contexts /\ Usable(l) /\ l \notin gone /\ l \notin dead
          /\ Heap(l) = l
      BY <1>2, <1>8, HeapFacts DEF TypeOK
    <2>2. k \in Contexts /\ k \in may_share_refs /\ k \in Primaries /\ Class(k) = Class(l) /\ l \in Class(l)
      BY <1>2, <1>8, <2>1, ClassFacts DEF TypeOK
    <2>3. Usable(k)
      BY <1>8, <2>1, DomainFacts
    <2>4. k \notin dead
      BY <1>3, <2>1, <2>2
    <2>5. k # p
      BY <1>3, <2>2, <2>3, <2>4
    <2>6. k \notin gone
      BY <1>2, <2>2, <2>5, HeapFacts
    <2> QED
      BY <1>2, <2>2, <2>3, <2>4, <2>6
  <1>9. ASSUME NEW x \in Contexts, Usable(x)', NEW y \in refs[x] PROVE Usable(y)'
    <2>1. Usable(x) /\ y \in Contexts
      BY <1>2, <1>9 DEF TypeOK
    <2>2. PICK h \in Primaries : h = Heap(x) /\ h \in Contexts /\ Usable(h)' /\ h \in may_share_refs
                                 /\ Near(h, y) /\ Usable(y)
      BY <1>5, <1>9, <2>1, HeapFacts DEF LinkInv, RefsJoined, Intact
    <2>3. CASE Heap(y) \in Class(h)
      BY <1>4, <1>8, <2>1, <2>2, <2>3
    <2>4. CASE y \in has_objects /\ \E l \in Bonds[y] : l \in Primaries /\ l \in Class(h)
      <3>1. PICK l \in Bonds[y] : l \in Primaries /\ l \in Class(h)
        BY <2>4
      <3>2. Usable(l)' /\ l \in Contexts /\ l \notin dead /\ y \in Primaries
        BY <1>2, <1>8, <2>2, <2>4, <3>1, HeapFacts DEF TypeOK
      <3>3. y \notin dead
        <4>1. l \in links[y] \/ l \in bridged[y]
          BY <2>1, <3>1 DEF Bonds
        <4>2. CASE l \in bridged[y]
          BY <1>3, <2>1, <2>2, <3>2, <4>2 DEF LinkInv, Tied
        <4> QED
          BY <1>3, <3>2, <4>1, <4>2
      <3>4. y # p
        BY <1>3, <2>2, <2>4, <3>3
      <3>5. y \notin gone
        BY <1>2, <2>1, <3>2, <3>4, HeapFacts
      <3> QED
        BY <1>2, <2>1, <2>2, <3>3, <3>5
    <2> QED
      BY <2>2, <2>3, <2>4 DEF Near
  <1>10. ASSUME NEW y \in Contexts, NEW z \in bridged[y], y # p, z # p PROVE Usable(y)' <=> Usable(z)'
    <2>1. /\ y \in Primaries /\ z \in Primaries /\ z \in Contexts /\ (Usable(y) <=> Usable(z))
          /\ Usable(y) => z \in PoisonDomain(y) /\ y \in PoisonDomain(z)
      BY <1>10, HeapFacts DEF LinkInv, Tied, Giver
    <2>2. y \notin gone /\ z \notin gone
      BY <1>2, <1>10, <2>1, HeapFacts
    <2>3. Usable(y) => (y \in dead <=> z \in dead)
      BY <1>3, <2>1
    <2> QED
      BY <1>2, <2>1, <2>2, <2>3
  <1> QED
    BY <1>4, <1>5, <1>6, <1>7, <1>8, <1>9, <1>10

(* Firm links of contexts that stay in use are kept. *)
LEMMA FreeKeepsClass ==
    ASSUME LinkInv, TypeOK', NEW p \in Primaries, Free(p),
           NEW l \in may_share_refs, Usable(l)'
    PROVE  Class(l) \subseteq Class(l)'
  <1> DEFINE E == FirmEdges(may_share_refs, Bonds)
             D == FirmEdges(may_share_refs', Bonds')
             S == {k \in Class(l) : k \in Class(l)'}
  <1>1. PICK gone, dead : gone = Gone(p) /\ dead = Dead(p)
    OBVIOUS
  <1>2. TypeOK /\ l \in Primaries /\ l \in Contexts
    BY HeapFacts DEF LinkInv, TypeOK
  <1>3. /\ may_share_refs' = may_share_refs \ gone /\ links' = [links EXCEPT ![p] = {}] /\ p \in gone
        /\ bridged' = [x \in Contexts |-> IF x \in gone THEN {} ELSE bridged[x] \ gone]
        /\ \A x \in Contexts : Usable(x)' => x \notin gone
    BY <1>1, FreeEffect
  <1>4. \A k \in Class(l) : /\ k \in Contexts /\ k \in may_share_refs /\ k \in may_share_refs'
                            /\ k # p /\ k \notin gone
    <2>1. \A k \in Class(l) : k \in Contexts /\ Usable(k)' /\ k \in may_share_refs
      BY <1>2, ClassFacts, FreeSpares
    <2> QED
      BY <1>3, <2>1
  <1>5. /\ may_share_refs \in SUBSET Contexts /\ Bonds \in Graph
        /\ may_share_refs' \in SUBSET Contexts /\ Bonds' \in Graph
    BY <1>2, HeapFacts DEF TypeOK, Graph, Bonds
  <1>6. E \in Graph /\ D \in Graph
    BY <1>5, EdgeFacts
  <1>7. l \in S /\ S \in SUBSET Contexts
    BY <1>2, <1>4, ClassFacts, NextClassFacts
  <1>8. ASSUME NEW z \in S, NEW w \in E[z] PROVE w \in S
    <2>1. z \in Class(l) /\ z \in Class(l)' /\ z \in Contexts
      BY <1>7
    <2>2. w \in Contexts
      BY <1>6, <1>8, <2>1 DEF Graph
    <2>3. w \in Class(l)
      <3>1. z \in Closure(E, l)
        BY <2>1 DEF Class, Firm
      <3> HIDE DEF E
      <3>2. w \in Closure(E, l)
        BY <1>6, <1>8, <3>1, ClosureStep
      <3> QED
        BY <3>2 DEF Class, Firm, E
    <2>4. w \in Bonds[z] \/ z \in Bonds[w]
      BY <1>5, <1>8, <2>1, <2>2, EdgeFacts
    <2>5. w \in Bonds'[z] \/ z \in Bonds'[w]
      <3>1. ASSUME NEW u \in Class(l), NEW v \in Class(l), v \in Bonds[u] PROVE v \in Bonds'[u]
        <4>1. u \in Contexts /\ u # p /\ u \notin gone /\ v \notin gone /\ (v \in links[u] \/ v \in bridged[u])
          BY <1>4, <3>1 DEF Bonds
        <4>2. links'[u] = links[u] /\ bridged'[u] = bridged[u] \ gone
          BY <1>2, <1>3, <4>1 DEF TypeOK
        <4> QED
          BY <4>1, <4>2 DEF Bonds
      <3> QED
        BY <2>1, <2>3, <2>4, <3>1
    <2>6. w \in D[z]
      BY <1>4, <1>5, <2>1, <2>2, <2>3, <2>5, EdgeFacts
    <2>7. w \in Class(l)'
      <3>1. z \in Closure(D, l)
        BY <2>1 DEF Class, Firm
      <3> HIDE DEF D
      <3>2. w \in Closure(D, l)
        BY <1>6, <2>6, <3>1, ClosureStep
      <3> QED
        BY <3>2 DEF Class, Firm, D
    <2> QED
      BY <2>3, <2>7
  <1>9. Closure(E, l) \subseteq S
    <2> HIDE DEF E, S
    <2> QED
      BY <1>7, <1>8, ClosureLeast
  <1> QED
    BY <1>9 DEF Class, Firm

(* What is freed or poisoned is unknown to what stays in use. *)
LEMMA FreeStep ==
    ASSUME LinkInv, NEW p \in Primaries, Free(p), ~severed'
    PROVE  LinkInv'
  <1>1. PICK gone, dead : gone = Gone(p) /\ dead = Dead(p)
    OBVIOUS
  <1>2. TypeOK /\ p \in Contexts /\ p \notin Owned /\ Heap(p) = p /\ Live(p)
    BY HeapFacts DEF LinkInv, Free
  <1>3. /\ p \in gone /\ gone \subseteq Contexts /\ dead \subseteq Contexts
        /\ \A x \in Contexts : x \in gone <=> Live(x) /\ Heap(x) = p
        /\ \A x \in dead : Usable(x)
        /\ binding' = binding /\ stack' = stack /\ binding = NoBinding
        /\ poisoned' = (poisoned \cup dead) \ gone
        /\ may_share_refs' = may_share_refs \ gone /\ has_objects' = has_objects \ gone
        /\ \A x \in Contexts : Usable(x)' <=> Usable(x) /\ x \notin gone /\ x \notin dead
    BY <1>1, FreeEffect
  <1>4. /\ status' \in [Contexts -> Statuses]
        /\ \A x \in Contexts : status'[x] = IF x \in gone THEN "freed" ELSE status[x]
    <2>1. status' = [x \in Contexts |-> IF x \in gone THEN "freed" ELSE status[x]]
      BY <1>1, FreeEffect
    <2> QED
      BY <1>2, <2>1 DEF TypeOK, Statuses
  <1>5. /\ links' \in [Contexts -> SUBSET Contexts] /\ modules' \in [Primaries -> SUBSET Owned]
        /\ \A x \in Contexts : links'[x] = IF x = p THEN {} ELSE links[x]
        /\ \A q \in Primaries : modules'[q] = IF q = p THEN {} ELSE modules[q]
    <2>1. links' = [links EXCEPT ![p] = {}] /\ modules' = [modules EXCEPT ![p] = {}]
      BY <1>1, FreeEffect
    <2> QED
      BY <1>2, <2>1 DEF TypeOK
  <1>6. /\ slot' \in [Contexts -> Slots]
        /\ \A x \in Contexts : slot'[x] = IF x \in gone THEN NoSlot ELSE slot[x]
    <2>1. slot' = [x \in Contexts |-> IF x \in gone THEN NoSlot ELSE slot[x]]
      BY <1>1, FreeEffect
    <2>2. NoSlot \in Slots
      BY DEF NoSlot, Slots
    <2> QED
      BY <1>2, <2>1, <2>2 DEF TypeOK
  <1>7. /\ wants' \in [Owned -> Contexts \cup {Null}] /\ refs' \in [Contexts -> SUBSET Contexts]
        /\ bridged' \in [Contexts -> SUBSET Contexts]
        /\ \A m \in Owned : wants'[m] = IF m \in gone THEN Null ELSE wants[m]
        /\ \A x \in Contexts : refs'[x] = IF x \in gone THEN {} ELSE refs[x]
        /\ \A x \in Contexts : bridged'[x] = IF x \in gone THEN {} ELSE bridged[x] \ gone
    <2>1. /\ wants' = [m \in Owned |-> IF m \in gone THEN Null ELSE wants[m]]
          /\ refs' = [x \in Contexts |-> IF x \in gone THEN {} ELSE refs[x]]
          /\ bridged' = [x \in Contexts |-> IF x \in gone THEN {} ELSE bridged[x] \ gone]
      BY <1>1, FreeEffect
    <2> QED
      BY <1>2, <2>1 DEF TypeOK
  <1>8. /\ version' \in [Contexts -> 0..MaxGrowth]
        /\ \A x \in Contexts : version'[x] = IF x \in gone THEN 0 ELSE version[x]
    <2>1. version' = [x \in Contexts |-> IF x \in gone THEN 0 ELSE version[x]]
      BY <1>1, FreeEffect
    <2>2. 0 \in 0..MaxGrowth
      BY LinkAssumption
    <2> QED
      BY <1>2, <2>1, <2>2 DEF TypeOK
  <1>9. /\ dependents' \in [Contexts -> SUBSET Contexts] /\ gc_dependents' \in [Primaries -> SUBSET Contexts]
        /\ \A x \in gone : dependents'[x] = {}
        /\ gc_dependents'[p] = {}
        /\ \A x \in Contexts : dependents'[x] \subseteq dependents[x]
        /\ \A h \in Primaries : gc_dependents'[h] \subseteq gc_dependents[h]
        /\ \A x \in Contexts : x \notin gone => \A y \in dependents[x] : y \notin gone => y \in dependents'[x]
        /\ \A x \in Contexts : Usable(x) => \A y \in dependents'[x] : y \notin gone
        /\ \A o \in Contexts : Heap(o) # p => \A y \in gc_dependents'[Heap(o)] :
                                                  y \in dependents[o] => y \in dependents'[o]
    BY <1>1, FreeLists
  <1>10. TypeOK'
    <2>1. severed' \in BOOLEAN
      BY DEF Free
    <2> QED
      BY <1>2, <1>3, <1>4, <1>5, <1>6, <1>7, <1>8, <1>9, <2>1 DEF TypeOK
  <1>11. /\ \A q \in Primaries : q \in Contexts /\ Heap(q) = q /\ (q \in gone <=> q = p)
         /\ \A m \in Owned : m \in Contexts /\ m # p /\ Heap(m) = OwnedBy[m] /\ OwnedBy[m] \in Primaries
         /\ \A x \in Contexts : Heap(x)' = Heap(x)
         /\ \A x \in Contexts : x \notin gone => /\ Live(x)' <=> Live(x)
                                                 /\ HasCode(x)' <=> HasCode(x)
                                                 /\ Holder(x)' = Holder(x)
         /\ \A x \in gone : ~Live(x)' /\ ~HasCode(x)'
    <2>1. \A q \in Primaries : q \in Contexts /\ Heap(q) = q /\ (q \in gone <=> q = p)
      BY <1>2, <1>3, HeapFacts
    <2>2. \A x \in Contexts : x \notin gone => /\ Live(x)' <=> Live(x)
                                               /\ HasCode(x)' <=> HasCode(x)
                                               /\ Holder(x)' = Holder(x)
      BY <1>4, <1>6 DEF Live, HasCode, Holder
    <2>3. \A x \in gone : ~Live(x)' /\ ~HasCode(x)'
      BY <1>3, <1>4 DEF Live, HasCode
    <2> QED
      BY <1>2, <2>1, <2>2, <2>3, HeapFacts DEF Heap
  <1>12. \A x \in Contexts : x \notin gone => (Pending(x)' <=> Pending(x)) /\ (Bound(x)' <=> Bound(x))
    BY <1>4, <1>7 DEF Pending, Bound
  <1>13. \A x \in Contexts : Usable(x)' => Usable(x) /\ x \notin gone /\ x \notin dead /\ x # p /\ Live(x)
    BY <1>3 DEF Usable
  <1>14. StackSound'
    <2>1. \A i \in 1..Len(stack) : stack[i] \in Primaries /\ stack[i] \notin PoisonDomain(p)
      BY <1>2 DEF Free, TypeOK
    <2>2. p \in PoisonDomain(p)
      BY <1>2, ClosureSelf DEF PoisonDomain
    <2>3. \A i \in 1..Len(stack) : stack[i] # p /\ stack[i] \notin dead /\ stack[i] \in Contexts /\ stack[i] \notin gone
      BY <1>1, <1>11, <2>1, <2>2 DEF Dead
    <2>4. \A i \in 1..Len(stack) : status'[stack[i]] = status[stack[i]]
      BY <1>4, <2>3
    <2>5. \A i \in 1..Len(stack) : stack[i] \notin poisoned => stack[i] \notin poisoned'
      BY <1>3, <2>3
    <2> QED
      BY <1>3, <2>4, <2>5 DEF LinkInv, StackSound
  <1>15. BlankUnlessLive'
    <2> SUFFICES ASSUME NEW x \in Contexts, ~Live(x)' PROVE Blank(x)'
      BY DEF BlankUnlessLive
    <2>1. CASE x \in gone
      <3>1. links'[x] = {}
        BY <1>1, <1>5, <2>1 DEF Gone, LinkInv, Ownership
      <3>2. x \in Primaries => modules'[x] = {} /\ gc_dependents'[x] = {}
        BY <1>5, <1>9, <1>11, <2>1
      <3> QED
        BY <1>3, <1>6, <1>7, <1>8, <1>9, <2>1, <3>1, <3>2 DEF Blank
    <2>2. CASE x \notin gone
      <3>1. ~Live(x) /\ Blank(x) /\ x # p
        BY <1>3, <1>11, <2>2 DEF LinkInv, BlankUnlessLive
      <3>2. x \notin dead
        BY <1>3, <3>1 DEF Usable
      <3>3. dependents'[x] = {} /\ (x \in Primaries => gc_dependents'[x] = {})
        BY <1>9, <3>1 DEF Blank
      <3> QED
        BY <1>3, <1>5, <1>6, <1>7, <1>8, <2>2, <3>1, <3>2, <3>3 DEF Blank
    <2> QED
      BY <2>1, <2>2
  <1>16. Ownership'
    <2>1. \A m \in Owned : links'[m] = {} /\ status'[m] \in {"absent", "ready", "instantiated", "freed"}
      BY <1>4, <1>5, <1>11 DEF LinkInv, Ownership
    <2>2. \A m \in Owned : Live(m)' <=> m \in links'[OwnedBy[m]]
      <3> SUFFICES ASSUME NEW m \in Owned PROVE Live(m)' <=> m \in links'[OwnedBy[m]]
        OBVIOUS
      <3>0. Live(m) <=> m \in links[OwnedBy[m]]
        BY DEF LinkInv, Ownership
      <3>1. CASE OwnedBy[m] = p
        BY <1>2, <1>3, <1>5, <1>11, <3>1
      <3>2. CASE OwnedBy[m] # p
        BY <1>3, <1>5, <1>11, <3>0, <3>2
      <3> QED
        BY <3>1, <3>2
    <2>3. \A m \in Owned : status'[OwnedBy[m]] \in {"absent", "ready"} => status'[m] = "absent"
      BY <1>3, <1>4, <1>11 DEF LinkInv, Ownership
    <2>4. \A q \in Primaries : \A m \in links'[q] \cap Owned : OwnedBy[m] = q /\ m \in modules'[q]
      BY <1>5, <1>11 DEF LinkInv, Ownership
    <2>5. \A q \in Primaries : \A m \in modules'[q] : OwnedBy[m] = q
      BY <1>5 DEF LinkInv, Ownership
    <2>6. \A q \in Primaries : q \notin links'[q]
      BY <1>5, <1>11 DEF LinkInv, Ownership
    <2>7. \A q \in Primaries : \A y \in links'[q] : status'[y] # "absent"
      <3> SUFFICES ASSUME NEW q \in Primaries, NEW y \in links'[q] PROVE status'[y] # "absent"
        OBVIOUS
      <3>1. y \in links[q] /\ y \in Contexts
        BY <1>2, <1>5, <1>11 DEF TypeOK
      <3>2. status[y] # "absent"
        BY <3>1 DEF LinkInv, Ownership
      <3> QED
        BY <1>4, <3>1, <3>2
    <2> QED
      BY <2>1, <2>2, <2>3, <2>4, <2>5, <2>6, <2>7 DEF Ownership
  <1>17. WantsLinked'
    <2> SUFFICES ASSUME NEW m \in Owned, Live(m)', wants'[m] # Null PROVE wants'[m] \in links'[OwnedBy[m]]
      BY DEF WantsLinked
    <2>1. m \notin gone /\ m \in Contexts
      BY <1>11
    <2>2. Live(m) /\ wants'[m] = wants[m] /\ OwnedBy[m] # p
      BY <1>3, <1>7, <1>11, <2>1
    <2> QED
      BY <1>5, <1>11, <2>2 DEF LinkInv, WantsLinked
  <1>18. Sharing'
    BY <1>3, <1>4, <1>11 DEF LinkInv, Sharing
  <1>19. \A x \in Contexts : Usable(x)' => \A y \in links[x] : Usable(y)'
    BY FreeSpares
  <1>20. Linked'
    <2> SUFFICES ASSUME NEW u \in Primaries, Usable(u)', NEW v \in links'[u] \cap Primaries
                 PROVE  status'[v] = "instantiated" /\ u \in dependents'[v]
      BY DEF Linked
    <2>1. u \in Contexts /\ v \in Contexts /\ Usable(u) /\ u \notin gone /\ v \in links[u]
      BY <1>5, <1>11, <1>13
    <2>2. v \notin gone
      BY <1>13, <1>19, <2>1
    <2> QED
      BY <1>4, <1>9, <2>1, <2>2 DEF LinkInv, Linked
  <1>21. SameFate'
    <2> SUFFICES ASSUME NEW u \in Primaries, NEW v \in links'[u] PROVE Usable(u)' <=> Usable(v)'
      BY DEF SameFate
    <2>1. u \in Contexts /\ u # p /\ v \in links[u]
      BY <1>5, <1>11
    <2> QED
      BY <1>19, <2>1, FreeSpares
  <1>22. Flat'
    <2> SUFFICES ASSUME NEW y \in Contexts, slot'[y].imported
                 PROVE  /\ slot'[y].import_ctx \in Contexts
                        /\ ~slot'[slot'[y].import_ctx].imported
                        /\ slot'[slot'[y].import_ctx].buf # Null \/ status'[slot'[y].import_ctx] = "freed"
      BY DEF Flat
    <2>1. y \notin gone /\ slot'[y] = slot[y]
      BY <1>6, SlotFacts
    <2>2. PICK z \in Contexts : z = slot[y].import_ctx
                                /\ ~slot[z].imported /\ (slot[z].buf # Null \/ status[z] = "freed")
      BY <2>1 DEF LinkInv, Flat
    <2>3. CASE z \in gone
      BY <1>4, <1>6, <2>1, <2>2, <2>3, SlotFacts
    <2>4. CASE z \notin gone
      BY <1>4, <1>6, <2>1, <2>2, <2>4
    <2> QED
      BY <2>3, <2>4
  <1>23. Unbound' /\ BindingSound'
    <2>1. \A q \in Primaries : status'[q] = "ready"
            => slot'[q] = NoSlot \/ (~slot'[q].imported /\ slot'[q].buf # Null)
      BY <1>4, <1>6, <1>11 DEF LinkInv, Unbound
    <2>2. \A q \in Primaries : status'[q] = "importing" /\ binding.to # q => slot'[q] = NoSlot
      BY <1>4, <1>6, <1>11 DEF LinkInv, Unbound
    <2>3. \A m \in Owned : /\ Pending(m)' /\ status'[OwnedBy[m]] \in {"importing", "finalizing"}
                           /\ binding.to # m
                           => slot'[m] = NoSlot
      <3> SUFFICES ASSUME NEW m \in Owned, Pending(m)', status'[OwnedBy[m]] \in {"importing", "finalizing"},
                          binding.to # m
                   PROVE  slot'[m] = NoSlot
        OBVIOUS
      <3>1. CASE m \in gone
        BY <1>6, <1>11, <3>1
      <3>2. CASE m \notin gone
        <4>1. Pending(m) /\ m \in Contexts
          BY <1>11, <1>12, <3>2
        <4>2. status[OwnedBy[m]] \in {"importing", "finalizing"}
          BY <1>4, <1>11
        <4> QED
          BY <1>6, <3>2, <4>1, <4>2 DEF LinkInv, Unbound
      <3> QED
        BY <3>1, <3>2
    <2> QED
      BY <1>3, <2>1, <2>2, <2>3 DEF Unbound, BindingSound
  <1>24. ASSUME NEW x \in Contexts, Usable(x)', slot[x].imported,
                NEW o \in Contexts, o = slot[x].import_ctx
         PROVE  Usable(o)' /\ Joined(Heap(x), Heap(o))'
    <2>1. Usable(o)
      BY <1>13, <1>24, UsableFacts DEF Holder
    <2>2. PICK h \in Primaries : h = Heap(x) /\ Usable(h)' /\ h \in Contexts /\ h # p /\ Usable(h) /\ h = Heap(x)'
      BY <1>11, <1>13, <1>24, FreeSpares, HeapFacts
    <2>3. Joined(h, Heap(o))
      BY <1>13, <1>24, <2>1, <2>2 DEF LinkInv, ImportsJoined
    <2>4. CASE h = Heap(o)
      <3>1. Usable(o)'
        BY <2>1, <2>2, <2>4, FreeSpares
      <3> QED
        BY <2>2, <2>4, <3>1 DEF Joined, Heap
    <2>5. CASE \E l \in links[h] : l \in Primaries /\ Heap(o) \in Class(l)
      <3>1. PICK l \in links[h] : l \in Primaries /\ Heap(o) \in Class(l)
        BY <2>5
      <3>2. l \in may_share_refs /\ Usable(l)'
        BY <1>19, <2>2, <3>1, UsableFacts
      <3>3. Usable(Heap(o))'
        BY <3>1, <3>2, FreeSpares
      <3>4. Usable(o)'
        BY <2>1, <3>3, FreeSpares
      <3>5. Heap(o) \in Class(l)'
        BY <1>10, <3>1, <3>2, FreeKeepsClass
      <3>6. l \in links'[h]
        BY <1>5, <2>2, <3>1
      <3>7. Joined(h, Heap(o))'
        BY <3>1, <3>5, <3>6 DEF Joined, Heap
      <3> QED
        BY <2>2, <3>4, <3>7 DEF Heap
    <2> QED
      BY <2>3, <2>4, <2>5 DEF Joined
  <1>25. ASSUME NEW x \in Contexts, Usable(x)', NEW o, o = Holder(x) PROVE o \in Contexts /\ Usable(o)'
    <2>1. o \in Contexts
      BY <1>13, <1>25, UsableFacts
    <2> QED
      BY <1>24, <1>25, <2>1 DEF Holder
  <1>26. BoundCurrent'
    <2> SUFFICES ASSUME NEW x \in Contexts, Usable(x)', Bound(x)' PROVE Current(x)'
      BY DEF BoundCurrent
    <2>1. Usable(x) /\ Bound(x) /\ x \notin gone
      BY <1>12, <1>13
    <2>2. PICK o \in Contexts : o = Holder(x) /\ o = Holder(x)' /\ Usable(o)'
      BY <1>11, <1>25, <2>1
    <2>3. slot[x].buf = <<o, version[o]>> /\ slot'[x] = slot[x] /\ version'[o] = version[o]
      BY <1>6, <1>8, <1>13, <2>1, <2>2 DEF LinkInv, BoundCurrent, Current
    <2> QED
      BY <2>2, <2>3 DEF Current
  <1>27. BoundKnown'
    <2> SUFFICES ASSUME NEW x \in Contexts, Usable(x)', Bound(x)', slot'[x].imported
                 PROVE  x \in dependents'[slot'[x].import_ctx]
      BY DEF BoundKnown
    <2>1. Usable(x) /\ Bound(x) /\ x \notin gone /\ slot'[x] = slot[x]
      BY <1>6, <1>12, <1>13
    <2>2. PICK o : o = slot[x].import_ctx
      OBVIOUS
    <2>3. o \in Contexts /\ o \notin gone /\ x \in dependents[o]
      BY <1>13, <1>25, <2>1, <2>2 DEF Holder, LinkInv, BoundKnown
    <2> QED
      BY <1>9, <2>1, <2>2, <2>3
  <1>28. FreedOnce'
    BY <1>6, <1>8, <1>11 DEF LinkInv, FreedOnce
  <1>29. ASSUME NEW x \in Contexts, Usable(x)', NEW y \in dependents'[x]
         PROVE  y \in Contexts /\ y \in dependents[x] /\ Usable(y)' /\ Consumer(x, y)'
    <2>1. Usable(x) /\ x # p /\ x \notin gone /\ y \in Contexts /\ y \in dependents[x] /\ y \notin gone /\ Usable(Heap(x))'
      BY <1>9, <1>13, <1>29, FreeSpares
    <2>2. Consumer(x, y) /\ Usable(y)
      BY <2>1, EdgeJoins DEF LinkInv, ListsSound
    <2>3. slot'[y] = slot[y] /\ links'[y] = links[y]
      BY <1>3, <1>5, <1>6, <2>1
    <2>4. Consumer(x, y)'
      BY <2>2, <2>3 DEF Consumer
    <2>5. Heap(x) \in Contexts /\ Heap(x) \notin dead /\ Heap(x) \in Primaries /\ x \notin dead
      BY <1>13, <1>29, <2>1, HeapFacts
    <2>6. y \notin dead
      <3> SUFFICES ASSUME y \in dead PROVE FALSE
        OBVIOUS
      <3>1. /\ Heap(y) \in dead
            /\ \A z \in dead : links[z] \subseteq dead
            /\ \A z \in dead : z \in Primaries => Class(z) \subseteq dead
        BY <1>1, <1>2, DomainFacts DEF Dead, Usable
      <3>2. CASE x \in links[y]
        BY <2>5, <3>1, <3>2
      <3>3. CASE slot[y].imported /\ slot[y].import_ctx = x
        <4>1. Joined(Heap(y), Heap(x))
          BY <2>1, <2>2, <3>3 DEF LinkInv, ImportsJoined
        <4> QED
          BY <2>5, <3>1, <4>1 DEF Joined
      <3> QED
        BY <2>2, <3>2, <3>3 DEF Consumer
    <2> QED
      BY <1>3, <2>1, <2>2, <2>4, <2>6
  <1>30. ASSUME NEW h \in Primaries, Usable(h)', NEW y \in gc_dependents'[h]
         PROVE  \E o \in Contexts : Heap(o) = h /\ y \in dependents'[o] /\ Usable(o)'
    <2>1. Usable(h) /\ h # p /\ h \in Contexts /\ Heap(h) = h /\ y \in gc_dependents[h]
      BY <1>9, <1>11, <1>13, <1>30
    <2>2. PICK o \in Contexts : Heap(o) = h /\ y \in dependents[o]
      BY <2>1 DEF LinkInv, ListsSound
    <2>3. y \in dependents'[o]
      BY <1>9, <1>30, <2>1, <2>2
    <2>4. Live(o)
      BY <2>2 DEF LinkInv, BlankUnlessLive, Blank
    <2>5. o = h \/ o \in links[h]
      BY <2>2, <2>4, HeapFacts DEF LinkInv, Ownership, Contexts
    <2>6. Usable(o)
      BY <2>1, <2>5, UsableFacts
    <2>7. Usable(o)'
      BY <1>30, <2>2, <2>6, FreeSpares
    <2> QED
      BY <2>2, <2>3, <2>7
  <1>31. ListsSound'
    BY <1>11, <1>29, <1>30 DEF ListsSound
  <1>32. Intact'
    <2> SUFFICES ASSUME NEW x \in Contexts, Usable(x)',
                        NEW y \in links'[x] \cup dependents'[x] \cup gc_dependents'[Heap(x)] \cup {Holder(x)'} \cup refs'[x]
                 PROVE  Usable(y)'
      BY <1>11 DEF Intact
    <2>1. x \notin gone /\ x # p /\ Holder(x)' = Holder(x) /\ links'[x] = links[x] /\ refs'[x] = refs[x]
      BY <1>5, <1>7, <1>11, <1>13
    <2>2. Heap(x) \in Primaries /\ Usable(Heap(x))'
      BY FreeSpares, HeapFacts
    <2>3. CASE y \in links[x]
      BY <1>19, <2>3
    <2>4. CASE y \in dependents'[x]
      BY <1>29, <2>4
    <2>5. CASE y \in gc_dependents'[Heap(x)]
      BY <1>29, <1>30, <2>2, <2>5
    <2>6. CASE y = Holder(x)
      BY <1>25, <2>6
    <2>7. CASE y \in refs[x]
      BY <2>7, FreeSpares
    <2> QED
      BY <2>1, <2>3, <2>4, <2>5, <2>6, <2>7
  <1>33. ImportsJoined'
    <2> SUFFICES ASSUME NEW x \in Contexts, Usable(x)', slot'[x].imported
                 PROVE  Joined(Heap(x), Heap(slot[x].import_ctx))'
      BY DEF ImportsJoined
    <2>1. slot'[x] = slot[x]
      BY <1>6, <1>13
    <2>2. PICK o : o = slot[x].import_ctx /\ o = slot'[x].import_ctx
      BY <2>1
    <2>3. o \in Contexts
      BY <1>25, <2>1, <2>2 DEF Holder
    <2>4. Joined(Heap(x), Heap(o))'
      BY <1>24, <2>1, <2>2, <2>3
    <2> QED
      BY <2>2, <2>4
  <1>34. RefsJoined'
    <2> SUFFICES ASSUME NEW x \in Contexts, Usable(x)', NEW y \in refs'[x]
                 PROVE  Heap(x) \in may_share_refs' /\ Near(Heap(x), y)'
      BY DEF RefsJoined, Heap
    <2>1. Usable(x) /\ y \in refs[x] /\ y \in Contexts /\ Usable(y)' /\ y \notin gone
      BY <1>2, <1>7, <1>13, FreeSpares DEF TypeOK
    <2>2. PICK h \in Primaries : h = Heap(x) /\ h \in Contexts /\ Usable(h)' /\ h \in may_share_refs /\ Near(h, y)
      BY <2>1, FreeSpares, HeapFacts DEF LinkInv, RefsJoined
    <2>3. h \in may_share_refs' /\ Class(h) \subseteq Class(h)'
      BY <1>3, <1>10, <1>13, <2>2, FreeKeepsClass
    <2>4. /\ y \in has_objects => y \in has_objects'
          /\ \A l \in Bonds[y] : l \notin gone => l \in Bonds'[y]
      BY <1>3, <1>5, <1>7, <2>1 DEF Bonds
    <2>5. \A l \in Class(h) : l \in Contexts /\ l \notin gone
      BY <1>2, <1>13, <2>2, ClassFacts, FreeSpares
    <2>6. Near(h, y)'
      BY <2>2, <2>3, <2>4, <2>5 DEF Near, Heap
    <2> QED
      BY <2>2, <2>3, <2>6 DEF Heap
  <1>35. Tied'
    <2> SUFFICES ASSUME NEW y \in Contexts, NEW z \in bridged'[y]
                 PROVE  /\ Giver(y, z)' /\ (Usable(y)' <=> Usable(z)')
                        /\ Usable(y)' => z \in PoisonDomain(y)' /\ y \in PoisonDomain(z)'
      BY DEF Tied
    <2>1. y \notin gone /\ z \in bridged[y] /\ z \notin gone /\ z \in Contexts
      BY <1>7
    <2>2. Giver(y, z)
      BY <2>1 DEF LinkInv, Tied
    <2>3. Giver(y, z)'
      BY <1>3, <1>11, <2>1, <2>2 DEF Giver
    <2>4. Usable(y)' <=> Usable(z)'
      BY <1>3, <2>1, FreeSpares
    <2>5. ASSUME Usable(y)' PROVE PoisonDomain(z)' = PoisonDomain(y)'
      <3>1. y \in Contexts \ poisoned'
        BY <2>5 DEF Usable
      <3> QED
        BY <3>1 DEF Free
    <2>6. y \in PoisonDomain(y)' /\ z \in PoisonDomain(z)'
      BY <2>1, ClosureSelf DEF PoisonDomain
    <2> QED
      BY <2>3, <2>4, <2>5, <2>6
  <1> QED
    BY <1>10, <1>14, <1>15, <1>16, <1>17, <1>18, <1>20, <1>21, <1>22, <1>23, <1>26, <1>27, <1>28, <1>31, <1>32,
       <1>33, <1>34, <1>35 DEF LinkInv
-----------------------------------------------------------------------------
(* The link domain is the same for all who are in it, and the dependents   *)
(* of heaps add nothing to it.                                             *)
LEMMA DomainIsClosed == LinkInv => OneDomain
  <1> SUFFICES ASSUME LinkInv, NEW p \in Primaries, Usable(p)
               PROVE  /\ GcDomain(p) = PoisonDomain(p)
                      /\ \A q \in PoisonDomain(p) \cap Primaries : Usable(q) => PoisonDomain(q) = PoisonDomain(p)
    BY DEF OneDomain
  <1> DEFINE E == [y \in Contexts |-> links[y] \cup dependents[y]]
             F == [y \in Contexts |-> links[y] \cup dependents[y] \cup gc_dependents[Heap(y)]]
  <1>0. TypeOK /\ p \in Contexts /\ Heap(p) = p /\ E \in Graph /\ F \in Graph
    BY HeapFacts DEF LinkInv, TypeOK, Graph
  <1>1. PICK D : D = PoisonDomain(p)
    OBVIOUS
  <1>2. /\ p \in D /\ D \subseteq Contexts
        /\ \A y \in D : Usable(y) /\ Heap(y) \in D
        /\ \A y \in D : links[y] \subseteq D /\ dependents[y] \subseteq D
    BY <1>1, DomainFacts
  <1>3. ASSUME NEW y \in D PROVE gc_dependents[Heap(y)] \subseteq D
    <2>1. PICK h \in Primaries : h = Heap(y) /\ h \in D /\ Usable(h)
      BY <1>2, <1>3, HeapFacts
    <2> SUFFICES ASSUME NEW z \in gc_dependents[h] PROVE z \in D
      BY <2>1
    <2>2. PICK o \in Contexts : Heap(o) = h /\ z \in dependents[o]
      BY <2>1 DEF LinkInv, ListsSound
    <2>3. Live(o)
      BY <2>2 DEF LinkInv, BlankUnlessLive, Blank
    <2>4. o = h \/ o \in links[h]
      BY <2>2, <2>3, HeapFacts DEF LinkInv, Ownership, Contexts
    <2> QED
      BY <1>2, <2>1, <2>2, <2>4
  <1>4. GcDomain(p) = D
    <2>1. Closure(F, p) \subseteq D
      <3>1. D \in SUBSET Contexts /\ \A z \in D : F[z] \subseteq D
        BY <1>2, <1>3
      <3> HIDE DEF F
      <3> QED
        BY <1>2, <3>1, ClosureLeast
    <2>2. Closure(E, p) \subseteq Closure(F, p)
      <3>1. \A z \in Contexts : E[z] \subseteq F[z]
        OBVIOUS
      <3> HIDE DEF E, F
      <3> QED
        BY <1>0, <3>1, ClosureMono
    <2> QED
      BY <1>1, <2>1, <2>2 DEF GcDomain, PoisonDomain
  <1>5. \A z \in D : p \in PoisonDomain(Heap(z))
    <2> DEFINE S == {z \in D : p \in PoisonDomain(Heap(z))}
    <2>1. p \in S /\ S \in SUBSET Contexts
      BY <1>0, <1>1, <1>2
    <2>2. ASSUME NEW z \in S, NEW w \in E[z] PROVE w \in S
      <3>1. /\ z \in D /\ z \in Contexts /\ Usable(z) /\ w \in links[z] \cup dependents[z]
            /\ w \in D /\ w \in Contexts /\ Usable(w) /\ p \in PoisonDomain(Heap(z))
        BY <1>2, <2>2
      <3>2. PICK k \in Primaries : k = Heap(w) /\ Usable(k) /\ k \in Contexts
        BY <3>1, HeapFacts, UsableFacts
      <3>3. PICK W : W = PoisonDomain(k)
        OBVIOUS
      <3>4. /\ k \in W /\ \A y \in W : Heap(y) \in W
            /\ \A y \in W : links[y] \subseteq W
            /\ \A u \in Primaries : \A l \in links[u] : l \in W => u \in W
            /\ \A y \in W : y \in Primaries => Class(y) \subseteq W
        BY <3>2, <3>3, DomainFacts
      <3>5. w \in W
        BY <3>1, <3>2, <3>4, UsableFacts, HeapFacts DEF Contexts
      <3>6. Heap(z) \in W
        <4>1. CASE w \in links[z]
          <5>1. z \in Primaries
            BY <3>1, <4>1 DEF LinkInv, Ownership, Contexts
          <5> QED
            BY <3>4, <3>5, <4>1, <5>1
        <4>2. CASE w \in dependents[z]
          <5>1. Consumer(z, w)
            BY <3>1, <4>2 DEF LinkInv, ListsSound
          <5>2. CASE z \in links[w]
            BY <3>4, <3>5, <5>2
          <5>3. CASE slot[w].imported /\ slot[w].import_ctx = z
            <6>1. Joined(k, Heap(z))
              BY <3>1, <3>2, <5>3 DEF LinkInv, ImportsJoined
            <6> QED
              BY <3>4, <6>1 DEF Joined
          <5> QED
            BY <5>1, <5>2, <5>3 DEF Consumer
        <4> QED
          BY <3>1, <4>1, <4>2
      <3>7. PoisonDomain(Heap(z)) \subseteq W
        <4> HIDE DEF E
        <4> QED
          BY <1>0, <3>3, <3>6, ClosureTrans DEF PoisonDomain, E
      <3> QED
        BY <3>1, <3>2, <3>3, <3>7
    <2>3. Closure(E, p) \subseteq S
      <3> HIDE DEF E, S
      <3> QED
        BY <2>1, <2>2, ClosureLeast
    <2> QED
      BY <1>1, <2>3 DEF PoisonDomain
  <1>6. ASSUME NEW q \in D \cap Primaries PROVE PoisonDomain(q) = D
    <2>1. q \in Contexts /\ p \in PoisonDomain(q)
      BY <1>5, <1>6, HeapFacts
    <2>2. p \in Closure(E, q) /\ q \in Closure(E, p)
      BY <1>1, <2>1 DEF PoisonDomain
    <2>3. Closure(E, q) = Closure(E, p)
      <3> HIDE DEF E
      <3>1. Closure(E, q) \subseteq Closure(E, p)
        BY <1>0, <2>2, ClosureTrans
      <3>2. Closure(E, p) \subseteq Closure(E, q)
        BY <1>0, <2>2, ClosureTrans
      <3> QED
        BY <3>1, <3>2
    <2> QED
      BY <1>1, <2>3 DEF PoisonDomain
  <1> QED
    BY <1>1, <1>4, <1>6

(* A host object is given to a context that is firmly linked, or it ties   *)
(* the two, who are in each other's link domain.                           *)
LEMMA GiveObjectStep ==
    ASSUME LinkInv, NEW p \in Primaries, NEW q \in Primaries, GiveObject(p, q)
    PROVE  LinkInv'
  <1>0. TypeOK /\ p \in Contexts /\ q \in Contexts /\ Heap(p) = p /\ Heap(q) = q
    BY HeapFacts DEF LinkInv
  <1>1. /\ Usable(p) /\ p \in has_objects \cup may_share_refs /\ q \in PoisonDomain(p)
        /\ HasCode(q) /\ q \notin poisoned /\ refs' = [refs EXCEPT ![q] = @ \cup {p}]
    BY DEF GiveObject, Runs
  <1>2. UNCHANGED <<status, poisoned, may_share_refs, links, dependents, gc_dependents,
                    slot, version, wants, binding, stack, modules, has_objects, severed>>
    BY DEF GiveObject, flags, registry, buffers
  <1>3. q \in may_share_refs /\ Live(q) /\ Usable(q) /\ Live(p)
    BY <1>1 DEF LinkInv, Sharing, HasCode, Live, Usable
  <1>4. p \in PoisonDomain(q) /\ Giver(p, q)
    <2>1. PoisonDomain(q) = PoisonDomain(p)
      BY <1>1, <1>3, DomainIsClosed DEF OneDomain
    <2>2. p \in PoisonDomain(p)
      BY <1>0, ClosureSelf DEF PoisonDomain
    <2> QED
      BY <1>1, <1>3, <2>1, <2>2 DEF Giver
  <1>5. /\ bridged' \in [Contexts -> SUBSET Contexts]
        /\ \A x \in Contexts : bridged[x] \subseteq bridged'[x] /\ (bridged'[x] # bridged[x] => x = p)
        /\ \A x \in Contexts : \A z \in bridged'[x] : z \in bridged[x] \/ (x = p /\ z = q)
        /\ q \notin FirmDomain(p) => q \in bridged'[p]
    BY <1>0 DEF GiveObject, TypeOK
  <1>6. TypeOK'
    <2>1. refs' \in [Contexts -> SUBSET Contexts]
      BY <1>0, <1>1 DEF TypeOK
    <2> QED
      BY <1>0, <1>2, <1>5, <2>1 DEF TypeOK
  <1>7. Near(q, p)'
    <2>1. CASE q \in FirmDomain(p)
      <3>1. Near(q, p)
        BY <1>1, <1>3, <2>1, FirmDomainFacts
      <3>2. Class(q) \subseteq Class(q)'
        BY <1>0, <1>2, <1>5, <1>6, StateKept
      <3>3. Bonds[p] \subseteq Bonds'[p]
        BY <1>0, <1>2, <1>5 DEF Bonds
      <3> QED
        BY <1>2, <3>1, <3>2, <3>3 DEF Near, Heap
    <2>2. CASE q \notin FirmDomain(p)
      <3>1. q \in Bonds'[p] /\ q \in Class(q)'
        BY <1>0, <1>5, <1>6, <2>2, NextClassFacts DEF Bonds
      <3>2. CASE p \in has_objects
        BY <1>2, <3>1, <3>2 DEF Near, Heap
      <3>3. CASE p \in may_share_refs
        <4>1. p \in Class(q)'
          BY <1>0, <1>2, <1>3, <1>6, <3>1, <3>3, NextClassFacts
        <4> QED
          BY <1>0, <4>1 DEF Near, Heap
      <3> QED
        BY <1>1, <3>2, <3>3
    <2> QED
      BY <2>1, <2>2
  <1>8. /\ refs' \in [Contexts -> SUBSET Contexts]
        /\ \A x \in Contexts : refs'[x] # refs[x] => x = q
        /\ \A x \in Contexts : \A y \in refs'[x] : y \in refs[x] \/ (x = q /\ y = p)
    BY <1>0, <1>1 DEF TypeOK
  <1>9. \A x \in Contexts : \A y \in refs'[x] :
           y \in refs[x] \/ (Usable(y) /\ Heap(x) \in may_share_refs /\ Near(Heap(x), y)')
    BY <1>0, <1>1, <1>3, <1>7, <1>8 DEF Near, Heap
  <1>10. \A y \in Contexts : \A z \in bridged'[y] :
            \/ z \in bridged[y]
            \/ /\ Giver(y, z) /\ Usable(y) /\ Usable(z)
               /\ z \in PoisonDomain(y) /\ y \in PoisonDomain(z)
    BY <1>1, <1>3, <1>4, <1>5
  <1>11. \A x \in Contexts : refs'[x] # refs[x] \/ bridged'[x] # bridged[x] => Live(x)
    BY <1>3, <1>5, <1>8
  <1> QED
    BY <1>2, <1>5, <1>8, <1>9, <1>10, <1>11, RefsStep
-----------------------------------------------------------------------------
(* Every step that severs nothing keeps the invariant. *)
LEMMA NextStep == LinkInv /\ [Next]_vars /\ ~severed' => LinkInv'
  <1> SUFFICES ASSUME LinkInv, [Next]_vars, ~severed' PROVE LinkInv'
    OBVIOUS
  <1>1. CASE UNCHANGED vars
    BY <1>1, StutterStep
  <1>2. ASSUME NEW p \in Primaries, NEW own \in BOOLEAN, NewContext(p, own) PROVE LinkInv'
    BY <1>2, NewContextStep
  <1>3. ASSUME NEW p \in Primaries, NEW m \in Owned, LinkModule(p, m) PROVE LinkInv'
    BY <1>3, LinkModuleStep
  <1>4. ASSUME NEW p \in Primaries, NEW q \in Primaries, LinkContext(p, q) PROVE LinkInv'
    BY <1>4, LinkContextStep
  <1>5. ASSUME NEW p \in Primaries, NEW q \in Primaries, LinkContextOutOfMemory(p, q) PROVE LinkInv'
    BY <1>5, LinkContextOutOfMemoryStep
  <1>6. ASSUME NEW p \in Primaries, NEW made \in SUBSET modules[p], NEW objects \in BOOLEAN,
               NEW want \in [made -> links[p] \cup made \cup {Null}], CreateOwned(p, made, want, objects)
        PROVE  LinkInv'
    BY <1>6, CreateOwnedStep
  <1>7. ASSUME NEW p \in Primaries, NEW l \in links[p], ImportPrimary(p, l) PROVE LinkInv'
    BY <1>7, ImportPrimaryStep
  <1>8. ASSUME NEW p \in Primaries, NEW m \in Owned, ImportOwned(p, m) PROVE LinkInv'
    BY <1>8, ImportOwnedStep
  <1>9. ASSUME NEW p \in Primaries, RegisterImporter(p) PROVE LinkInv'
    BY <1>9, RegisterImporterStep
  <1>10. ASSUME NEW p \in Primaries, RegisterImporterFails(p) PROVE LinkInv'
    BY <1>10, RegisterImporterFailsStep
  <1>11. ASSUME NEW p \in Primaries, BeginStart(p) PROVE LinkInv'
    BY <1>11, BeginStartStep
  <1>12. ASSUME NEW p \in Primaries, FinishInstantiate(p) PROVE LinkInv'
    BY <1>12, FinishInstantiateStep
  <1>13. ASSUME NEW p \in Primaries, InstantiateFails(p) PROVE LinkInv'
    BY <1>13, InstantiateFailsStep
  <1>14. ASSUME NEW p \in Primaries, Run(p) PROVE LinkInv'
    BY <1>14, RunStep
  <1>15. ASSUME NEW p \in Primaries, HostObject(p) PROVE LinkInv'
    BY <1>15, HostObjectStep
  <1>16. ASSUME NEW p \in Primaries, NEW q \in Primaries, GiveObject(p, q) PROVE LinkInv'
    BY <1>16, GiveObjectStep
  <1>17. ASSUME NEW p \in Primaries, NEW f \in Contexts, Grow(p, f) PROVE LinkInv'
    BY <1>17, GrowStep
  <1>18. ASSUME NEW p \in Primaries, Free(p) PROVE LinkInv'
    BY <1>18, FreeStep
  <1> QED
    BY <1>1, <1>2, <1>3, <1>4, <1>5, <1>6, <1>7, <1>8, <1>9, <1>10, <1>11, <1>12, <1>13, <1>14, <1>15,
       <1>16, <1>17, <1>18 DEF Next

(* What code may refer to is firmly linked, so collections find it. *)
LEMMA InvolvedIsTraced == LinkInv => \A p \in Primaries : Usable(p) /\ HasCode(p) => Traced(p)
  <1> SUFFICES ASSUME LinkInv, NEW p \in Primaries, Usable(p), HasCode(p), NEW x \in Involved(p)
               PROVE  Heap(x) \in GcDomain(p) /\ (HasCode(x) => Heap(x) \in may_share_refs)
    BY DEF Traced
  <1>1. p \in may_share_refs /\ x \in Contexts /\ Usable(x) /\ Near(p, x)
    BY InvolvedFacts
  <1>2. PICK D : D = PoisonDomain(p)
    OBVIOUS
  <1>3. /\ p \in D
        /\ \A z \in Primaries : \A l \in links[z] : l \in D => z \in D
        /\ Class(p) \subseteq D /\ \A y \in D : PoisonDomain(y) \subseteq D
    BY <1>2, DomainFacts
  <1>4. GcDomain(p) = D
    BY <1>2, DomainIsClosed DEF OneDomain
  <1>5. Heap(x) \in D
    <2>1. CASE Heap(x) \in Class(p)
      BY <1>3, <2>1
    <2>2. CASE x \in has_objects /\ \E l \in Bonds[x] : l \in Primaries /\ l \in Class(p)
      <3>1. x \in Primaries /\ Heap(x) = x
        BY <2>2, HeapFacts DEF LinkInv, TypeOK
      <3>2. PICK l \in Bonds[x] : l \in D
        BY <1>3, <2>2
      <3>3. CASE l \in bridged[x]
        BY <1>1, <1>3, <3>1, <3>2, <3>3 DEF LinkInv, Tied
      <3> QED
        BY <1>1, <1>3, <3>1, <3>2, <3>3 DEF Bonds
    <2> QED
      BY <1>1, <2>1, <2>2 DEF Near
  <1>6. HasCode(x) => Heap(x) \in may_share_refs
    BY <1>1, CodeNear
  <1> QED
    BY <1>4, <1>5, <1>6
-----------------------------------------------------------------------------
(* Once severed, contexts stay so. *)
LEMMA SeveredForGood == severed /\ [Next]_vars => severed'
  <1> SUFFICES ASSUME severed, [Next]_vars PROVE severed'
    OBVIOUS
  <1>1. CASE UNCHANGED vars
    BY <1>1 DEF vars, bridges
  <1>2. ASSUME NEW p \in Primaries, NEW own \in BOOLEAN, NewContext(p, own) PROVE severed'
    BY <1>2 DEF NewContext, bridges
  <1>3. ASSUME NEW p \in Primaries, NEW m \in Owned, LinkModule(p, m) PROVE severed'
    BY <1>3 DEF LinkModule, bridges
  <1>4. ASSUME NEW p \in Primaries, NEW q \in Primaries, LinkContext(p, q) PROVE severed'
    BY <1>4 DEF LinkContext, bridges
  <1>5. ASSUME NEW p \in Primaries, NEW q \in Primaries, LinkContextOutOfMemory(p, q) PROVE severed'
    BY <1>5 DEF LinkContextOutOfMemory, bridges
  <1>6. ASSUME NEW p \in Primaries, NEW made, NEW want, NEW objects, CreateOwned(p, made, want, objects) PROVE severed'
    BY <1>6 DEF CreateOwned, Create, bridges
  <1>7. ASSUME NEW p \in Primaries, NEW l, ImportPrimary(p, l) PROVE severed'
    BY <1>7 DEF ImportPrimary, Mark, bridges
  <1>8. ASSUME NEW p \in Primaries, NEW m, ImportOwned(p, m) PROVE severed'
    BY <1>8 DEF ImportOwned, Mark, bridges
  <1>9. ASSUME NEW p \in Primaries, RegisterImporter(p) PROVE severed'
    BY <1>9 DEF RegisterImporter, bridges
  <1>10. ASSUME NEW p \in Primaries, RegisterImporterFails(p) PROVE severed'
    BY <1>10 DEF RegisterImporterFails, Fail, bridges
  <1>11. ASSUME NEW p \in Primaries, BeginStart(p) PROVE severed'
    BY <1>11 DEF BeginStart, bridges
  <1>12. ASSUME NEW p \in Primaries, FinishInstantiate(p) PROVE severed'
    BY <1>12 DEF FinishInstantiate, bridges
  <1>13. ASSUME NEW p \in Primaries, InstantiateFails(p) PROVE severed'
    BY <1>13 DEF InstantiateFails, Fail, bridges
  <1>14. ASSUME NEW p \in Primaries, Run(p) PROVE severed'
    BY <1>14 DEF Run, bridges
  <1>15. ASSUME NEW p \in Primaries, HostObject(p) PROVE severed'
    BY <1>15 DEF HostObject, bridges
  <1>16. ASSUME NEW p \in Primaries, NEW q, GiveObject(p, q) PROVE severed'
    BY <1>16 DEF GiveObject
  <1>17. ASSUME NEW p \in Primaries, NEW f, Grow(p, f) PROVE severed'
    BY <1>17 DEF Grow, bridges
  <1>18. ASSUME NEW p \in Primaries, Free(p) PROVE severed'
    BY <1>18 DEF Free
  <1> QED
    BY <1>1, <1>2, <1>3, <1>4, <1>5, <1>6, <1>7, <1>8, <1>9, <1>10, <1>11, <1>12, <1>13, <1>14, <1>15,
       <1>16, <1>17, <1>18 DEF Next

(* Until a free severs contexts that were tied by an object given across a *)
(* bridge only, the invariant holds.                                       *)
THEOREM LinkInvariant == Spec => [](~severed => LinkInv)
  <1>1. Init => LinkInv
    BY InitInv
  <1>2. (severed \/ LinkInv) /\ [Next]_vars => (severed \/ LinkInv)'
    BY NextStep, SeveredForGood
  <1> QED
    BY <1>1, <1>2, PTL DEF Spec

(* Until then, the variables keep their types. *)
THEOREM LinkTypeCorrect == Spec => [](~severed => TypeOK)
  <1>1. LinkInv => TypeOK
    BY DEF LinkInv
  <1> QED
    BY <1>1, LinkInvariant, PTL

(* Provided that no context that shared nothing was freed while it was the *)
(* only connection of a host object's context and of one that was given    *)
(* the object (the hypothesis in NoDangling): a context that is not        *)
(* poisoned knows no context that is freed or poisoned                     *)
(* (wah_free_exec_context, wah_poison_link_domain).                        *)
THEOREM NoneDangles == Spec => []NoDangling
  <1>1. (~severed => LinkInv) => NoDangling
    BY DEF LinkInv, NoDangling
  <1> QED
    BY <1>1, LinkInvariant, PTL

(* Until then, executing contexts hold the current buffer of whatever they *)
(* import (wah_propagate_memory_import_aliases reaches every alias).       *)
THEOREM AliasesKept == Spec => [](~severed => AliasesCurrent)
  <1>1. LinkInv => AliasesCurrent
    <2> SUFFICES ASSUME LinkInv, NEW x \in Contexts, Usable(x), HasCode(x) PROVE Current(x)
      BY DEF AliasesCurrent, Current
    <2>1. Bound(x)
      BY DEF LinkInv, Ownership, HasCode, Bound
    <2> QED
      BY <2>1 DEF LinkInv, BoundCurrent
  <1> QED
    BY <1>1, LinkInvariant, PTL

(* Until then, a context frees only the buffer that was allocated for it   *)
(* (wah_free_exec_context and the failure paths of wah_instantiate).       *)
THEOREM BuffersFreedOnce == Spec => [](~severed => FreedOnce)
  <1>1. LinkInv => FreedOnce
    BY DEF LinkInv
  <1> QED
    BY <1>1, LinkInvariant, PTL

(* Until then, poisoning and collecting visit the same contexts, from      *)
(* wherever they start (wah_poison_link_domain, wah_gc_collect_domain).    *)
THEOREM DomainIsOne == Spec => [](~severed => OneDomain)
  <1>1. LinkInv => OneDomain
    BY DomainIsClosed
  <1> QED
    BY <1>1, LinkInvariant, PTL

(* Provided the same (the hypothesis in ReferencesTraced): a collection    *)
(* visits all that code may refer to (may_share_refs in                    *)
(* wah_gc_enumerate_roots).                                                *)
THEOREM RefsAreTraced == Spec => []ReferencesTraced
  <1>1. (~severed => LinkInv) => ReferencesTraced
    BY InvolvedIsTraced DEF ReferencesTraced
  <1> QED
    BY <1>1, LinkInvariant, PTL
=============================================================================
