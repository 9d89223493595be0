---------------------------- MODULE LinkDomain -----------------------------
(***************************************************************************)
(* Linking, instantiating and freeing execution contexts.                  *)
(*                                                                         *)
(* A context made by the host (a primary) is linked with instantiated      *)
(* contexts (wah_link_context) and with modules (wah_link_module); the     *)
(* latter get contexts that the primary owns.  Providers know their        *)
(* consumers through two lists: dependents, and the gc_dependents of their *)
(* heap, which owned contexts share with their primary.                    *)
(*                                                                         *)
(* Each context has one memory slot, which stands for its memories and     *)
(* tables: a buffer of its own, or an alias of the buffer of another       *)
(* context that is named in import_ctx.  A buffer is replaced when it      *)
(* grows.  refs records which contexts the tables, globals and objects of  *)
(* a context may refer to; executing code makes it as large as it can get. *)
(*                                                                         *)
(* Everything up to may_share_refs = true happens without calling the      *)
(* host; start functions do call it, so other contexts may be used, linked *)
(* and instantiated in between.  The contexts being instantiated form a    *)
(* stack.  A freed context is not created again.                           *)
(***************************************************************************)
EXTENDS Naturals, Sequences, FiniteSets

CONSTANTS Primaries,  \* contexts that the host creates
          Owned,      \* contexts of modules linked with wah_link_module
          OwnedBy,    \* the primary that an owned context belongs to
          Null,
          ObjectsIn,  \* bound: contexts that have objects before they share any
          Storing,    \* bound: contexts whose code stores references
          MaxGrowth   \* bound: no buffer grows after one grew this often

ASSUME LinkAssumption ==
    /\ IsFiniteSet(Primaries) /\ IsFiniteSet(Owned)
    /\ Primaries \cap Owned = {}
    /\ OwnedBy \in [Owned -> Primaries]
    /\ Null \notin Primaries \cup Owned
    /\ Null \notin (Primaries \cup Owned) \X Nat
    /\ ObjectsIn \subseteq Primaries /\ Storing \subseteq Primaries
    /\ MaxGrowth \in Nat

Contexts == Primaries \cup Owned

VARIABLES status,         \* how far a context got
          poisoned, may_share_refs,  \* contexts with that flag
          has_objects,    \* contexts that share nothing, but have objects
          modules,        \* owned contexts wanted by wah_link_module
          links,          \* contexts of linked_modules
          dependents, gc_dependents,
          slot,           \* the memory slot
          wants,          \* the link that the slot of an owned context imports
          version,        \* of the buffer of each context
          refs,           \* ghost: whose functions and objects may be stored
          bridged,        \* ghost: who was given objects of a context across a bridge
          severed,        \* ghost: a free took such a bridge away
          binding,        \* the slot being bound, and from which context
          stack           \* contexts being instantiated, the innermost last

registry == <<dependents, gc_dependents>>
bridges  == <<bridged, severed>>
flags    == <<poisoned, may_share_refs, has_objects>>
buffers  == <<slot, version>>
vars == <<status, flags, modules, links, registry, buffers, wants, refs, bridges, binding, stack>>

Statuses == {"absent", "ready", "importing", "finalizing", "starting",
             "instantiated", "failed", "freed"}
NoSlot   == [imported |-> FALSE, import_ctx |-> Null, buf |-> Null]
Own(x)   == [imported |-> FALSE, import_ctx |-> Null, buf |-> <<x, 0>>]
Slots    == [imported : BOOLEAN, import_ctx : Contexts \cup {Null},
             buf : (Contexts \X (0..MaxGrowth)) \cup {Null}]
NoBinding == [to |-> Null, from |-> Null]

Live(x)   == status[x] \notin {"absent", "freed"}
Usable(x) == Live(x) /\ x \notin poisoned
HasCode(x) == status[x] \in {"starting", "instantiated"}

(* The context with whose heap x allocates: ictx->gc is ctx->gc. *)
Heap(x) == IF x \in Owned THEN OwnedBy[x] ELSE x

(* What is reached from x in any number of steps of a relation: the least  *)
(* set of contexts with x that is closed under it.                         *)
Closure(E, x) ==
    LET closed == {S \in SUBSET Contexts : x \in S /\ \A z \in S : E[z] \subseteq S}
    IN  {y \in Contexts : \A S \in closed : y \in S}

(* The contexts that wah_poison_link_domain visits from x. *)
PoisonDomain(x) == Closure([y \in Contexts |-> links[y] \cup dependents[y]], x)

(* The contexts that wah_gc_collect_domain visits from x. *)
GcDomain(x) ==
    Closure([y \in Contexts |-> links[y] \cup dependents[y] \cup gc_dependents[Heap(y)]], x)

(* The context whose buffer the slot of x holds. *)
Holder(x) == IF slot[x].imported THEN slot[x].import_ctx ELSE x

(* What the code of x has at hand: what it imports from and what is stored *)
(* where it can look.  Host objects are opaque.                            *)
AtHand(x) == IF ~HasCode(x) THEN {} ELSE links[Heap(x)] \cup {Holder(x)} \cup refs[x]

(* All that may become involved once the code of r runs. *)
Involved(r) == Closure([x \in Contexts |-> AtHand(x)], r)

(* The host has control: outside of all calls or in a start function's call *)
HostTurn == stack # << >> => status[stack[Len(stack)]] = "starting"
Top(p)   == stack # << >> /\ stack[Len(stack)] = p
Pop      == stack' = SubSeq(stack, 1, Len(stack) - 1)

Init ==
    /\ status = [x \in Contexts |-> "absent"]
    /\ poisoned = {} /\ may_share_refs = {} /\ has_objects = {}
    /\ modules = [p \in Primaries |-> {}]
    /\ links = [x \in Contexts |-> {}]
    /\ dependents = [x \in Contexts |-> {}]
    /\ gc_dependents = [p \in Primaries |-> {}]
    /\ slot = [x \in Contexts |-> NoSlot]
    /\ wants = [m \in Owned |-> Null]
    /\ version = [x \in Contexts |-> 0]
    /\ refs = [x \in Contexts |-> {}]
    /\ bridged = [x \in Contexts |-> {}] /\ severed = FALSE
    /\ binding = NoBinding
    /\ stack = << >>
-----------------------------------------------------------------------------
(* wah_new_exec_context: import slots are left zeroed until instantiation. *)
NewContext(p, own) ==
    /\ HostTurn /\ status[p] = "absent"
    /\ status' = [status EXCEPT ![p] = "ready"]
    /\ slot' = [slot EXCEPT ![p] = IF own THEN Own(p) ELSE NoSlot]
    /\ UNCHANGED <<flags, modules, links, registry, wants, version, refs, bridges, binding, stack>>

(* wah_link_module; the context is created by wah_instantiate. *)
LinkModule(p, m) ==
    /\ HostTurn /\ status[p] = "ready" /\ p \notin poisoned
    /\ OwnedBy[m] = p /\ m \notin modules[p]
    /\ modules' = [modules EXCEPT ![p] = @ \cup {m}]
    /\ UNCHANGED <<status, flags, links, registry, buffers, wants, refs, bridges, binding, stack>>

Linkable(p, q) ==
    /\ HostTurn /\ status[p] = "ready" /\ p \notin poisoned
    /\ q \in Primaries \ {p} /\ status[q] = "instantiated" /\ q \notin poisoned

(* wah_link_context *)
LinkContext(p, q) ==
    /\ Linkable(p, q)
    /\ gc_dependents' = [gc_dependents EXCEPT ![q] = @ \cup {p}]
    /\ dependents' = [dependents EXCEPT ![q] = @ \cup {p}]
    /\ links' = [links EXCEPT ![p] = @ \cup {q}]
    /\ UNCHANGED <<status, flags, modules, buffers, wants, refs, bridges, binding, stack>>

(* Mistake: the registration with the heap stays. *)
LinkContextNotUndone(p, q) ==
    /\ Linkable(p, q)
    /\ p \notin dependents[q]
    /\ gc_dependents' = [gc_dependents EXCEPT ![q] = @ \cup {p}]
    /\ UNCHANGED <<status, flags, modules, links, dependents, buffers, wants, refs, bridges,
                   binding, stack>>

(* wah_link_context when dependents cannot grow, which it need not for a   *)
(* context linked before: the registration with the heap is taken back.    *)
LinkContextOutOfMemory(p, q) ==
    /\ Linkable(p, q)
    /\ p \notin dependents[q]
    /\ gc_dependents' = [gc_dependents EXCEPT ![q] = IF p \in @ THEN @ ELSE (@ \cup {p}) \ {p}]
    /\ UNCHANGED <<status, flags, modules, links, dependents, buffers, wants, refs, bridges,
                   binding, stack>>
-----------------------------------------------------------------------------
(* What is created for p by then, except for the flags of p. *)
Create(p, made, want, objects) ==
    /\ made \subseteq modules[p]
    /\ objects => p \in ObjectsIn
    /\ \A m \in made : want[m] # m
    /\ status' = [x \in Contexts |->
                    IF x \in made THEN "ready" ELSE IF x # p THEN status[x]
                    ELSE IF slot[p] = NoSlot THEN "importing" ELSE "finalizing"]
    /\ links' = [links EXCEPT ![p] = @ \cup made]
    /\ wants' = [m \in Owned |-> IF m \in made THEN want[m] ELSE wants[m]]
    /\ slot' = [x \in Contexts |->
                  IF x \notin made THEN slot[x] ELSE IF want[x] = Null THEN Own(x) ELSE NoSlot]
    /\ has_objects' = IF objects THEN has_objects \cup {p} ELSE has_objects
    /\ stack' = Append(stack, p)
    /\ UNCHANGED <<poisoned, may_share_refs, modules, registry, version, refs, bridges, binding>>

(* wah_instantiate up to wah_create_owned_linked_contexts.  Evaluating     *)
(* globals may leave objects in the heap; a failure leaves the owned       *)
(* contexts made so far, each with its own memory or one to be imported.   *)
CreateOwned(p, made, want, objects) ==
    /\ HostTurn /\ status[p] = "ready" /\ p \notin poisoned
    /\ Create(p, made, want, objects)

(* An owned context whose import is not bound yet. *)
Pending(x) == x \in Owned /\ status[x] = "ready" /\ wants[x] # Null

(* wah_resolve_memory_export: through imports that are not bound yet, to   *)
(* the one context that has or will have no such import, if there is one.  *)
Resolve(l) ==
    {r \in Closure([x \in Contexts |-> IF Pending(x) THEN {wants[x]} ELSE {}], l) : ~Pending(r)}

(* WAH_FOLLOW_IMPORT_CHAIN: to the context that has the buffer. *)
Follow(x) ==
    CHOOSE o \in Closure([y \in Contexts |-> {Holder(y)}], x) : ~slot[o].imported

(* Mistake: the slot is copied, and not marked until it is registered. *)
MarkLate(x, l) ==
    /\ \E r \in Resolve(l) :
         /\ slot[r].buf # Null
         /\ slot' = [slot EXCEPT ![x] = [imported |-> FALSE, import_ctx |-> Follow(r),
                                         buf |-> slot[r].buf]]
         /\ binding' = [to |-> x, from |-> r]
    /\ UNCHANGED <<status, flags, modules, links, registry, wants, version, refs, bridges, stack>>

(* The slot of x is marked as imported before anything is registered.      *)
(* Owned contexts copy the provider's slot first, the primary last.        *)
Mark(x, l) ==
    /\ \E r \in Resolve(l) :
         /\ slot[r].buf # Null
         /\ slot' = [slot EXCEPT ![x] = [imported |-> TRUE, import_ctx |-> Follow(r),
                                         buf |-> IF x \in Owned THEN slot[r].buf ELSE Null]]
         /\ binding' = [to |-> x, from |-> r]
    /\ UNCHANGED <<status, flags, modules, links, registry, wants, version, refs, bridges, stack>>

Complete(p) == Top(p) /\ modules[p] \subseteq links[p] /\ binding = NoBinding

(* wah_resolve_primary_memory_imports, wah_resolve_primary_table_imports *)
ImportPrimary(p, l) ==
    /\ Complete(p) /\ status[p] = "importing"
    /\ l \in links[p]
    /\ Mark(p, l)

(* wah_finalize_owned_linked_contexts, one imported memory or table *)
ImportOwned(p, m) ==
    /\ Complete(p) /\ status[p] = "finalizing"
    /\ m \in modules[p] /\ Pending(m)
    /\ Mark(m, wants[m])

(* The dependents of o, and those of its heap, with x among them. *)
Registered(o, x) ==
    /\ dependents' = [dependents EXCEPT ![o] = @ \cup {x}]
    /\ gc_dependents' = [gc_dependents EXCEPT ![Heap(o)] = @ \cup {x}]

(* WAH_FOLLOW_IMPORT_CHAIN registers the importer with the final owner. *)
RegisterImporter(p) ==
    LET x == binding.to IN
    /\ Top(p) /\ binding # NoBinding
    /\ Registered(slot[x].import_ctx, x)
    /\ slot' = [slot EXCEPT ![x].buf = slot[binding.from].buf]
    /\ binding' = NoBinding
    /\ status' = [status EXCEPT ![x] = IF x \in Owned THEN "instantiated" ELSE "finalizing"]
    /\ UNCHANGED <<flags, modules, links, wants, version, refs, bridges, stack>>

Fail(p) ==
    /\ status' = [status EXCEPT ![p] = "failed"]
    /\ Pop
    /\ UNCHANGED <<flags, modules, links, buffers, wants, refs, bridges>>

(* One of the two registrations is out of memory. *)
RegisterImporterFails(p) ==
    /\ Top(p) /\ binding # NoBinding
    /\ \/ UNCHANGED dependents
       \/ dependents' = [dependents EXCEPT ![slot[binding.to].import_ctx] = @ \cup {binding.to}]
    /\ binding' = NoBinding
    /\ UNCHANGED gc_dependents
    /\ Fail(p)

(* Mistake: may_share_refs is left alone. *)
BeginStartUnshared(p) ==
    /\ Complete(p) /\ status[p] = "finalizing"
    /\ \A m \in modules[p] : ~Pending(m)
    /\ status' = [x \in Contexts |-> IF x = p THEN "starting"
                                     ELSE IF x \in modules[p] THEN "instantiated" ELSE status[x]]
    /\ UNCHANGED <<flags, modules, links, registry, buffers, wants, refs, bridges, binding, stack>>

(* The imports of all owned contexts are bound, so they are instantiated;  *)
(* may_share_refs is set, and segments and start functions follow.         *)
BeginStart(p) ==
    /\ Complete(p) /\ status[p] = "finalizing"
    /\ \A m \in modules[p] : ~Pending(m)
    /\ status' = [x \in Contexts |-> IF x = p THEN "starting"
                                     ELSE IF x \in modules[p] THEN "instantiated" ELSE status[x]]
    /\ may_share_refs' = may_share_refs \cup {p}
    /\ has_objects' = has_objects \ {p}
    /\ UNCHANGED <<poisoned, modules, links, registry, buffers, wants, refs, bridges,
                   binding, stack>>

FinishInstantiate(p) ==
    /\ Top(p) /\ status[p] = "starting"
    /\ status' = [status EXCEPT ![p] = "instantiated"]
    /\ Pop
    /\ UNCHANGED <<flags, modules, links, registry, buffers, wants, refs, bridges, binding>>

(* Any other step fails: an import is not found, a start function traps. *)
InstantiateFails(p) ==
    /\ Top(p) /\ binding = NoBinding
    /\ UNCHANGED <<registry, binding>>
    /\ Fail(p)
-----------------------------------------------------------------------------
Runs(p) == HostTurn /\ p \notin poisoned /\ HasCode(p)

(* Code entered through p, or run by it, may store whatever it gets.       *)
Run(p) ==
    /\ Runs(p) /\ p \in Storing
    /\ LET all == Involved(p)
       IN  refs' = [x \in Contexts |-> IF x \in all /\ HasCode(x) THEN refs[x] \cup all ELSE refs[x]]
    /\ UNCHANGED <<status, flags, modules, links, registry, buffers, wants, bridges, binding, stack>>

(* wah_gc_alloc_host, in a context that was not instantiated *)
HostObject(p) ==
    /\ HostTurn /\ Usable(p) /\ p \notin may_share_refs
    /\ p \in ObjectsIn
    /\ has_objects' = has_objects \cup {p}
    /\ UNCHANGED <<status, poisoned, may_share_refs, modules, links, registry, buffers, wants,
                   refs, bridges, binding, stack>>

(* Ghost: the part of the link domain of p that needs no bridge, which is  *)
(* a context other than p whose instantiation has not shared anything.     *)
FirmDomain(p) ==
    Closure([y \in Contexts |-> IF y = p \/ Heap(y) \in may_share_refs
                                THEN links[y] \cup dependents[y] ELSE {}], p)

(* A host object of p is given to the code of q, as wah_load_host_params   *)
(* lets the host do: that both are of the same link domain is left to the  *)
(* host.  The ghost records if they are connected through a bridge only.   *)
GiveObject(p, q) ==
    /\ Usable(p) /\ p \in has_objects \cup may_share_refs
    /\ Runs(q) /\ q \in Storing
    /\ q \in PoisonDomain(p)
    /\ refs' = [refs EXCEPT ![q] = @ \cup {p}]
    /\ bridged' = [bridged EXCEPT ![p] = IF q \in FirmDomain(p) THEN @ ELSE @ \cup {q}]
    /\ UNCHANGED <<status, flags, modules, links, registry, buffers, wants, severed, binding, stack>>

(* Mistake: only the links of the running context and of the owner. *)
PropagatedToLinks(p, o) == {p} \cup links[p] \cup links[o]

(* The contexts whose slots wah_propagate_memory_import_aliases looks at,  *)
(* when code of f that was entered through p grows a buffer of o.          *)
Propagated(p, o) ==
    {p} \cup links[p] \cup links[o] \cup dependents[o]
        \cup {m \in Owned : OwnedBy[m] \in dependents[o] /\ m \in links[OwnedBy[m]]}

(* wah_memory_grow_internal, wah_table_grow_internal: the buffer of o is   *)
(* replaced, in the slots of f and o and in every alias that is reached.   *)
Grow(p, f) ==
    LET o   == Holder(f)
        new == <<o, version[o] + 1>>
    IN  /\ \A x \in Contexts : version[x] < MaxGrowth
        /\ Runs(p) /\ HasCode(f) /\ f \in Involved(p)
        /\ version' = [version EXCEPT ![o] = @ + 1]
        /\ slot' = [x \in Contexts |->
              IF x \in {f, o} \/ (x \in Propagated(p, o) /\ slot[x].imported
                                                         /\ slot[x].import_ctx = o)
              THEN [slot[x] EXCEPT !.buf = new] ELSE slot[x]]
        /\ UNCHANGED <<status, flags, modules, links, registry, wants, refs, bridges, binding, stack>>

(* Only the lists of the contexts in xs go away. *)
Forget(xs) ==
    /\ dependents' = [o \in Contexts |-> IF o \in xs THEN {} ELSE dependents[o]]
    /\ gc_dependents' = [h \in Primaries |-> IF h \in xs THEN {} ELSE gc_dependents[h]]

(* Mistake: owned contexts stay on the lists. *)
UnregisterPrimary(p, xs) ==
    LET from(o) == IF o \in links[p] \ Owned \/ (slot[p].imported /\ slot[p].import_ctx = o)
                   THEN {p} ELSE {}
        heap(h) == UNION {from(o) : o \in {x \in Contexts : Heap(x) = h}}
    IN  /\ dependents' = [o \in Contexts |-> IF o \in xs THEN {} ELSE dependents[o] \ from(o)]
        /\ gc_dependents' = [h \in Primaries |-> IF h \in xs THEN {} ELSE gc_dependents[h] \ heap(h)]

(* The contexts in xs, which are p and those it owns, are also taken off   *)
(* the lists of those they import from, and p off those of its links.      *)
Unregister(p, xs) ==
    LET from(o) == {x \in xs : slot[x].imported /\ slot[x].import_ctx = o}
                      \cup (IF o \in links[p] \ Owned THEN {p} ELSE {})
        heap(h) == UNION {from(o) : o \in {x \in Contexts : Heap(x) = h}}
    IN  /\ dependents' = [o \in Contexts |-> IF o \in xs THEN {} ELSE dependents[o] \ from(o)]
        /\ gc_dependents' = [h \in Primaries |-> IF h \in xs THEN {} ELSE gc_dependents[h] \ heap(h)]

(* wah_free_exec_context, which must not be called while a context of the  *)
(* link domain runs.  A poisoned context leaves the others alone; another  *)
(* one poisons its link domain if it may have shared anything, and is      *)
(* taken off the lists of its providers with the contexts it owns.  The    *)
(* ghosts record if that leaves contexts in use that were tied by a host   *)
(* object, but only through bridges, in different link domains.            *)
Free(p) ==
    LET gone == {p} \cup (links[p] \cap Owned) IN
    /\ HostTurn /\ Live(p)
    /\ \A i \in 1..Len(stack) : stack[i] \notin PoisonDomain(p)
    /\ IF p \in poisoned THEN Forget(gone) ELSE Unregister(p, gone)
    /\ poisoned' = (IF p \notin poisoned /\ p \in may_share_refs \cup has_objects
                    THEN poisoned \cup PoisonDomain(p) ELSE poisoned) \ gone
    /\ status' = [x \in Contexts |-> IF x \in gone THEN "freed" ELSE status[x]]
    /\ may_share_refs' = may_share_refs \ gone
    /\ has_objects' = has_objects \ gone
    /\ links' = [links EXCEPT ![p] = {}]
    /\ modules' = [modules EXCEPT ![p] = {}]
    /\ slot' = [x \in Contexts |-> IF x \in gone THEN NoSlot ELSE slot[x]]
    /\ wants' = [m \in Owned |-> IF m \in gone THEN Null ELSE wants[m]]
    /\ version' = [x \in Contexts |-> IF x \in gone THEN 0 ELSE version[x]]
    /\ refs' = [x \in Contexts |-> IF x \in gone THEN {} ELSE refs[x]]
    /\ bridged' = [x \in Contexts |-> IF x \in gone THEN {} ELSE bridged[x] \ gone]
    /\ severed' = (severed \/ \E y \in Contexts \ poisoned' :
                                  \E z \in bridged'[y] : PoisonDomain(z)' # PoisonDomain(y)')
    /\ UNCHANGED <<binding, stack>>

Next ==
    \E p \in Primaries :
        \/ \E own \in BOOLEAN : NewContext(p, own)
        \/ \E m \in Owned : LinkModule(p, m)
        \/ \E q \in Primaries : LinkContext(p, q)
        \/ \E q \in Primaries : LinkContextOutOfMemory(p, q)
        \/ \E made \in SUBSET modules[p], objects \in BOOLEAN :
             \E want \in [made -> links[p] \cup made \cup {Null}] :
                CreateOwned(p, made, want, objects)
        \/ \E l \in links[p] : ImportPrimary(p, l)
        \/ \E m \in Owned : ImportOwned(p, m)
        \/ RegisterImporter(p)
        \/ RegisterImporterFails(p)
        \/ BeginStart(p)
        \/ FinishInstantiate(p)
        \/ InstantiateFails(p)
        \/ Run(p)
        \/ HostObject(p)
        \/ \E q \in Primaries : GiveObject(p, q)
        \/ \E f \in Contexts : Grow(p, f)
        \/ Free(p)

Spec == Init /\ [][Next]_vars
-----------------------------------------------------------------------------
TypeOK ==
    /\ status \in [Contexts -> Statuses]
    /\ poisoned \subseteq Contexts
    /\ may_share_refs \subseteq Primaries /\ has_objects \subseteq Primaries
    /\ modules \in [Primaries -> SUBSET Owned]
    /\ links \in [Contexts -> SUBSET Contexts]
    /\ dependents \in [Contexts -> SUBSET Contexts]
    /\ gc_dependents \in [Primaries -> SUBSET Contexts]
    /\ slot \in [Contexts -> Slots]
    /\ wants \in [Owned -> Contexts \cup {Null}]
    /\ version \in [Contexts -> 0..MaxGrowth]
    /\ refs \in [Contexts -> SUBSET Contexts]
    /\ bridged \in [Contexts -> SUBSET Contexts] /\ severed \in BOOLEAN
    /\ binding \in [to : Contexts \cup {Null}, from : Contexts \cup {Null}]
    /\ stack \in Seq(Primaries)

(* What a context in use knows is in use. *)
Intact ==
    \A x \in Contexts : Usable(x) =>
        \A y \in links[x] \cup dependents[x] \cup gc_dependents[Heap(x)] \cup {Holder(x)} \cup refs[x] :
            Usable(y)

(* Provided that no context was freed that shared nothing and was the only *)
(* connection of two contexts, the one with a host object of the other: a  *)
(* context that is not poisoned knows no freed or poisoned context through *)
(* its links, its consumers, its imports, nor what is stored in it ("Other *)
(* contexts in the link domain may be freed already if this one is         *)
(* poisoned").  So using or freeing it touches contexts in use only.       *)
NoDangling == ~severed => Intact

(* "once any context in the link domain is freed, the remaining contexts   *)
(* can only be freed": a context that may be used holds no object of one   *)
(* that was freed or poisoned.  This does not hold once a free severs what *)
(* the host tied by an object given across a bridge.                       *)
LifetimesTied == \A x \in Contexts : Usable(x) => \A y \in refs[x] : Usable(y)

(* The contexts that a free poisons are those that a collection visits,    *)
(* although only the latter looks at gc_dependents ("GC dependents are     *)
(* always dependents as well"), and they do not depend on the context one  *)
(* starts from: links are followed in both directions.                     *)
OneDomain ==
    \A p \in Primaries : Usable(p) =>
        LET domain == PoisonDomain(p) IN
        /\ GcDomain(p) = domain
        /\ \A q \in domain \cap Primaries : Usable(q) => PoisonDomain(q) = domain

(* What the code of p may refer to lies in heaps and roots that a          *)
(* collection started by p visits.                                         *)
Traced(p) ==
    LET domain == GcDomain(p) IN
    \A x \in Involved(p) :
        /\ Heap(x) \in domain
        /\ HasCode(x) => \/ Heap(x) = p
                         \/ status[Heap(x)] = "instantiated"
                         \/ Heap(x) \in may_share_refs

(* Under the same proviso, all that code may refer to lies in the heaps    *)
(* and roots that a collection started by that code visits: the roots of a *)
(* context whose instantiation never got to share references are left out, *)
(* and those of an owned context are found through its primary.            *)
ReferencesTraced ==
    ~severed => \A p \in Primaries : Usable(p) /\ HasCode(p) => Traced(p)

(* However a memory or table grew, every context whose code may be         *)
(* executed holds the buffer that replaced the freed one.                  *)
AliasesCurrent ==
    \A x \in Contexts :
        Usable(x) /\ HasCode(x) => slot[x].buf = <<Holder(x), version[Holder(x)]>>

(* A buffer is freed with the one context that it was allocated for, even  *)
(* if that is poisoned or its instantiation failed while binding imports.  *)
FreedOnce ==
    \A x \in Contexts :
        Live(x) /\ ~slot[x].imported /\ slot[x].buf # Null => slot[x].buf = <<x, version[x]>>

=============================================================================
