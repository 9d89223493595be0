------------------------------ MODULE TypeDefs ------------------------------
(***************************************************************************)
(* The type definitions of one module: subtyping, canonicalisation of      *)
(* recursive groups, the checks on declared supertypes and the layout of   *)
(* structs (wah.h, "Subtyping" and the type section).                      *)
(*                                                                         *)
(* A type is a record [head, idx, null]: head is "idx" for a reference to  *)
(* the definition number idx, otherwise the name of a built-in type.  A    *)
(* definition is a record made by Def; definitions are numbered from 1 and *)
(* NoSuper stands for WAH_NO_SUPERTYPE.  A module m is a record whose      *)
(* field defs holds the definitions and whose field canon is the           *)
(* canonical_map (the empty sequence while it is NULL).                    *)
(***************************************************************************)
EXTENDS Integers, SequencesExt

CONSTANTS
    HashMod,          \* size of the range of the group hash: small, so that groups collide
    MaxSubtypeDepth   \* WAH_MAX_SUBTYPE_DEPTH

ASSUME HashAssumption == HashMod \in Nat \ {0} /\ MaxSubtypeDepth \in Nat

NoSuper == 0

Heaps == {"any", "eq", "i31", "struct", "array", "none", "func", "nofunc",
          "extern", "noextern", "exn", "noexn"}

Num(h) == [head |-> h, idx |-> 0, null |-> FALSE]
Ref(h, null) == [head |-> h, idx |-> 0, null |-> null]
RefIdx(i, null) == [head |-> "idx", idx |-> i, null |-> null]
Bot == [head |-> "bot", idx |-> 0, null |-> TRUE]   \* -99 is odd, so it counts as nullable

IsConcrete(t) == t.head = "idx"
IsRef(t) == IsConcrete(t) \/ t.head \in Heaps
NonNull(t) == [t EXCEPT !.null = FALSE]

(* ty holds the field types of a struct or an array, or the parameter      *)
(* types followed by the result types of a function; mut the mutabilities  *)
(* of the fields; np the number of parameters.  start and size are the     *)
(* recursive group of the definition.                                      *)
Def(kind, final, super, ty, mut, np) ==
    [kind |-> kind, final |-> final, super |-> super, ty |-> ty, mut |-> mut, np |-> np]

InGroup(i, d) == d.start <= i /\ i < d.start + d.size
Group(d) == d.start .. d.start + d.size - 1
Starts(m) == {i \in DOMAIN m.defs : m.defs[i].start = i}

Canon(m, i) == IF m.canon = <<>> THEN i ELSE m.canon[i]

---------------------------------------------------------------------------
(* Subtyping within a module. *)

(* The proper supertypes of definition i, nearest first. *)
Supers(m, i) ==
    LET up[n \in 0..Len(m.defs)] ==
            IF n = 0 THEN <<>>
            ELSE IF m.defs[n].super = NoSuper THEN <<>>
            ELSE <<m.defs[n].super>> \o up[m.defs[n].super]
    IN  up[i]

(* wah_type_accepts_repr: an object of definition obj can be cast to i. *)
AcceptsRepr(m, i, obj) ==
    \E t \in {obj} \cup ToSet(Supers(m, obj)) : Canon(m, t) = Canon(m, i)

AbstractSupers == [func |-> {"func"},
                   struct |-> {"any", "eq", "struct"},
                   array |-> {"any", "eq", "array"}]

BottomOf == [func |-> "nofunc", struct |-> "none", array |-> "none"]

HeapBelow ==
    ((Heaps \ {"extern", "exn", "noextern", "noexn", "func", "nofunc"}) \X {"any"})
    \cup ({"i31", "struct", "array", "none"} \X {"eq"})
    \cup ({"none"} \X {"struct", "array", "i31"})
    \cup {<<"nofunc", "func">>, <<"noextern", "extern">>, <<"noexn", "exn">>}

(* The comparison of two heap types, nullability aside. *)
HeapSubtype(s, t, m) ==
    \/ NonNull(s) = NonNull(t)
    \/ /\ IsConcrete(s) /\ IsConcrete(t)
       /\ \/ m.canon # <<>> /\ m.canon[s.idx] = m.canon[t.idx]
          \/ \E u \in ToSet(Supers(m, s.idx)) : u = t.idx \/ Canon(m, u) = Canon(m, t.idx)
    \/ /\ IsConcrete(s) /\ ~IsConcrete(t)
       /\ t.head \in AbstractSupers[m.defs[s.idx].kind]
    \/ /\ ~IsConcrete(s) /\ IsConcrete(t)
       /\ s.head = BottomOf[m.defs[t.idx].kind]
    \/ <<s.head, t.head>> \in HeapBelow

IsSubtype(s, t, m) ==
    \/ s = t
    \/ s = Bot
    \/ (s.null => t.null) /\ HeapSubtype(s, t, m)

HierarchyTop(t, m) ==
    CASE IsConcrete(t) -> IF m.defs[t.idx].kind = "func" THEN "func" ELSE "any"
      [] t.head \in {"any", "eq", "i31", "struct", "array", "none"} -> "any"
      [] t.head \in {"func", "nofunc"} -> "func"
      [] t.head \in {"extern", "noextern"} -> "extern"
      [] t.head \in {"exn", "noexn"} -> "exn"
      [] OTHER -> "bot"

---------------------------------------------------------------------------
(* Canonicalisation of recursive groups (wah_module_build_type_metadata).  *)

(* A reference as compared between two groups: in-group references by      *)
(* their offset, the others by their canonical index.                      *)
CanonRef(t, d, canon) ==
    CASE ~IsConcrete(t)      -> <<"abs", t.head, t.null>>
      [] InGroup(t.idx, d)   -> <<"in", t.idx - d.start, t.null>>
      [] OTHER               -> <<"out", canon[t.idx], t.null>>

SuperRef(d) == RefIdx(d.super, FALSE)

StructurallyEqual(a, b, canon) ==
    /\ a.kind = b.kind /\ a.final = b.final
    /\ (a.super = NoSuper) = (b.super = NoSuper)
    /\ a.super # NoSuper => CanonRef(SuperRef(a), a, canon) = CanonRef(SuperRef(b), b, canon)
    /\ Len(a.ty) = Len(b.ty) /\ a.np = b.np /\ a.mut = b.mut
    /\ \A j \in DOMAIN a.ty : CanonRef(a.ty[j], a, canon) = CanonRef(b.ty[j], b, canon)

(* The mixer is bijective over 64 bits; here it has a range of HashMod.    *)
Mix(h, v) == (3 * h + v + 1) % HashMod

Code == [i32 |-> 1, i64 |-> 2, f32 |-> 3, f64 |-> 4, v128 |-> 5, i8 |-> 6, i16 |-> 7,
         any |-> 8, eq |-> 9, i31 |-> 10, struct |-> 11, array |-> 12, none |-> 13, func |-> 14,
         nofunc |-> 15, extern |-> 16, noextern |-> 17, exn |-> 18, noexn |-> 19]

Bit(b) == IF b THEN 1 ELSE 0

(* Mutant: references to earlier groups are hashed by index. *)
HashRefByIndex(m, h, t, d, hashes) ==
    IF ~IsConcrete(t) THEN Mix(Mix(h, 0), 2 * Code[t.head] + Bit(t.null))
    ELSE IF InGroup(t.idx, d) THEN Mix(Mix(h, 1), 2 * (t.idx - d.start) + Bit(t.null))
    ELSE Mix(Mix(h, 2), 2 * t.idx + Bit(t.null))

(* References to earlier groups are hashed by the hashes of these groups.  *)
HashRef(m, h, t, d, hashes) ==
    IF ~IsConcrete(t) THEN Mix(Mix(h, 0), 2 * Code[t.head] + Bit(t.null))
    ELSE IF InGroup(t.idx, d) THEN Mix(Mix(h, 1), 2 * (t.idx - d.start) + Bit(t.null))
    ELSE LET s == m.defs[t.idx].start
         IN  Mix(Mix(Mix(h, 2), hashes[s]), 2 * (t.idx - s) + Bit(t.null))

HashDef(m, h, d, hashes) ==
    LET head == Mix(h, 2 * Code[d.kind] + Bit(d.final))
        super == IF d.super = NoSuper THEN Mix(head, 3)
                 ELSE HashRef(m, head, SuperRef(d), d, hashes)
        Field(acc, j) ==
            LET r == HashRef(m, acc, d.ty[j], d, hashes)
            IN  IF d.kind = "func" THEN r ELSE Mix(r, Bit(d.mut[j]))
    IN  FoldLeft(Field, Mix(super, 32 * d.np + Len(d.ty) - d.np), [j \in DOMAIN d.ty |-> j])

(* wah_rec_group_hash of every group, in order: later hashes use the       *)
(* earlier ones.                                                           *)
GroupHash(m, i, hashes) ==
    LET Add(h, j) == HashDef(m, h, m.defs[j], hashes)
        size == m.defs[i].size
    IN  FoldLeft(Add, Mix(0, size), [k \in 1..size |-> i + k - 1])

GroupHashes(m) ==
    LET Next(hs, i) == Append(hs, IF i \in Starts(m) THEN GroupHash(m, i, hs) ELSE 0)
    IN  FoldLeft(Next, <<>>, [i \in DOMAIN m.defs |-> i])

(* One round of the canonicalisation loop: group i takes the place of the  *)
(* first canonical group of the same hash and size that equals it.         *)
CanonStep(m, hashes, canon, i) ==
    LET d == m.defs[i]
        same == {j \in Starts(m) :
                    /\ j < i /\ hashes[j] = hashes[i]
                    /\ canon[j] = j /\ m.defs[j].size = d.size
                    /\ \A k \in 0..d.size - 1 :
                          StructurallyEqual(m.defs[i + k], m.defs[j + k], canon)}
    IN  IF same = {} THEN canon
        ELSE [k \in DOMAIN canon |->
                 IF InGroup(k, d) THEN Min(same) + (k - i) ELSE canon[k]]

CanonicalMap(m) ==
    LET hashes == GroupHashes(m)
        Round(canon, i) == IF i \in Starts(m) THEN CanonStep(m, hashes, canon, i) ELSE canon
        ids == [i \in DOMAIN m.defs |-> i]
    IN  FoldLeft(Round, ids, ids)

---------------------------------------------------------------------------
(* The checks on a declared supertype (lines 5800-5840), for m with its    *)
(* canonical map.                                                          *)

SameStorage(s, t, m) ==
    \/ s = t
    \/ IsConcrete(s) /\ IsConcrete(t) /\ s.null = t.null /\ m.canon[s.idx] = m.canon[t.idx]

(* Mutant: mutable fields may have a subtype, too. *)
FieldMatchesCovariant(d, e, j, m) ==
    d.mut[j] = e.mut[j] /\ IsSubtype(d.ty[j], e.ty[j], m)

FieldMatches(d, e, j, m) ==
    /\ d.mut[j] = e.mut[j]
    /\ IF e.mut[j] THEN SameStorage(e.ty[j], d.ty[j], m) ELSE IsSubtype(d.ty[j], e.ty[j], m)

FuncMatches(d, e, m) ==
    /\ d.np = e.np /\ Len(d.ty) = Len(e.ty)
    /\ \A j \in DOMAIN d.ty : IF j <= d.np THEN IsSubtype(e.ty[j], d.ty[j], m)
                              ELSE IsSubtype(d.ty[j], e.ty[j], m)

SupertypeMatches(m, i) ==
    LET d == m.defs[i]
        e == m.defs[d.super]
    IN  CASE d.kind = "func" -> FuncMatches(d, e, m)
          [] d.kind = "struct" -> /\ Len(d.ty) >= Len(e.ty)
                                  /\ \A j \in DOMAIN e.ty : FieldMatches(d, e, j, m)
          [] d.kind = "array" -> FieldMatches(d, e, 1, m)

---------------------------------------------------------------------------
(* The layout of a struct.  slots[s] holds the free slots of size s left   *)
(* inside the 16-byte units that were opened; frontier is the end of the   *)
(* last unit.                                                              *)

FieldSize(t) ==
    CASE t.head = "i8" -> 1
      [] t.head = "i16" -> 2
      [] t.head \in {"i32", "f32"} -> 4
      [] t.head \in {"i64", "f64"} -> 8
      [] t.head = "v128" -> 16
      [] OTHER -> 8   \* a reference

SlotSizes == {1, 2, 4, 8}

Pop(slots, s) == [slots EXCEPT ![s] = @ \ {Min(@)}]

(* Mutant: one half too many is freed. *)
SplitSlotTwice(slots, offset, from, used) ==
    [s \in SlotSizes |-> IF used <= 2 * s /\ s < from THEN slots[s] \cup {offset + s} ELSE slots[s]]

(* wah_layout_split_slot: the upper halves of a slot whose lower part of   *)
(* size used is taken.                                                     *)
SplitSlot(slots, offset, from, used) ==
    [s \in SlotSizes |-> IF used <= s /\ s < from THEN slots[s] \cup {offset + s} ELSE slots[s]]

(* wah_layout_record_tail_slots: likewise for a fresh 16-byte unit.        *)
RecordTailSlots(slots, base, used) ==
    [s \in SlotSizes |-> IF used <= s THEN slots[s] \cup {base + s} ELSE slots[s]]

PlaceField(l, size) ==
    LET larger == {s \in SlotSizes : size < s /\ l.slots[s] # {}}
        Place(offset, slots, frontier) ==
            [offsets |-> Append(l.offsets, offset), slots |-> slots, frontier |-> frontier,
             size |-> Max({l.size, offset + size})]
    IN  IF size = 16 THEN Place(l.frontier, l.slots, l.frontier + 16)
        ELSE IF l.slots[size] # {} THEN Place(Min(l.slots[size]), Pop(l.slots, size), l.frontier)
        ELSE IF larger # {}
             THEN LET s == Min(larger)
                      o == Min(l.slots[s])
                  IN  Place(o, SplitSlot(Pop(l.slots, s), o, s, size), l.frontier)
        ELSE Place(l.frontier, RecordTailSlots(l.slots, l.frontier, size), l.frontier + 16)

StructLayout(d) ==
    LET Add(l, t) == PlaceField(l, FieldSize(t))
        empty == [offsets |-> <<>>, slots |-> [s \in SlotSizes |-> {}], frontier |-> 0, size |-> 0]
        l == FoldLeft(Add, empty, d.ty)
    IN  [offsets |-> l.offsets, size |-> l.size]

ArrayLayout(d) == [offsets |-> <<0>>, size |-> FieldSize(d.ty[1])]

Layout(d) == IF d.kind = "struct" THEN StructLayout(d) ELSE ArrayLayout(d)

---------------------------------------------------------------------------
(* The checks at the end of the type section (lines 10491-10526). *)
DefScoped(m, i) ==
    LET d == m.defs[i]
    IN  /\ \A j \in DOMAIN d.ty : IsConcrete(d.ty[j]) => d.ty[j].idx < d.start + d.size
        /\ d.super # NoSuper => /\ d.super < i
                                /\ ~m.defs[d.super].final
                                /\ d.kind = m.defs[d.super].kind
                                /\ Len(Supers(m, i)) <= MaxSubtypeDepth

=============================================================================
