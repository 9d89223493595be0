----------------------------- MODULE CrossTypes -----------------------------
(***************************************************************************)
(* Type equality and subtyping between modules (wah_cross_module_subtype   *)
(* and what it calls).  A module record also has a field id, its address:  *)
(* two records with the same id are the same module.                       *)
(*                                                                         *)
(* Equality of two recursive groups is a recursive comparison that         *)
(* remembers in memo the pairs of groups found equal.  The memo is         *)
(* allocated when its first pair is added; when that fails (oom) the types *)
(* count as unequal.  The memo grows again only at the 33rd pair.          *)
(***************************************************************************)
EXTENDS TypeDefs

CONSTANT MaxRecursion   \* WAH_MAX_TYPE_RECURSION_DEPTH

ASSUME RecursionAssumption == MaxRecursion \in Nat

Outcome(v, memo) == [v |-> v, memo |-> memo]
Verdict(b, memo) == Outcome(IF b THEN "eq" ELSE "ne", memo)

(* The comparisons made for one pair of members: references to compare, or *)
(* a failed comparison of a count, a kind or a mutability.                 *)
Same(ta, tb) == [ok |-> TRUE, a |-> ta, b |-> tb]
Fails == [ok |-> FALSE, a |-> Bot, b |-> Bot]

(* Mutant: mutability is not compared. *)
FieldComparisonsTypeOnly(a, b, j) == <<Same(a.ty[j], b.ty[j])>>

FieldComparisons(a, b, j) ==
    <<Same(a.ty[j], b.ty[j])>>
        \o (IF a.kind # "func" /\ a.mut[j] # b.mut[j] THEN <<Fails>> ELSE <<>>)

MemberComparisons(a, b) ==
    IF \/ a.kind # b.kind \/ a.final # b.final
       \/ (a.super = NoSuper) # (b.super = NoSuper)
    THEN <<Fails>>
    ELSE (IF a.super = NoSuper THEN <<>> ELSE <<Same(SuperRef(a), SuperRef(b))>>)
         \o (IF Len(a.ty) # Len(b.ty) \/ a.np # b.np THEN <<Fails>>
             ELSE FlattenSeq([j \in DOMAIN a.ty |-> FieldComparisons(a, b, j)]))

RECURSIVE GroupEq(_, _, _, _, _, _, _)

(* wah_cross_module_ref_in_recgroup: ta of group ga against tb of group gb. *)
RefEq(ma, ta, ga, mb, tb, gb, depth, memo, oom) ==
    IF ~IsConcrete(ta) \/ ~IsConcrete(tb) THEN Verdict(ta = tb, memo)
    ELSE LET ca == Canon(ma, ta.idx)
             cb == Canon(mb, tb.idx)
             da == ma.defs[ca]
             db == mb.defs[cb]
             pair == <<da.start, db.start>>
         IN  CASE ta.null # tb.null -> Verdict(FALSE, memo)
               [] InGroup(ca, ga) \/ InGroup(cb, gb) ->
                    Verdict(/\ InGroup(ca, ga) /\ InGroup(cb, gb)
                            /\ ca - ga.start = cb - gb.start, memo)
               [] ma.id = mb.id /\ ca = cb -> Verdict(TRUE, memo)
               [] \/ depth >= MaxRecursion
                  \/ da.size # db.size
                  \/ ca - da.start # cb - db.start -> Verdict(FALSE, memo)
               [] pair \in memo -> Verdict(TRUE, memo)
               [] OTHER ->
                    LET r == GroupEq(ma, da, mb, db, depth + 1, memo, oom)
                    IN  IF r.v # "eq" THEN r
                        ELSE IF oom THEN Outcome("oom", r.memo)
                        ELSE Outcome("eq", r.memo \cup {pair})

(* wah_cross_module_rec_group_eq: the groups of the definitions da and db; *)
(* the first comparison that fails ends the check.                         *)
GroupEq(ma, da, mb, db, depth, memo, oom) ==
    LET todo == FlattenSeq([k \in 1..da.size |->
                    MemberComparisons(ma.defs[da.start + k - 1], mb.defs[db.start + k - 1])])
        Check(acc, c) ==
            IF acc.v # "eq" THEN acc
            ELSE IF ~c.ok THEN Verdict(FALSE, acc.memo)
            ELSE RefEq(ma, c.a, da, mb, c.b, db, depth, acc.memo, oom)
    IN  IF da.size # db.size THEN Verdict(FALSE, memo)
        ELSE IF ma.id = mb.id /\ da.start = db.start THEN Verdict(TRUE, memo)
        ELSE FoldLeft(Check, Verdict(TRUE, memo), todo)

(* wah_cross_module_type_ref_eq_oom *)
TypeRefEq(ma, ta, mb, tb, oom) ==
    IF ~IsConcrete(ta) \/ ~IsConcrete(tb) THEN (IF ta = tb THEN "eq" ELSE "ne")
    ELSE LET ca == Canon(ma, ta.idx)
             cb == Canon(mb, tb.idx)
             da == ma.defs[ca]
             db == mb.defs[cb]
         IN  CASE ta.null # tb.null -> "ne"
               [] ma.id = mb.id /\ ca = cb -> "eq"
               [] da.size # db.size \/ ca - da.start # cb - db.start -> "ne"
               [] OTHER -> GroupEq(ma, da, mb, db, 0, {}, oom).v

(* wah_cross_module_subtype_oom: whether s of ma is a subtype of t of mb,  *)
(* and whether running out of memory made the answer unreliable.           *)
CrossSubtype(ma, s, mb, t, oom) ==
    LET stripped == IF s.null \/ t.null THEN <<NonNull(s)>> ELSE <<>>
        chain == [k \in DOMAIN Supers(ma, s.idx) |-> RefIdx(Supers(ma, s.idx)[k], FALSE)]
        tried == <<TypeRefEq(ma, s, mb, t, oom)>>
                 \o [k \in DOMAIN (stripped \o chain) |->
                        TypeRefEq(ma, (stripped \o chain)[k], mb, NonNull(t), oom)]
        hits == {k \in DOMAIN tried : tried[k] = "eq"}
        Tried(k) == tried[k] = "oom" /\ \A h \in hits : k < h
    IN  CASE s = t /\ ma.id = mb.id -> [v |-> TRUE, oom |-> FALSE]
          [] s.null /\ ~t.null -> [v |-> FALSE, oom |-> FALSE]
          [] ~IsConcrete(s) \/ ~IsConcrete(t) ->
               [v |-> s = t \/ IsSubtype(s, t, IF IsConcrete(s) THEN ma ELSE mb), oom |-> FALSE]
          [] OTHER -> [v |-> hits # {}, oom |-> \E k \in DOMAIN tried : Tried(k)]

=============================================================================
