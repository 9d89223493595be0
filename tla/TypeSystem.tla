----------------------------- MODULE TypeSystem -----------------------------
(***************************************************************************)
(* Modules acquire types by parsing a type section or by wah_define_type,  *)
(* and a context asks subtype questions across them through its cache.     *)
(***************************************************************************)
EXTENDS CrossTypes

CONSTANTS
    Order,            \* the modules, in the order in which they are loaded
    Menu(_, _),       \* the groups (sequences of definitions) a section may add next
    Specs(_, _),      \* the definitions a program may ask for next
    Queries(_, _),    \* the types a context asks about
    MaxTypes(_),      \* bound on the number of types of a module
    MaxAsked,         \* bound on the number of questions
    CacheSize         \* WAH_TYPE_CHECK_CACHE_SIZE

VARIABLES
    mod,      \* mod[m]: the module's types and type metadata
    cache,    \* type_check_cache of the context
    asked,    \* the number of questions so far
    defined   \* after wah_define_type: what was asked and the index it returned

vars == <<mod, cache, asked, defined>>

Modules == ToSet(Order)

(* A section is parsed in one call, so one module is loaded after another. *)
Loading(m) ==
    /\ mod[m].phase = "parsing"
    /\ \A k \in DOMAIN Order : Order[k] = m => \A j \in 1..k - 1 : mod[Order[j]].phase # "parsing"

NoEntry == [valid |-> FALSE]
NoDefine == [m |-> "none", idx |-> 0]
NoRepr == 0

(* toRepr is typeidx_to_repr, reprs is repr_infos, parsed the number of    *)
(* types that came from the type section.                                  *)
NewModule(m) == [id |-> m, phase |-> "parsing", defs |-> <<>>, canon |-> <<>>,
                 reprs |-> <<>>, toRepr |-> <<>>, parsed |-> 0]

Init ==
    /\ mod = [m \in Modules |-> NewModule(m)]
    /\ cache = [s \in 0..CacheSize - 1 |-> NoEntry]
    /\ asked = 0
    /\ defined = NoDefine

InGroupOf(d, start, size) == d @@ [start |-> start, size |-> size]

(* One recursive group (or a single type) of the type section. *)
ParseGroup(m) ==
    /\ Loading(m)
    /\ \E g \in Menu(m, mod) :
          LET n == Len(mod[m].defs)
          IN  /\ n + Len(g) <= MaxTypes(m)
              /\ mod' = [mod EXCEPT ![m].defs = @ \o [k \in DOMAIN g |-> InGroupOf(g[k], n + 1, Len(g))]]
    /\ defined' = NoDefine
    /\ UNCHANGED <<cache, asked>>

HasRepr(d) == d.kind \in {"struct", "array"}

(* wah_module_alloc_repr: the next representation goes to type i. *)
AllocRepr(r, i, d) ==
    [reprs |-> Append(r.reprs, Layout(d) @@ [typeidx |-> i]),
     toRepr |-> [r.toRepr EXCEPT ![i] = Len(r.reprs) + 1]]

BuildReprs(m) ==
    LET Add(r, i) == IF HasRepr(m.defs[i]) THEN AllocRepr(r, i, m.defs[i]) ELSE r
    IN  FoldLeft(Add, [reprs |-> <<>>, toRepr |-> [i \in DOMAIN m.defs |-> NoRepr]],
                 [i \in DOMAIN m.defs |-> i])

(* wah_module_build_type_metadata on success. *)
WithMetadata(m) ==
    [m EXCEPT !.canon = CanonicalMap(m), !.phase = "ready", !.parsed = Len(m.defs),
              !.reprs = BuildReprs(m).reprs, !.toRepr = BuildReprs(m).toRepr]

Cleared(m) == [m EXCEPT !.canon = <<>>, !.reprs = <<>>, !.toRepr = <<>>, !.phase = "rejected"]

SectionAccepted(m) ==
    /\ \A i \in DOMAIN m.defs : DefScoped(m, i)
    /\ LET c == [m EXCEPT !.canon = CanonicalMap(m)]
       IN  \A i \in DOMAIN m.defs : m.defs[i].super # NoSuper => SupertypeMatches(c, i)

(* The end of the type section: the checks, then the metadata.  Whatever   *)
(* fails, memory included, leaves no metadata behind.                      *)
EndTypeSection(m) ==
    /\ Loading(m)
    /\ \E oom \in BOOLEAN :
          mod' = [mod EXCEPT ![m] = IF SectionAccepted(@) /\ ~oom THEN WithMetadata(@) ELSE Cleared(@)]
    /\ defined' = NoDefine
    /\ UNCHANGED <<cache, asked>>

(* Mutant: a type that refers to itself matches, too. *)
DefineMatchesSelf(m, i, d) ==
    m.defs[i].size = 1 /\ [f \in DOMAIN d |-> m.defs[i][f]] = d

(* wah_define_type_matches: a defined type is a group of its own that      *)
(* refers to earlier types only, so type i is the same only if none of the *)
(* references it has in common with d points to i itself.                  *)
DefineMatches(m, i, d) ==
    LET e == m.defs[i]
    IN  /\ e.size = 1
        /\ [f \in DOMAIN d |-> e[f]] = d
        /\ \A j \in DOMAIN d.ty : IsConcrete(d.ty[j]) => d.ty[j].idx # i

(* wah_define_typev: reuses the first equal type unless a fresh one is     *)
(* asked for.  When the metadata cannot be allocated the type is taken     *)
(* back.                                                                   *)
DefineType(m) ==
    /\ mod[m].phase = "ready"
    /\ \E d \in Specs(m, mod), fresh \in BOOLEAN, oom \in BOOLEAN :
          LET this == mod[m]
              n == Len(this.defs)
              equal == {i \in DOMAIN this.defs : DefineMatches(this, i, d)}
              own == InGroupOf(d, n + 1, 1)
              r == [reprs |-> this.reprs, toRepr |-> Append(this.toRepr, NoRepr)]
              added == IF HasRepr(d) THEN AllocRepr(r, n + 1, d) ELSE r
          IN  IF ~fresh /\ equal # {}
              THEN /\ ~oom
                   /\ defined' = [m |-> m, idx |-> Min(equal), def |-> own]
                   /\ UNCHANGED mod
              ELSE IF oom
              THEN defined' = NoDefine /\ UNCHANGED mod
              ELSE /\ n < MaxTypes(m)
                   /\ mod' = [mod EXCEPT ![m].defs = Append(@, own),
                                         ![m].canon = Append(@, n + 1),
                                         ![m].reprs = added.reprs,
                                         ![m].toRepr = added.toRepr]
                   /\ defined' = [m |-> m, idx |-> n + 1, def |-> own]
    /\ UNCHANGED <<cache, asked>>

(* Any function of the question serves as its slot: entries are only used  *)
(* when the whole question is the same.                                    *)
Slot(q) == (q.s.idx + q.t.idx + Bit(q.s.null) + Bit(q.ma # q.mb)) % CacheSize

(* Mutant: answers given without memory are remembered. *)
AskCachedAlways(acc, q, oom) ==
    LET hit == acc.cache[Slot(q)]
        r == CrossSubtype(mod[q.ma], q.s, mod[q.mb], q.t, oom)
    IN  IF hit.valid /\ hit.q = q THEN [acc EXCEPT !.ok = hit.is]
        ELSE [ok |-> r.v,
              cache |-> [acc.cache EXCEPT ![Slot(q)] = [valid |-> TRUE, q |-> q, is |-> r.v]]]

(* wah_cross_module_subtype_cached *)
AskCached(acc, q, oom) ==
    LET hit == acc.cache[Slot(q)]
        r == CrossSubtype(mod[q.ma], q.s, mod[q.mb], q.t, oom)
        entry == [valid |-> TRUE, q |-> q, is |-> r.v]
    IN  IF hit.valid /\ hit.q = q THEN [acc EXCEPT !.ok = hit.is]
        ELSE [ok |-> r.v,
              cache |-> IF r.oom THEN acc.cache ELSE [acc.cache EXCEPT ![Slot(q)] = entry]]

Question(ma, s, mb, t) == [ma |-> ma, s |-> s, mb |-> mb, t |-> t]

(* wah_host_func_matches: a host function of module mb with the signature  *)
(* h against function type i of ma.                                        *)
HostQuestions(ma, i, mb, h) ==
    LET ft == mod[ma].defs[i]
    IN  [j \in DOMAIN ft.ty |-> IF j <= ft.np THEN Question(ma, ft.ty[j], mb, h.ty[j])
                                ELSE Question(mb, h.ty[j], ma, ft.ty[j])]

Ready == {m \in Modules : mod[m].phase = "ready"}
Funcs(m) == {i \in DOMAIN mod[m].defs :
                mod[m].defs[i].kind = "func" /\ RefIdx(i, FALSE) \in Queries(m, mod)}

(* The questions of one run-time check, asked until one is answered no. *)
AskAll(questions, oom) ==
    LET Step(acc, q) == IF acc.ok THEN AskCached(acc, q, oom) ELSE acc
    IN  FoldLeft(Step, [ok |-> TRUE, cache |-> cache], questions)

Ask ==
    /\ asked < MaxAsked
    /\ asked' = asked + 1
    /\ \E ma, mb \in Ready, oom \in BOOLEAN :
          \/ \E s \in Queries(ma, mod), t \in Queries(mb, mod) :
                cache' = AskAll(<<Question(ma, s, mb, t)>>, oom).cache
          \/ \E i \in Funcs(ma), h \in Funcs(mb) :
                /\ mod[ma].defs[i].np = mod[mb].defs[h].np
                /\ Len(mod[ma].defs[i].ty) = Len(mod[mb].defs[h].ty)
                /\ cache' = AskAll(HostQuestions(ma, i, mb, mod[mb].defs[h]), oom).cache
    /\ defined' = NoDefine
    /\ UNCHANGED mod

Next ==
    \/ \E m \in Modules : ParseGroup(m) \/ EndTypeSection(m) \/ DefineType(m)
    \/ Ask

Spec == Init /\ [][Next]_vars

---------------------------------------------------------------------------
(* wah_check_layouts, the part of the lowered-code checker that is about   *)
(* types: fields end inside the object and a subtype keeps the storage and *)
(* the offsets of its supertype.                                           *)
Storage(t) == [size |-> FieldSize(t), packed |-> t.head \in {"i8", "i16"}, ref |-> IsRef(t)]

CheckLayouts(m) ==
    \A i \in DOMAIN m.defs : HasRepr(m.defs[i]) =>
        LET d == m.defs[i]
            l == m.reprs[m.toRepr[i]]
            e == m.defs[d.super]
        IN  /\ m.toRepr[i] # NoRepr
            /\ d.kind = "array" => Len(d.ty) = 1 /\ l.size = FieldSize(d.ty[1])
            /\ d.kind = "struct" => /\ Len(l.offsets) = Len(d.ty)
                                    /\ \A f \in DOMAIN d.ty : l.offsets[f] + FieldSize(d.ty[f]) <= l.size
            /\ d.super # NoSuper =>
                  /\ e.kind = d.kind /\ Len(e.ty) <= Len(d.ty)
                  /\ \A f \in DOMAIN e.ty :
                        /\ Storage(d.ty[f]) = Storage(e.ty[f])
                        /\ l.offsets[f] = m.reprs[m.toRepr[d.super]].offsets[f]

---------------------------------------------------------------------------
(* The reference: a type as the tree its recursive group unfolds to, in    *)
(* which references into the group are offsets and the others are trees.   *)

RECURSIVE GroupTree(_, _)

RefTree(m, t, d) ==
    LET e == m.defs[t.idx]
    IN  CASE ~IsConcrete(t) -> <<"abs", t.head, t.null>>
          [] InGroup(t.idx, d) -> <<"in", t.idx - d.start, t.null>>
          [] OTHER -> <<"out", GroupTree(m, e), t.idx - e.start, t.null>>

MemberTree(m, d) ==
    <<d.kind, d.final,
      IF d.super = NoSuper THEN <<"top">> ELSE RefTree(m, SuperRef(d), d),
      d.np, [j \in DOMAIN d.ty |-> RefTree(m, d.ty[j], d)], d.mut>>

GroupTree(m, e) == [k \in 1..e.size |-> MemberTree(m, m.defs[e.start + k - 1])]

TypeTree(m, i) == <<GroupTree(m, m.defs[i]), i - m.defs[i].start>>

(* How many groups a reference may have to unfold, one inside the other. *)
RECURSIVE Depth(_, _)
Depth(m, d) ==
    LET refs == {t \in UNION {ToSet(m.defs[k].ty) \cup {SuperRef(m.defs[k])} : k \in Group(d)} :
                    IsConcrete(t) /\ t.idx # NoSuper /\ ~InGroup(t.idx, d)}
    IN  Max({0} \cup {1 + Depth(m, m.defs[t.idx]) : t \in refs})

TreeSubtype(ma, s, mb, t) ==
    /\ s.null => t.null
    /\ \E u \in {s.idx} \cup ToSet(Supers(ma, s.idx)) : TypeTree(ma, u) = TypeTree(mb, t.idx)

Shallow(ma, s) == \A u \in {s.idx} \cup ToSet(Supers(ma, s.idx)) : Depth(ma, ma.defs[u]) <= MaxRecursion

---------------------------------------------------------------------------
(* Two types of a type section have the same canonical index exactly when  *)
(* they are the same type: the hash only narrows the search, colliding     *)
(* hashes do not merge distinct groups and equal groups are always found,  *)
(* through however many earlier groups they refer.  Types defined later    *)
(* are never merged with different ones.                                   *)
CanonExact ==
    \A m \in Ready : \A i, j \in DOMAIN mod[m].defs :
        LET equal == TypeTree(mod[m], i) = TypeTree(mod[m], j)
            merged == mod[m].canon[i] = mod[m].canon[j]
        IN  /\ merged => equal
            /\ i <= mod[m].parsed /\ j <= mod[m].parsed => (equal => merged)

SameType(m, s, t) ==
    \/ s = t
    \/ IsConcrete(s) /\ IsConcrete(t) /\ s.null = t.null /\ TypeTree(m, s.idx) = TypeTree(m, t.idx)

(* Whenever the code lets a value of one type pass for another, however    *)
(* many declarations and equal groups lie between them, its fields are     *)
(* where the other type says, mutable ones have the same type, immutable   *)
(* ones and results a subtype, parameters a supertype.                     *)
FieldsAgree ==
    \A m \in Ready : \A i, j \in DOMAIN mod[m].defs :
        LET d == mod[m].defs[i]
            e == mod[m].defs[j]
            Offsets(k) == mod[m].reprs[mod[m].toRepr[k]].offsets
        IN  i <= mod[m].parsed /\ IsSubtype(RefIdx(i, FALSE), RefIdx(j, FALSE), mod[m]) =>
              /\ d.kind = e.kind /\ d.np = e.np /\ Len(d.ty) >= Len(e.ty)
              /\ \A f \in DOMAIN e.ty :
                    IF d.kind = "func" /\ f <= d.np THEN IsSubtype(e.ty[f], d.ty[f], mod[m])
                    ELSE IF d.kind # "func" /\ (d.mut[f] \/ e.mut[f])
                    THEN d.mut[f] = e.mut[f] /\ SameType(mod[m], d.ty[f], e.ty[f])
                    ELSE IsSubtype(d.ty[f], e.ty[f], mod[m])
              /\ d.kind # "func" => IsPrefix(Offsets(j), Offsets(i))

(* The subtype relation over the built-in and the defined types is         *)
(* transitive, and related reference types have the same hierarchy top,    *)
(* above both: casts within a hierarchy rely on it.                        *)
HierarchySound ==
    \A m \in Ready :
        LET T == {RefIdx(i, n) : i \in DOMAIN mod[m].defs, n \in BOOLEAN}
                 \cup {Ref(h, h = "eq") : h \in Heaps} \cup {Num("i32")}
            above == [s \in T |-> {t \in T : IsSubtype(s, t, mod[m])}]
        IN  \A s \in T :
               /\ \A t \in above[s] : /\ above[t] \subseteq above[s]
                                      /\ HierarchyTop(t, mod[m]) = HierarchyTop(s, mod[m])
               /\ IsRef(s) => IsSubtype(s, Ref(HierarchyTop(s, mod[m]), TRUE), mod[m])

(* The subtype relation is transitive within each hierarchy, and whatever  *)
(* it relates has fields that agree: no chain of declarations, merged      *)
(* groups and built-in types lets code read a value as what it is not.     *)
SubtypeCoherent == FieldsAgree /\ HierarchySound

(* Across modules, "is a subtype" is answered exactly as the trees say for *)
(* types nested at most MaxRecursion deep; for deeper ones, or without     *)
(* memory, the only error is a no, and lack of memory is reported.  Within *)
(* a module, the casts of objects to its parsed types agree.               *)
CrossExact ==
    \A ma, mb \in Ready : \A i \in DOMAIN mod[ma].defs, j \in DOMAIN mod[mb].defs, n \in BOOLEAN :
        LET s == RefIdx(i, FALSE)
            t == RefIdx(j, n)
            want == TreeSubtype(mod[ma], s, mod[mb], t)
            got == CrossSubtype(mod[ma], s, mod[mb], t, FALSE)
            poor == CrossSubtype(mod[ma], s, mod[mb], t, TRUE)
        IN  /\ got.v => want
            /\ want /\ Shallow(mod[ma], s) => got.v
            /\ poor.v => want
            /\ poor.v # got.v => poor.oom
            /\ ma = mb /\ i <= mod[ma].parsed /\ j <= mod[ma].parsed =>
                  AcceptsRepr(mod[ma], j, i) = TreeSubtype(mod[ma], s, mod[ma], RefIdx(j, FALSE))

(* What the cache remembers is the answer: a no that came from lack of     *)
(* memory is not remembered, and an entry is not used for another question *)
(* of the same slot.                                                       *)
CacheTrue ==
    \A s \in DOMAIN cache : cache[s].valid =>
        LET q == cache[s].q
        IN  cache[s].is = CrossSubtype(mod[q.ma], q.s, mod[q.mb], q.t, FALSE).v

(* The fields of every struct lie inside it, aligned to their sizes, apart *)
(* from each other, and waste at most 15 bytes.  Representations and the   *)
(* struct and array types correspond one to one, whatever failed, and      *)
(* wah_check_layouts, by which the checker guards the lowered code, has    *)
(* nothing to object.                                                      *)
LayoutSound ==
    \A m \in Modules :
        /\ m \in Ready => CheckLayouts(mod[m])
        /\ Len(mod[m].reprs) = Cardinality({i \in DOMAIN mod[m].toRepr : mod[m].toRepr[i] # NoRepr})
        /\ \A r \in DOMAIN mod[m].reprs :
              LET l == mod[m].reprs[r]
                  d == mod[m].defs[l.typeidx]
                  Bytes(f) == l.offsets[f] .. l.offsets[f] + FieldSize(d.ty[f]) - 1
              IN  /\ mod[m].toRepr[l.typeidx] = r /\ HasRepr(d)
                  /\ \A f \in DOMAIN d.ty : /\ l.offsets[f] % FieldSize(d.ty[f]) = 0
                                            /\ Bytes(f) \subseteq 0..l.size - 1
                  /\ \A f, g \in DOMAIN d.ty : f # g => Bytes(f) \cap Bytes(g) = {}
                  /\ l.size - Cardinality(UNION {Bytes(f) : f \in DOMAIN d.ty}) <= 15

(* wah_define_type returns a type that is the one asked for, also when it  *)
(* reuses one of a parsed section that looks the same but refers to itself *)
(* where the asked one refers to the existing type.                        *)
DefineFaithful ==
    defined # NoDefine =>
        LET m == mod[defined.m]
            asIf == [m EXCEPT !.defs = [i \in 1..Len(@) + 1 |->
                        IF i <= Len(@) THEN @[i] ELSE [defined.def EXCEPT !.start = i]]]
        IN  TypeTree(m, defined.idx) = TypeTree(asIf, Len(asIf.defs))

=============================================================================
