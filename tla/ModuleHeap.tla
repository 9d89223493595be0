----------------------------- MODULE ModuleHeap -----------------------------
(***************************************************************************)
(* What a wah_module_t owns: its arrays, their entries and counts, the      *)
(* steps by which a handler allocates, moves and releases them, and         *)
(* wah_free_module.  ModuleLife builds the handlers from these.             *)
(***************************************************************************)
EXTENDS Integers, FiniteSets, Functions

CONSTANTS GrowFrom     \* the capacity wah_grow_array starts from

ASSUME GrowFromAssumption == GrowFrom \in Nat \ {0}

ArrayOf == [type |-> "types", import |-> "imports", function |-> "function_type_indices",
            table |-> "tables", memory |-> "memories", tag |-> "tags", global |-> "globals",
            export |-> "exports", element |-> "element_segments", code |-> "code_bodies",
            data |-> "data_segments"]

Kinds == {"func", "table", "memory", "global", "tag"}

ImportsOf == [func |-> "func_imports", table |-> "table_imports", memory |-> "memory_imports",
              global |-> "global_imports", tag |-> "tag_imports"]

DefinedIn == [func |-> "function_type_indices", table |-> "tables", memory |-> "memories",
              global |-> "globals", tag |-> "tags"]

ImportArrays == {"func_imports", "table_imports", "memory_imports", "global_imports", "tag_imports"}

\* Arrays whose entries own nothing.
FlatArrays == {"imports", "function_type_indices", "memories", "tags", "export_order",
               "typeidx_to_repr", "canonical_map", "declared_funcs"}

Arrays == ImportArrays \cup FlatArrays
          \cup {"types", "type_defs", "tables", "globals", "exports", "element_segments",
                "code_bodies", "data_segments", "functions", "repr_infos"}

-----------------------------------------------------------------------------
(* Allocations.  A block is named by the array and the entry it is for.     *)

Block(a, i, f) == <<a, i, f>>

ArrayBlock(a) == Block(a, 0, "array")

\* What the pointer to an allocated array points to; a NULL pointer, to nothing.
Pointer(a) == {ArrayBlock(a)}

\* What an entry that was never written holds and points to.
Garbage == [own |-> {Block("garbage", 0, "")}, e |-> [k |-> "garbage"]]

\* For each array: its count, its pointer, its capacity, and for each entry what the
\* entry points to and what it says.
EmptyModule ==
    [cnt |-> [a \in Arrays |-> 0], ptr |-> [a \in Arrays |-> {}], cap |-> [a \in Arrays |-> 0],
     own |-> [a \in Arrays |-> [i \in 1..0 |-> {}]], ent |-> [a \in Arrays |-> [i \in 1..0 |-> {}]],
     types_cap |-> 0, declared |-> {}, start |-> {},
     has_data_count_section |-> FALSE, min_data_segment_count_required |-> 0]

\* The local variables of a handler: blocks it holds, and the arrays of the import section.
NoLocals ==
    [held |-> {},
     cnt |-> [a \in ImportArrays |-> 0], ptr |-> [a \in ImportArrays |-> {}],
     cap |-> [a \in ImportArrays |-> 0],
     own |-> [a \in ImportArrays |-> [i \in 1..0 |-> {}]],
     ent |-> [a \in ImportArrays |-> [i \in 1..0 |-> {}]]]

NoHeap == [live |-> {}, bad |-> FALSE]

Alloc(h, S) == [live |-> h.live \cup S, bad |-> h.bad]

\* Freeing what is not allocated (twice, or through garbage) is misuse.
Free(h, S) == [live |-> h.live \ S, bad |-> h.bad \/ ~(S \subseteq h.live)]

\* The pointers freed with the arrays A of t, n of their entries first: those of entry i,
\* and at 0 the one to the array.
Held(t, A, n) ==
    [a \in {x \in A : t.ptr[x] # {}} |->
        [i \in 0..n[a] |-> IF i = 0 THEN t.ptr[a]
                          ELSE IF i <= t.cap[a] THEN t.own[a][i] ELSE Garbage.own]]

HeldWith(held, a) == UNION {held[a][i] : i \in DOMAIN held[a]}

AllHeld(held) == UNION {HeldWith(held, a) : a \in DOMAIN held}

HeldTwice(held) ==
    \E a \in DOMAIN held :
        \/ \E i, j \in DOMAIN held[a] : i < j /\ held[a][i] \cap held[a][j] # {}
        \/ HeldWith(held, a) \cap UNION {HeldWith(held, b) : b \in DOMAIN held \ {a}} # {}

FreeHeld(h, held) ==
    [live |-> h.live \ AllHeld(held),
     bad |-> h.bad \/ ~(AllHeld(held) \subseteq h.live) \/ HeldTwice(held)]

Put(f, i, v) == [j \in DOMAIN f |-> IF j = i THEN v ELSE f[j]]

\* The arrays A of t become NULL.
Without(t, A) ==
    [t EXCEPT !.ptr = [a \in DOMAIN @ |-> IF a \in A THEN {} ELSE @[a]],
              !.cap = [a \in DOMAIN @ |-> IF a \in A THEN 0 ELSE @[a]],
              !.own = [a \in DOMAIN @ |-> IF a \in A THEN [i \in 1..0 |-> {}] ELSE @[a]],
              !.ent = [a \in DOMAIN @ |-> IF a \in A THEN [i \in 1..0 |-> {}] ELSE @[a]]]

\* realloc: the entries there were stay, and what follows them is garbage.
Realloc(f, cap, n, garbage) == [i \in 1..n |-> IF i <= cap THEN f[i] ELSE garbage]

Resized(t, a, n) ==
    [t EXCEPT !.ptr = Put(t.ptr, a, Pointer(a)), !.cap = Put(t.cap, a, n),
              !.own = Put(t.own, a, Realloc(t.own[a], t.cap[a], n, Garbage.own)),
              !.ent = Put(t.ent, a, Realloc(t.ent[a], t.cap[a], n, Garbage.e))]

\* WAH_MALLOC_ARRAY: nothing is allocated for a count of zero.
NewArray(t, a, n) == IF n = 0 THEN Without(t, {a}) ELSE Resized(Without(t, {a}), a, n)

Pow2[n \in Nat] == IF n = 0 THEN 1 ELSE 2 * Pow2[n - 1]

\* wah_grow_array: the capacity doubles until it holds what is needed.
Grown(cap, needed) ==
    IF needed <= cap THEN cap
    ELSE LET from == IF cap = 0 THEN GrowFrom ELSE cap
             steps == CHOOSE n \in 0..needed :
                         from * Pow2[n] >= needed /\ (n = 0 \/ from * Pow2[n - 1] < needed)
         IN  from * Pow2[steps]

-----------------------------------------------------------------------------
(* Index spaces *)

Limit(m, k) == m.cnt[ImportsOf[k]] + m.cnt[DefinedIn[k]]

Entry(m, a, i) == m.ent[a][i + 1]

\* wah_global_is_mutable
GlobalMutable(m, g) ==
    IF g < m.cnt["global_imports"] THEN Entry(m, "global_imports", g).mut
    ELSE Entry(m, "globals", g - m.cnt["global_imports"]).mut

FuncType(m, f) ==
    Entry(m, "types", IF f < m.cnt["func_imports"] THEN Entry(m, "func_imports", f).i
                      ELSE Entry(m, "function_type_indices", f - m.cnt["func_imports"]).i)

\* A type index naming a function type.
IsFuncType(m, t) == t < m.cnt["types"] /\ Entry(m, "types", t).k # "struct"

\* A constant expression is accepted: it may read immutable globals below max only.
ConstExprOK(m, x, max) ==
    /\ x.k = "global.get" => x.i < Limit(m, "global") /\ x.i < max /\ ~GlobalMutable(m, x.i)
    /\ x.k = "ref.func" => x.i < Limit(m, "func")

DeclaredBy(x) == IF x.k = "ref.func" THEN {x.i} ELSE {}

\* wah_is_func_declared
FuncDeclared(m, f) == m.ptr["declared_funcs"] # {} /\ f \in m.declared

-----------------------------------------------------------------------------
(* Steps of a handler over st, the module, the locals and the heap.          *)

\* A store past the end of an array is misuse.
Write(st, a, i, own, e) ==
    IF i \in 1..st.m.cap[a]
    THEN [st EXCEPT !.m.own = Put(st.m.own, a, Put(st.m.own[a], i, own)),
                    !.m.ent = Put(st.m.ent, a, Put(st.m.ent[a], i, e))]
    ELSE [st EXCEPT !.h.bad = TRUE]

\* Entry i of an array is zero-initialised; n is 1 when the count follows the loop, or 0.
Begin(a, i, e, n) == [op |-> "begin", a |-> a, i |-> i, e |-> e, n |-> n]
\* A block is allocated for the entry it is named after,
ForEntry(b) == [op |-> "entry", b |-> b]
\* for a local variable,
ForLocal(b) == [op |-> "local", b |-> b]
\* moved from a local variable to its entry,
Take(b) == [op |-> "take", b |-> b]
\* or released by the handler;
Drop(b) == [op |-> "drop", b |-> b]
\* an array of the module, or a local one of the import section, is (re)allocated;
Resize(a, n) == [op |-> "resize", a |-> a, n |-> n]
ResizeImports(a, n) == [op |-> "resizeImports", a |-> a, n |-> n]
\* an import is stored in the local array of its kind, which then owns its names;
Store(a, i, own, e) == [op |-> "store", a |-> a, i |-> i, own |-> own, e |-> e]
\* a local array becomes the module's; functions are marked in the bitmap of declared ones;
Adopt(a, n) == [op |-> "adopt", a |-> a, n |-> n]
Mark(F) == [op |-> "mark", F |-> F]
\* the capacity of all type arrays is committed.
CommitTypesCap(n) == [op |-> "typesCap", n |-> n]

\* Entry b[2] of array b[1] points to the block b too.
Given(own, b) == Put(own, b[1], Put(own[b[1]], b[2], own[b[1]][b[2]] \cup {b}))

Step(st, g) ==
    CASE g.op = "begin" ->
            [Write(st, g.a, g.i, {}, g.e) EXCEPT !.m.cnt[g.a] = @ + g.n]
      [] g.op = "entry" -> [st EXCEPT !.m.own = Given(st.m.own, g.b), !.h = Alloc(st.h, {g.b})]
      [] g.op = "local" -> [st EXCEPT !.loc.held = @ \cup {g.b}, !.h = Alloc(st.h, {g.b})]
      [] g.op = "take" -> [st EXCEPT !.m.own = Given(st.m.own, g.b), !.loc.held = @ \ {g.b}]
      [] g.op = "drop" -> [st EXCEPT !.loc.held = @ \ {g.b}, !.h = Free(st.h, {g.b})]
      [] g.op = "resize" ->
            [st EXCEPT !.m = Resized(st.m, g.a, g.n), !.h = Alloc(st.h, Pointer(g.a))]
      [] g.op = "resizeImports" ->
            [st EXCEPT !.loc = Resized(st.loc, g.a, g.n), !.h = Alloc(st.h, Pointer(g.a))]
      [] g.op = "store" ->
            [st EXCEPT !.loc.held = @ \ g.own, !.loc.cnt[g.a] = @ + 1,
                       !.loc.own = Put(st.loc.own, g.a, Put(st.loc.own[g.a], g.i, g.own)),
                       !.loc.ent = Put(st.loc.ent, g.a, Put(st.loc.ent[g.a], g.i, g.e))]
      [] g.op = "adopt" ->
            [st EXCEPT !.m = Resized(Without(st.m, {g.a}), g.a, g.n), !.loc.held = @ \ Pointer(g.a)]
      [] g.op = "mark" ->
            [st EXCEPT !.m.declared = @ \cup g.F,
                       !.h.bad = @ \/ \E f \in g.F : f >= st.m.cap["declared_funcs"]]
      [] g.op = "typesCap" -> [st EXCEPT !.m.types_cap = g.n]

\* A handler at work: the state it has reached, and the states in which a step that
\* failed would have stopped it.
Start(st) == [now |-> st, past |-> {}]

r ++ g == [now |-> Step(r.now, g), past |-> r.past \cup {r.now}]

When(r, cond, g) == IF cond THEN r ++ g ELSE r

Stops(r) == r.past \cup {r.now}

\* WAH_ENSURE_CAP on an array of the module
EnsureCap(r, a, needed) ==
    LET cap == Grown(r.now.m.cap[a], needed)
    IN  When(r, cap # r.now.m.cap[a], Resize(a, cap))

\* wah_type_section_ensure_capacity: the capacity is committed when all arrays are grown.
EnsureTypes(r, needed) ==
    LET m == r.now.m
        cap == Grown(m.types_cap, needed)
        both == r ++ Resize("types", cap) ++ Resize("type_defs", cap)
        repr == When(both, m.ptr["typeidx_to_repr"] # {}, Resize("typeidx_to_repr", cap))
        all == When(repr, m.ptr["canonical_map"] # {}, Resize("canonical_map", cap))
    IN  IF cap = m.types_cap THEN r ELSE all ++ CommitTypesCap(cap)

\* wah_declare_func: the bitmap is sized by the functions known when it is first needed.
Declare(r, F) ==
    LET m == r.now.m
        sized == When(r, m.ptr["declared_funcs"] = {}, Resize("declared_funcs", Limit(m, "func")))
    IN  IF F = {} \/ \E f \in F : f >= Limit(m, "func") THEN r ELSE sized ++ Mark(F)

-----------------------------------------------------------------------------
(* wah_free_module *)

\* The entries freed with each array; type_defs are counted by the types.
FreedEntries(m) ==
    [a \in Arrays |-> IF a \in FlatArrays THEN 0
                     ELSE m.cnt[IF a = "type_defs" THEN "types" ELSE a]]

\* The name of a host function's export belongs to the function.
IsHostExport(m, x) ==
    /\ x.k = "export" /\ x.kind = "func" /\ m.ptr["functions"] # {}
    /\ \E local \in 0..m.cnt["functions"] - 1 :
          x.i = m.cnt["func_imports"] + local /\ Entry(m, "functions", local).k = "host"

ExportOwn(m) ==
    [i \in DOMAIN m.own["exports"] |-> IF IsHostExport(m, m.ent["exports"][i]) THEN {} ELSE m.own["exports"][i]]

Freeable(m) == [m EXCEPT !.own = Put(m.own, "exports", ExportOwn(m))]

HeldByModule(m) == Held(Freeable(m), Arrays, FreedEntries(m))

FreeModule(st) == [m |-> EmptyModule, loc |-> NoLocals, h |-> FreeHeld(st.h, HeldByModule(st.m))]

=============================================================================
