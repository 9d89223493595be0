----------------------------- MODULE ModuleLife -----------------------------
(***************************************************************************)
(* The life of a wah_module_t: wah_parse_module reads the sections of a     *)
(* binary entry by entry, wah_new_module starts an empty module, and the    *)
(* wah_define_type and wah_export_* calls extend either kind, until         *)
(* wah_free_module releases it.                                             *)
(*                                                                          *)
(* Two things are followed.  Ownership: which allocation is held by which   *)
(* pointer of the module, of an entry of one of its arrays, or of a local   *)
(* variable of the running handler.  A handler may stop after any of its    *)
(* allocations, because the next one fails or because the input turns out   *)
(* to be malformed, and everything it leaves behind is released by its own  *)
(* cleanup and by wah_free_module.  Index spaces: every index an entry      *)
(* records is checked against the counts known when it is read, while the   *)
(* module is used with the counts of the end.                               *)
(*                                                                          *)
(* Names are integers, ordered as wah_export_name_cmp orders the strings.   *)
(* Value types are left out: TypeSystem and Validator model them.           *)
(***************************************************************************)
EXTENDS ModuleHeap

CONSTANTS MaxEntries,  \* bound on the entries of a binary
          MaxCalls,    \* bound on its entries and the calls after it, when there are calls
          MayBeEmpty,  \* the sections a binary may give without entries
          MaxIndex,    \* the largest index a binary may name
          Names,       \* export names
          NewCap       \* functions_cap and exports_cap of a new module

ASSUME ModuleLifeAssumption ==
    /\ MaxEntries \in Nat /\ MaxCalls \in Nat /\ MaxIndex \in Nat /\ Names \subseteq Nat
    /\ MayBeEmpty \subseteq DOMAIN ArrayOf /\ NewCap \in Nat \ {0}

VARIABLES phase,   \* "parsing", "ready" (accepted or new), "failed", "freed"
          cur,     \* the section being read, or "none"
          todo,    \* entries of it still to read
          last,    \* last_parsed_order
          mod,     \* the wah_module_t
          loc,     \* what the local variables of the running handler own
          heap,    \* live allocations, and whether one was misused
          spent    \* entries read and calls made so far

vars == <<phase, cur, todo, last, mod, loc, heap, spent>>

\* The order of the sections in a binary (wah_section_handlers).
Order == [type |-> 1, import |-> 2, function |-> 3, table |-> 4, memory |-> 5, tag |-> 6,
          global |-> 7, export |-> 8, start |-> 9, element |-> 10, datacount |-> 11,
          code |-> 12, data |-> 13]

St == [m |-> mod, loc |-> loc, h |-> heap]

-----------------------------------------------------------------------------
(* Failing.  Each handler undoes what is not the module's yet, and some of    *)
(* them what is; wah_parse_module then frees the module.                      *)

FreeLocals(h, l) == FreeHeld(Free(h, l.held), Held(l, ImportArrays, l.cnt))

\* The arrays of the module a handler frees itself, and the counts it resets with them
\* (code_count is kept, with code_bodies NULL); wah_module_build_type_metadata for the types.
Undone(s) ==
    CASE s = "type" -> {"canonical_map", "typeidx_to_repr", "repr_infos"}
      [] s = "import" -> {"imports"}
      [] s = "tag" -> {"tags"}
      [] s = "export" -> {"exports", "export_order"}
      [] s = "code" -> {"code_bodies"}
      [] OTHER -> {}

Uncounted == {"repr_infos", "tags", "exports"}

Cleanup(s, st) ==
    LET A == Undone(s)
    IN  [m |-> [Without(st.m, A) EXCEPT
                  !.cnt = [a \in Arrays |-> IF a \in A \cap Uncounted THEN 0 ELSE @[a]]],
         loc |-> NoLocals,
         h |-> FreeHeld(FreeLocals(st.h, st.loc), Held(st.m, A, FreedEntries(st.m)))]

\* A call that fails keeps what the module holds.
Keep(st) == [m |-> st.m, loc |-> NoLocals, h |-> FreeLocals(st.h, st.loc)]

Abort(st) ==
    LET f == FreeModule(st)
    IN  /\ mod' = f.m /\ loc' = f.loc /\ heap' = f.h
        /\ phase' = "failed" /\ cur' = "none" /\ todo' = 0 /\ last' = 0 /\ UNCHANGED spent

Now(st) == mod' = st.m /\ loc' = st.loc /\ heap' = st.h

-----------------------------------------------------------------------------
(* wah_parse_module: the section loop *)

SectionInOrder(s) == Order[s] > last

Parsing(s) == phase = "parsing" /\ cur = s

\* Counts that are set before the array is allocated, and once it is.
CountFirst(s, n, old) ==
    IF s \in {"function", "memory"} THEN n ELSE IF s = "data" THEN old ELSE 0

\* data_segment_count is what wah_parse_datacount_section left.
CountThenKept(s, n, old) ==
    IF s \in {"function", "memory", "tag"} THEN n ELSE IF s = "data" THEN old ELSE 0

CountThen(s, n, old) ==
    CASE s \in {"function", "memory", "tag"} -> n
      [] s = "data" /\ n = 0 -> old
      [] OTHER -> 0

\* A section with entries begins: its count is checked and its array allocated.
OpenSection(s, n) ==
    LET a == ArrayOf[s]
        counted == [mod EXCEPT !.cnt[a] = CountFirst(s, n, @)]
        allocated == [NewArray(mod, a, n) EXCEPT !.cnt[a] = CountThen(s, n, @)]
        begun == IF s = "type" THEN [Without(counted, {a, "type_defs"}) EXCEPT !.types_cap = 0]
                 ELSE allocated
    IN  /\ Parsing("none") /\ SectionInOrder(s) /\ spent + n <= MaxEntries
        /\ n = 0 => s \in MayBeEmpty
        /\ \/ /\ s = "code" => n = mod.cnt["function_type_indices"]
              /\ (s = "data" /\ mod.has_data_count_section) => n = mod.cnt["data_segments"]
              /\ cur' = s /\ todo' = n /\ last' = Order[s] /\ UNCHANGED <<phase, spent>>
              /\ Now([m |-> begun, loc |-> NoLocals,
                      h |-> IF s = "type" THEN heap ELSE Alloc(heap, begun.ptr[a])])
           \/ Abort(Cleanup(s, [m |-> counted, loc |-> NoLocals, h |-> heap]))

\* An unknown section, one out of order or too long, or a bad header; or a custom
\* section, which changes nothing unless its name is malformed.
BadSection == Parsing("none") /\ Abort(St)

\* The handler of section s reads one entry, and may stop at any of its steps.
Read(s, r, ok) ==
    \/ ok /\ Now(r.now) /\ todo' = todo - 1 /\ spent' = spent + 1
          /\ UNCHANGED <<phase, cur, last>>
    \/ \E st \in Stops(r) : Abort(Cleanup(s, st))

-----------------------------------------------------------------------------
(* The entries a binary may hold *)

Index == 0..MaxIndex

Expr(k, i) == [k |-> k, i |-> i]

OffsetExprs == {Expr("const", 0)} \cup {Expr("global.get", g) : g \in Index}

RefExprs == OffsetExprs \cup {Expr("ref.func", f) : f \in Index}

NoExpr == Expr("none", 0)

TypeEntries == {[k |-> "nullary"], [k |-> "func"], [k |-> "struct"]}

ImportEntries ==
    [k : {"func", "tag"}, i : Index, mut : {FALSE}] \cup [k : {"table", "memory"}, i : {0}, mut : {FALSE}]
    \cup [k : {"global"}, i : {0}, mut : BOOLEAN]

\* A segment of one item, an index or an expression, or of none; its offset does not
\* depend on its items, so they vary one at a time.
ElementEntries ==
    LET items == {NoExpr} \cup {Expr("index", f) : f \in Index} \cup RefExprs
    IN  [k : {"element"}, mode : {"active"}, i : Index, off : OffsetExprs, item : {NoExpr}]
        \cup [k : {"element"}, mode : {"active"}, i : {0}, off : {Expr("const", 0)}, item : items]
        \cup [k : {"element"}, mode : {"passive", "declarative"}, i : {0}, off : {NoExpr}, item : items]

DataEntries ==
    [k : {"data"}, mode : {"active"}, i : Index, off : {Expr("const", 0)}]
    \cup [k : {"data"}, mode : {"active"}, i : {0}, off : OffsetExprs]
    \cup {[k |-> "data", mode |-> "passive", i |-> 0, off |-> NoExpr]}

\* What a body uses of the module, one instruction of each kind.
BodyUses ==
    {Expr("nop", 0)} \cup
    {Expr(k, i) : k \in {"call", "ref.func", "table", "memory", "global", "throw", "elem.drop", "data.drop"},
                  i \in Index}

-----------------------------------------------------------------------------
(* One action per section handler *)

Local(b) == Block("local", 0, b)

\* The blocks wah_parse_composite_type allocates for a type.
HasParts(e) == e.k # "nullary"

Parts(i, e) ==
    IF e.k = "func" THEN <<Block("types", i, "param_types"), Block("types", i, "result_types")>>
    ELSE <<Block("type_defs", i, "field_types"), Block("type_defs", i, "field_mutables")>>

BeginType(r, i, e) == r ++ Begin("type_defs", i, [k |-> "def"], 0) ++ Begin("types", i, e, 1)

TypeRun(e) ==
    LET i == mod.cnt["types"] + 1
        begun == BeginType(EnsureTypes(Start(St), i), i, e)
    IN  IF HasParts(e) THEN begun ++ ForEntry(Parts(i, e)[1]) ++ ForEntry(Parts(i, e)[2]) ELSE begun

ParseType == Parsing("type") /\ todo > 0 /\ \E e \in TypeEntries : Read("type", TypeRun(e), TRUE)

\* The name is owned by the local variable until the entry of its kind holds it.
ImportRun(e) ==
    LET a == ImportsOf[e.k]
        i == loc.cnt[a] + 1
        cap == Grown(loc.cap[a], i)
        named == Start(St) ++ ForLocal(Block(a, i, "module")) ++ ForLocal(Block(a, i, "field"))
    IN  When(named, cap # loc.cap[a], ResizeImports(a, cap))
        ++ Store(a, i, {Block(a, i, "module"), Block(a, i, "field")}, e)

ImportOK(m, e) ==
    /\ e.k \in {"func", "tag"} => IsFuncType(m, e.i)
    /\ e.k = "tag" => Entry(m, "types", e.i).k = "nullary"

ParseImport ==
    Parsing("import") /\ todo > 0 /\ \E e \in ImportEntries : Read("import", ImportRun(e), ImportOK(mod, e))

\* Sections whose entries own nothing: only the slot is written.
Plain(s, e) == Start(St) ++ Begin(ArrayOf[s], mod.cap[ArrayOf[s]] - todo + 1, e, 0)

ParseFunction ==
    /\ Parsing("function") /\ todo > 0
    /\ \E t \in Index : Read("function", Plain("function", Expr("function", t)), IsFuncType(mod, t))

ParseMemory == Parsing("memory") /\ todo > 0 /\ Read("memory", Plain("memory", Expr("memory", 0)), TRUE)

ParseTag ==
    /\ Parsing("tag") /\ todo > 0
    /\ \E t \in Index : Read("tag", Plain("tag", Expr("tag", t)),
                            IsFuncType(mod, t) /\ Entry(mod, "types", t).k = "nullary")

\* Entry number cnt + 1 of an array whose count follows the loop.
Counted(m, a, e) == Begin(a, m.cnt[a] + 1, e, 1)

TableRun(x) ==
    LET begun == Start(St) ++ Counted(mod, "tables", [k |-> "table", x |-> x])
    IN  When(Declare(begun, DeclaredBy(x)), x.k # "none",
             ForEntry(Block("tables", mod.cnt["tables"] + 1, "init_expr")))

ParseTable ==
    /\ Parsing("table") /\ todo > 0
    /\ \E x \in RefExprs \cup {NoExpr} : Read("table", TableRun(x), ConstExprOK(mod, x, Limit(mod, "global")))

\* Global initialisers read the globals before their own.
MaxGlobal(m, i) == m.cnt["global_imports"] + i - 1

GlobalRun(x, mut) ==
    LET i == mod.cnt["globals"] + 1
        begun == Start(St) ++ Counted(mod, "globals", [k |-> "global", x |-> x, mut |-> mut])
    IN  When(Declare(begun, DeclaredBy(x)), x.k = "global.get", ForEntry(Block("globals", i, "deps")))
        ++ ForEntry(Block("globals", i, "init_expr"))

ParseGlobal ==
    /\ Parsing("global") /\ todo > 0
    /\ \E x \in RefExprs, mut \in BOOLEAN :
          LET r == GlobalRun(x, mut)
          IN  Read("global", r, ConstExprOK(r.now.m, x, MaxGlobal(mod, mod.cnt["globals"] + 1)))

Export(name, kind, i) == [k |-> "export", name |-> name, kind |-> kind, i |-> i]

ExportRun(name, kind, i) ==
    LET named == Start(St) ++ Counted(mod, "exports", Export(name, kind, i))
                 ++ ForEntry(Block("exports", mod.cnt["exports"] + 1, "name"))
    IN  IF kind = "func" THEN Declare(named, {i}) ELSE named

ParseExport ==
    /\ Parsing("export") /\ todo > 0
    /\ \E name \in Names, kind \in Kinds, i \in Index :
          Read("export", ExportRun(name, kind, i), i < Limit(mod, kind))

ParseStart ==
    /\ Parsing("none") /\ SectionInOrder("start")
    /\ \E f \in Index :
          \/ /\ f < Limit(mod, "func") /\ FuncType(mod, f).k = "nullary"
             /\ mod' = [mod EXCEPT !.start = {f}] /\ last' = Order["start"]
             /\ UNCHANGED <<phase, cur, todo, loc, heap, spent>>
          \/ Abort(St)

\* Declarative segments are validated and keep nothing; the items of the others are
\* function indices, or expressions copied from a temporary one.
ItemRun(r, i, e) ==
    LET D == IF e.item.k = "index" THEN {e.item.i} ELSE DeclaredBy(e.item)
        item(f) == ForEntry(Block("element_segments", i, f))
    IN  CASE e.item.k = "none" -> r
          [] e.item.k # "none" /\ e.mode = "declarative" -> Declare(r, D)
          [] e.item.k = "index" /\ e.mode # "declarative" -> Declare(r ++ item("func_indices"), D)
          [] OTHER -> Declare(r ++ item("offsets"), D)
                      ++ ForLocal(Local("parsed_expr")) ++ item("bytecode") ++ Drop(Local("parsed_expr"))

ElementRun(e) ==
    LET i == mod.cnt["element_segments"] + 1
        begun == Start(St) ++ Counted(mod, "element_segments", e)
    IN  ItemRun(When(begun, e.mode = "active", ForEntry(Block("element_segments", i, "offset_expr"))), i, e)

ElementOK(m, e) ==
    /\ e.mode = "active" => e.i < Limit(m, "table")
    /\ ConstExprOK(m, e.off, Limit(m, "global"))
    /\ IF e.item.k = "index" THEN e.item.i < Limit(m, "func")
       ELSE ConstExprOK(m, e.item, Limit(m, "global"))

ParseElement ==
    /\ Parsing("element") /\ todo > 0
    /\ \E e \in ElementEntries : Read("element", ElementRun(e), ElementOK(mod, e))

ParseDataCount ==
    /\ Parsing("none") /\ SectionInOrder("datacount")
    /\ \/ /\ \E n \in Index : mod' = [mod EXCEPT !.cnt["data_segments"] = n,
                                            !.has_data_count_section = TRUE]
          /\ last' = Order["datacount"] /\ UNCHANGED <<phase, cur, todo, loc, heap, spent>>
       \/ Abort(St)

\* Locals, then the analysed code (instructions and reference maps), of which the maps
\* become the body's, then the lowered code.
CodeRun(u) ==
    LET body(f) == Block("code_bodies", mod.cnt["code_bodies"] + 1, f)
        begun == Start(St) ++ Counted(mod, "code_bodies", u) ++ ForEntry(body("local_runs"))
    IN  When(begun, Local("inits") \notin loc.held, ForLocal(Local("inits")))
        ++ ForLocal(Local("instrs")) ++ ForLocal(body("ref_nodes")) ++ Take(body("ref_nodes"))
        ++ ForEntry(body("bytecode")) ++ Drop(Local("instrs"))

UseOK(m, u) ==
    CASE u.k = "nop" -> TRUE
      [] u.k = "call" -> u.i < Limit(m, "func")
      [] u.k = "ref.func" -> u.i < Limit(m, "func") /\ FuncDeclared(m, u.i)
      [] u.k = "throw" -> u.i < Limit(m, "tag")
      [] u.k = "elem.drop" -> u.i < m.cnt["element_segments"]
      [] u.k = "data.drop" -> TRUE
      [] OTHER -> u.i < Limit(m, u.k)

\* memory.init and data.drop precede the data section: what they need is checked at the end.
Requires(m, u) ==
    IF u.k = "data.drop" /\ u.i + 1 > m.min_data_segment_count_required THEN u.i + 1
    ELSE m.min_data_segment_count_required

ParseCode ==
    /\ Parsing("code") /\ todo > 0
    /\ \E u \in BodyUses :
          LET r == CodeRun(u)
          IN  \/ /\ UseOK(mod, u)
                 /\ Now([r.now EXCEPT !.m.min_data_segment_count_required = Requires(mod, u)])
                 /\ todo' = todo - 1 /\ spent' = spent + 1 /\ UNCHANGED <<phase, cur, last>>
              \/ \E st \in Stops(r) : Abort(Cleanup("code", st))

DataRun(e) ==
    LET i == mod.cnt["data_segments"] + 1
        begun == Start(St) ++ Counted(mod, "data_segments", e)
    IN  When(begun, e.mode = "active", ForEntry(Block("data_segments", i, "offset_expr")))
        ++ ForEntry(Block("data_segments", i, "data"))

ParseData ==
    /\ Parsing("data") /\ todo > 0
    /\ \E e \in DataEntries :
          Read("data", DataRun(e),
               /\ e.mode = "active" => e.i < Limit(mod, "memory")
               /\ ConstExprOK(mod, e.off, Limit(mod, "global")))

-----------------------------------------------------------------------------
(* The end of a section *)

IsPow2(n) == \E k \in 0..n : Pow2[k] = n

\* wah_module_alloc_repr copies the layout of a struct type; the capacity of repr_infos is
\* the power of two that holds its count.
ReprRun(r) ==
    LET n == r.now.m.cnt["repr_infos"]
        copy == Block("repr_infos", n + 1, "copy")
    IN  When(r ++ ForLocal(Local("info")), n = 0 \/ IsPow2(n), Resize("repr_infos", IF n = 0 THEN 1 ELSE 2 * n))
        ++ ForLocal(copy) ++ Begin("repr_infos", n + 1, [k |-> "repr"], 1) ++ Take(copy)
        ++ Drop(Local("info"))

ReprRuns(r, count) ==
    LET runs[n \in Nat] == IF n = 0 THEN r ELSE ReprRun(runs[n - 1])
    IN  runs[count]

Structs(m) == Cardinality({i \in 1..m.cnt["types"] : m.ent["types"][i].k = "struct"})

MetadataRun(r) ==
    LET m == r.now.m
    IN  IF m.cnt["types"] = 0 THEN r
        ELSE ReprRuns(r ++ ForLocal(ArrayBlock("canonical_map")) ++ ForLocal(Local("group_keys"))
                      ++ Drop(Local("group_keys")) ++ Adopt("canonical_map", m.types_cap)
                      ++ Resize("typeidx_to_repr", m.types_cap),
                      Structs(m))

ExportNames(m) == [i \in 1..m.cnt["exports"] |-> m.ent["exports"][i].name]

\* The positions of export_order, sorted by name (qsort).
SortedExports(m) ==
    LET n == m.cnt["exports"]
        name == ExportNames(m)
    IN  CHOOSE order \in [1..n -> 1..n] :
           \A i, j \in 1..n : i < j => \/ name[order[i]] < name[order[j]]
                                       \/ name[order[i]] = name[order[j]] /\ order[i] < order[j]

OrderEntry(i) == Expr("order", i)

ExportOrderRun(r) ==
    LET n == r.now.m.cnt["exports"]
    IN  IF n = 0 THEN r
        ELSE r ++ ForLocal(Local("sorted")) ++ Resize("export_order", n) ++ Drop(Local("sorted"))

CloseRun(s) ==
    CASE s = "type" -> MetadataRun(Start(St))
      [] s = "export" -> ExportOrderRun(Start(St))
      [] s = "code" -> When(Start(St), loc.held # {}, Drop(Local("inits")))
      [] OTHER -> Start(St)

\* The counts and arrays of the imports become the module's when all are read.
Imported(m, l) ==
    [m EXCEPT !.cnt = [a \in Arrays |-> IF a \in ImportArrays THEN l.cnt[a] ELSE @[a]],
              !.ptr = [a \in Arrays |-> IF a \in ImportArrays THEN l.ptr[a] ELSE @[a]],
              !.cap = [a \in Arrays |-> IF a \in ImportArrays THEN l.cap[a] ELSE @[a]],
              !.own = [a \in Arrays |-> IF a \in ImportArrays THEN l.own[a] ELSE @[a]],
              !.ent = [a \in Arrays |-> IF a \in ImportArrays THEN l.ent[a] ELSE @[a]]]

Ordered(m) ==
    [m EXCEPT !.own = Put(m.own, "export_order", [i \in 1..m.cnt["exports"] |-> {}]),
              !.ent = Put(m.ent, "export_order",
                          [i \in 1..m.cnt["exports"] |-> OrderEntry(SortedExports(m)[i])])]

Closed(s, st) ==
    CASE s = "import" -> [m |-> Imported(st.m, st.loc), loc |-> NoLocals, h |-> st.h]
      [] s = "export" -> [st EXCEPT !.m = Ordered(st.m)]
      [] OTHER -> st

CloseSection(s) ==
    LET r == CloseRun(s)
        done == Closed(s, r.now)
    IN  /\ Parsing(s) /\ todo = 0
        /\ \/ /\ s = "export" => IsInjective(ExportNames(mod))
              /\ Now(done) /\ cur' = "none" /\ UNCHANGED <<phase, todo, last, spent>>
           \/ \E st \in r.past : Abort(Cleanup(s, st))
           \/ Abort(done) \* bytes are left over

-----------------------------------------------------------------------------
(* The end of the binary *)

DataCompleteByCount(m) ==
    /\ m.min_data_segment_count_required > 0 => m.has_data_count_section
    /\ m.cnt["data_segments"] >= m.min_data_segment_count_required

\* A data count without the segments it announces is refused.
DataComplete(m) ==
    /\ m.min_data_segment_count_required > 0 => m.has_data_count_section
    /\ m.cnt["data_segments"] >= m.min_data_segment_count_required
    /\ m.has_data_count_section /\ m.cnt["data_segments"] > 0 => m.ptr["data_segments"] # {}

\* functions[] is built for the functions of the binary.
BuildFunctions(m, n) ==
    LET new == NewArray(m, "functions", n)
    IN  [new EXCEPT !.cnt["functions"] = n,
                    !.own = Put(new.own, "functions", [i \in 1..n |-> {}]),
                    !.ent = Put(new.ent, "functions", [i \in 1..n |-> [k |-> "wasm"]])]

EndModule ==
    /\ Parsing("none")
    /\ LET n == mod.cnt["function_type_indices"]
           built == BuildFunctions(mod, n)
       IN  \/ /\ n = mod.cnt["code_bodies"] /\ DataComplete(mod)
              /\ mod' = built /\ heap' = Alloc(heap, built.ptr["functions"])
              /\ phase' = "ready" /\ last' = 0 /\ UNCHANGED <<cur, todo, loc, spent>>
           \/ Abort(St)

-----------------------------------------------------------------------------
(* Modules made and extended by the host *)

NewRun ==
    Start(St) ++ Resize("functions", NewCap) ++ Resize("exports", NewCap) ++ Resize("export_order", NewCap)

NewModule ==
    /\ Parsing("none") /\ last = 0 /\ mod = EmptyModule
    /\ \/ /\ Now(NewRun.now) /\ phase' = "ready"
          /\ UNCHANGED <<cur, todo, last, spent>>
       \/ \E st \in NewRun.past : Abort(st)

NameAt(m, pos) == Entry(m, "exports", Entry(m, "export_order", pos).i - 1).name

\* One iteration of the loop of wah_export_lower_bound, none once the range is empty.
Halve(m, name, range) ==
    LET mid == range.lo + (range.hi - range.lo) \div 2
    IN  IF range.lo >= range.hi THEN range
        ELSE IF NameAt(m, mid) < name THEN [lo |-> mid + 1, hi |-> range.hi]
             ELSE [lo |-> range.lo, hi |-> mid]

\* wah_export_lower_bound: a range of n exports is empty after n iterations at most.
LowerBound(m, name) ==
    LET n == m.cnt["exports"]
        range[i \in Nat] == IF i = 0 THEN [lo |-> 0, hi |-> n] ELSE Halve(m, name, range[i - 1])
    IN  range[n].lo

\* wah_find_export_by_name: the export found, as a position of exports, or none.
FindExport(m, name) ==
    LET pos == LowerBound(m, name)
    IN  IF pos < m.cnt["exports"] /\ NameAt(m, pos) = name THEN {Entry(m, "export_order", pos).i} ELSE {}

\* wah_module_ensure_export
EnsureExport(r) ==
    LET m == r.now.m
        cap == m.cap["exports"]
        new == IF cap = 0 THEN NewCap ELSE 2 * cap
    IN  IF m.cnt["exports"] < cap THEN r ELSE r ++ Resize("export_order", new) ++ Resize("exports", new)

InsertionAtEnd(m, name) == m.cnt["exports"]

Insertion(m, name) == LowerBound(m, name)

\* wah_module_append_export: entries of the order from its position on move up by one.
MoveUp(f, pos, n, v) ==
    [i \in DOMAIN f |-> IF i = pos + 1 THEN v
                       ELSE IF i > pos + 1 /\ i <= n + 1 THEN f[i - 1] ELSE f[i]]

AppendExport(st, x, own) ==
    LET n == st.m.cnt["exports"]
        pos == Insertion(st.m, x.name)
        order == "export_order"
        s1 == [st EXCEPT !.m.own = Put(st.m.own, order, MoveUp(st.m.own[order], pos, n, {})),
                         !.m.ent = Put(st.m.ent, order, MoveUp(st.m.ent[order], pos, n, OrderEntry(n + 1))),
                         !.h.bad = @ \/ n + 1 > st.m.cap[order]]
    IN  [Write(s1, "exports", n + 1, own, x) EXCEPT !.m.cnt["exports"] = n + 1]

\* A call that extends the module: refused when the name is taken, and otherwise it goes
\* through the run r to the state done, releasing its locals when a step fails.
Extend(name, r, done) ==
    /\ phase = "ready" /\ spent < MaxCalls /\ spent' = spent + 1
    /\ UNCHANGED <<phase, cur, todo, last>>
    /\ \/ FindExport(mod, name) # {} /\ UNCHANGED <<mod, loc, heap>>
       \/ FindExport(mod, name) = {} /\ Now(done)
       \/ FindExport(mod, name) = {} /\ \E st \in r.past : Now(Keep(st))

Unheld(st) == [st EXCEPT !.loc = NoLocals]

\* wah_export_func and wah_export_typed_func: the function owns its name, its type and,
\* from here on, the userdata its finalizer releases; the export shares the name.
ExportFunc(name) ==
    LET i == mod.cnt["functions"] + 1
        part(f) == Block("functions", i, f)
        held == {part("name"), part("param_types"), part("result_types"), part("userdata")}
        r == EnsureCap(EnsureExport(Start(St)), "functions", i)
             ++ ForLocal(part("name")) ++ ForLocal(part("param_types")) ++ ForLocal(part("result_types"))
        s1 == Write(Unheld(r.now), "functions", i, held, [k |-> "host"])
        s2 == [s1 EXCEPT !.m.cnt["functions"] = i, !.h = Alloc(@, {part("userdata")})]
    IN  Extend(name, r, AppendExport(s2, Export(name, "func", mod.cnt["func_imports"] + i - 1), {part("name")}))

ExportGlobal(name) ==
    LET i == mod.cnt["globals"] + 1
        label == Block("exports", mod.cnt["exports"] + 1, "name")
        r == EnsureCap(EnsureExport(Start(St)), "globals", i) ++ ForLocal(label)
             ++ Begin("globals", i, [k |-> "global", x |-> Expr("const", 0), mut |-> TRUE], 0)
             ++ ForEntry(Block("globals", i, "init_expr"))
        s1 == AppendExport(Unheld(r.now), Export(name, "global", mod.cnt["global_imports"] + i - 1), {label})
    IN  Extend(name, r, [s1 EXCEPT !.m.cnt["globals"] = i])

ExportMemory(name) ==
    LET i == mod.cnt["memories"] + 1
        label == Block("exports", mod.cnt["exports"] + 1, "name")
        r == EnsureCap(EnsureExport(Start(St)), "memories", i) ++ ForLocal(label)
        s1 == AppendExport(Write(Unheld(r.now), "memories", i, {}, Expr("memory", 0)),
                           Export(name, "memory", mod.cnt["memory_imports"] + i - 1), {label})
    IN  Extend(name, r, [s1 EXCEPT !.m.cnt["memories"] = i])

\* The type spec is parsed into locals, which the entry takes once it is stored.
SpecRun(r, i, e) ==
    IF HasParts(e) THEN r ++ ForLocal(Parts(i, e)[1]) ++ ForLocal(Parts(i, e)[2]) ELSE r

TakeParts(r, i, e) == IF HasParts(e) THEN r ++ Take(Parts(i, e)[1]) ++ Take(Parts(i, e)[2]) ELSE r

\* wah_module_add_latest_type_metadata
LatestMetadata(r, i, e) ==
    LET m == r.now.m
        repr == When(r, m.ptr["typeidx_to_repr"] = {}, Resize("typeidx_to_repr", m.types_cap))
                ++ Begin("typeidx_to_repr", i, [k |-> "none"], 0)
        canon == When(repr, m.ptr["canonical_map"] = {}, Resize("canonical_map", m.types_cap))
                 ++ Begin("canonical_map", i, [k |-> "self"], 0)
    IN  IF e.k = "struct" THEN ReprRun(canon) ELSE canon

\* The type is taken back when its metadata cannot be built.
Rollback(st, i) ==
    LET own == st.m.own["types"][i] \cup st.m.own["type_defs"][i]
        s1 == Write(Write(st, "types", i, {}, [k |-> "none"]), "type_defs", i, {}, [k |-> "none"])
    IN  Keep([s1 EXCEPT !.m.cnt["types"] = i - 1, !.h = Free(@, own)])

DefineType(e) ==
    LET i == mod.cnt["types"] + 1
        spec == SpecRun(Start(St), i, e)
        room == EnsureTypes(spec, i)
        added == TakeParts(BeginType(room, i, e), i, e).now
        metadata == LatestMetadata(Start(added), i, e)
    IN  /\ phase = "ready" /\ spent < MaxCalls /\ spent' = spent + 1
        /\ UNCHANGED <<phase, cur, todo, last>>
        /\ \/ \E st \in room.past : Now(Keep(st))
           \/ (\E t \in 1..mod.cnt["types"] : mod.ent["types"][t] = e) /\ Now(Keep(spec.now))
           \/ Now(metadata.now)
           \/ \E st \in metadata.past : Now(Rollback(st, i))

\* The host frees a module, one whose parsing failed too.
FreeCall ==
    /\ phase \in {"ready", "failed"}
    /\ Now(FreeModule(St)) /\ phase' = "freed" /\ UNCHANGED <<cur, todo, last, spent>>

-----------------------------------------------------------------------------
Init ==
    /\ phase = "parsing" /\ cur = "none" /\ todo = 0 /\ last = 0 /\ spent = 0
    /\ mod = EmptyModule /\ loc = NoLocals /\ heap = NoHeap

Next ==
    \/ \E s \in DOMAIN ArrayOf, n \in 0..MaxEntries : OpenSection(s, n)
    \/ BadSection
    \/ ParseType \/ ParseImport \/ ParseFunction \/ ParseTable \/ ParseMemory \/ ParseTag
    \/ ParseGlobal \/ ParseExport \/ ParseStart \/ ParseElement \/ ParseDataCount
    \/ ParseCode \/ ParseData
    \/ \E s \in DOMAIN ArrayOf : CloseSection(s)
    \/ EndModule \/ NewModule
    \/ \E name \in Names : ExportFunc(name) \/ ExportGlobal(name) \/ ExportMemory(name)
    \/ \E e \in TypeEntries : DefineType(e)
    \/ FreeCall

Spec == Init /\ [][Next]_vars

-----------------------------------------------------------------------------
(* "On failure, *module holds no resources but can still be passed to       *)
(* wah_free_module": wherever parsing stops, and whatever calls extended    *)
(* the module afterwards and failed, each allocation is released exactly    *)
(* once, nothing uninitialised is freed, no array is written past its       *)
(* capacity, and nothing is left when the module has been freed.            *)
Released == ~heap.bad /\ (phase \in {"failed", "freed"} => heap.live = {})

ReadsEarlier(x, max) ==
    /\ x.k = "global.get" => x.i < max /\ ~GlobalMutable(mod, x.i)
    /\ x.k \in {"ref.func", "index"} => x.i < Limit(mod, "func")

\* The functions whose references a binary declares outside of its bodies.
DeclaringEntries ==
    UNION {DeclaredBy(Entry(mod, "tables", i).x) : i \in 0..mod.cnt["tables"] - 1}
    \cup UNION {DeclaredBy(Entry(mod, "globals", i).x) : i \in 0..mod.cnt["globals"] - 1}
    \cup {Entry(mod, "exports", i).i : i \in {j \in 0..mod.cnt["exports"] - 1 : Entry(mod, "exports", j).kind = "func"}}
    \cup UNION {LET x == Entry(mod, "element_segments", i).item
                IN  IF x.k = "index" THEN {x.i} ELSE DeclaredBy(x) : i \in 0..mod.cnt["element_segments"] - 1}

\* What a body uses exists in the module as it is used.
UseMet(u) ==
    CASE u.k = "nop" -> TRUE
      [] u.k = "call" -> u.i < Limit(mod, "func")
      [] u.k = "ref.func" -> u.i < Limit(mod, "func") /\ u.i \in DeclaringEntries
      [] u.k = "throw" -> u.i < Limit(mod, "tag")
      [] u.k = "elem.drop" -> u.i < mod.cap["element_segments"]
      [] u.k = "data.drop" -> u.i < mod.cap["data_segments"]
      [] OTHER -> u.i < Limit(mod, u.k)

(* An accepted module is closed under its indices: with the counts of the   *)
(* end, every function has a type and a body, every export, start function, *)
(* segment and body names something that exists (data segments, which the   *)
(* binary defines after the bodies that use them, included), a body takes   *)
(* references to declared functions only, and initialisers read immutable   *)
(* globals that are initialised before them.                                *)
IndicesClosed ==
    phase = "ready" =>
    /\ mod.cnt["code_bodies"] = mod.cnt["function_type_indices"]
    /\ mod.cnt["functions"] >= mod.cnt["function_type_indices"]
    /\ \A f \in 0..Limit(mod, "func") - 1 : FuncType(mod, f).k # "struct"
    /\ \A i \in 0..mod.cnt["exports"] - 1 :
          LET x == Entry(mod, "exports", i)
          IN  IF x.kind = "func" THEN x.i < mod.cnt["func_imports"] + mod.cnt["functions"]
              ELSE x.i < Limit(mod, x.kind)
    /\ \A f \in mod.start : f < Limit(mod, "func") /\ FuncType(mod, f).k = "nullary"
    /\ \A i \in 0..mod.cnt["globals"] - 1 :
          ReadsEarlier(Entry(mod, "globals", i).x, mod.cnt["global_imports"] + i)
    /\ \A i \in 0..mod.cnt["tables"] - 1 : ReadsEarlier(Entry(mod, "tables", i).x, mod.cnt["global_imports"])
    /\ \A i \in 0..mod.cnt["element_segments"] - 1 :
          LET e == Entry(mod, "element_segments", i)
          IN  /\ e.mode = "active" => e.i < Limit(mod, "table")
              /\ ReadsEarlier(e.off, Limit(mod, "global")) /\ ReadsEarlier(e.item, Limit(mod, "global"))
    /\ \A i \in 0..mod.cnt["data_segments"] - 1 :
          /\ i < mod.cap["data_segments"]
          /\ LET e == Entry(mod, "data_segments", i)
             IN  (e.mode = "active" => e.i < Limit(mod, "memory")) /\ ReadsEarlier(e.off, Limit(mod, "global"))
    /\ \A i \in 0..mod.cnt["code_bodies"] - 1 : UseMet(Entry(mod, "code_bodies", i))

(* Looking an export up by name finds the one export of that name, whatever *)
(* mix of sorting at parse time and insertion by later calls built the      *)
(* order, calls that failed halfway through growing the arrays included.    *)
LookupExact ==
    phase = "ready" =>
    \A name \in Names : FindExport(mod, name) = {i \in 1..mod.cnt["exports"] : mod.ent["exports"][i].name = name}

=============================================================================
