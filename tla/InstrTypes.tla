----------------------------- MODULE InstrTypes -----------------------------
(***************************************************************************)
(* The validation context of a function body or a constant expression and  *)
(* the typing of the instructions that are not control flow                *)
(* (wah_validate_opcode).                                                  *)
(*                                                                         *)
(* An instruction is a record with a field op and its immediates; indices  *)
(* count from 1, labels from 0.  Numeric instructions are told apart by    *)
(* their operand and result types only, memory accesses by their value     *)
(* type, width and whether the offset exceeds 32 bits.  A configuration c  *)
(* has the module m (with defs and canon as in TypeDefs), the function     *)
(* type and locals fn, the flags const and meter, the bound maxGlobal and  *)
(* the type expected of a constant expression.                             *)
(***************************************************************************)
EXTENDS TypeDefs

CONSTANTS
    MaxTypeStack,       \* WAH_MAX_TYPE_STACK_SIZE
    MaxControlDepth     \* WAH_MAX_CONTROL_DEPTH

I32 == Num("i32")
I64 == Num("i64")
V128 == Num("v128")

Params(m, i) == SubSeq(m.defs[i].ty, 1, m.defs[i].np)
Results(m, i) == SubSeq(m.defs[i].ty, m.defs[i].np + 1, Len(m.defs[i].ty))
IsFunc(m, i) == i \in DOMAIN m.defs /\ m.defs[i].kind = "func"

---------------------------------------------------------------------------
(* The context.  stack is the type stack, ctl the control frames, dead     *)
(* is_unreachable, max and lwm the high and low water marks of the stack,  *)
(* undo the locals initialised so far, data the number of data segments    *)
(* that must exist and declared the declared functions.                    *)

InitContext(declared) ==
    [stack |-> <<>>, ctl |-> <<>>, dead |-> FALSE, max |-> 0, lwm |-> 0, undo |-> <<>>,
     data |-> 0, declared |-> declared, ok |-> TRUE]

Require(v, cond) == [v EXCEPT !.ok = @ /\ cond]

Base(v) == IF v.ctl = <<>> THEN 0 ELSE Last(v.ctl).height

(* The type k places below the top of the stack. *)
At(v, k) == IF Len(v.stack) - k > Base(v) THEN v.stack[Len(v.stack) - k] ELSE Bot

Matches(actual, expected, m) ==
    \/ actual = Bot
    \/ /\ IsSubtype(NonNull(actual), NonNull(expected), m)
       /\ actual.null => expected.null

AllMatch(ts, us, m) == Len(ts) = Len(us) /\ \A j \in DOMAIN ts : Matches(ts[j], us[j], m)

Truncate(v, n) == [v EXCEPT !.stack = SubSeq(@, 1, n), !.lwm = Min({@, n})]

(* Pops one value per expected type, the last type first; below the base   *)
(* of the block every value of unreachable code has the bottom type.       *)
PopTypes(v, types, m) ==
    LET n == Len(types)
        k == Min({n, Len(v.stack) - Base(v)})
        left == Len(v.stack) - k
    IN  [Require(v, /\ k = n \/ v.dead
                    /\ \A j \in 1..k : Matches(v.stack[left + j], types[n - k + j], m))
            EXCEPT !.stack = SubSeq(@, 1, left), !.lwm = Min({@, left})]

PushTypes(v, types) ==
    LET n == Len(v.stack) + Len(types)
    IN  [Require(v, n <= MaxTypeStack) EXCEPT !.stack = @ \o types, !.max = Max({@, n})]

MarkDead(v) == [Truncate(v, Min({Len(v.stack), Base(v)})) EXCEPT !.dead = TRUE]

(* Non-defaultable locals must be set before they are read. *)
Inits(v) == ToSet(v.undo)

NeedsInit(c, i) ==
    LET t == c.fn.locals[i]
    IN  i > Len(c.fn.params) /\ IsRef(t) /\ ~t.null

InitLocal(c, v, i) ==
    IF NeedsInit(c, i) /\ i \notin Inits(v) THEN [v EXCEPT !.undo = Append(@, i)] ELSE v

RevertInits(v, n) == [v EXCEPT !.undo = SubSeq(@, 1, n)]

---------------------------------------------------------------------------
(* Signatures: whether the immediates are acceptable, the operand types in *)
(* stack order and the result types.                                       *)

Sg(ok, pop, push) == [ok |-> ok, pop |-> pop, push |-> push]
Bad == Sg(FALSE, <<>>, <<>>)
Need(cond, sig) == IF cond THEN sig ELSE Bad

(* The operand classes of wah_opclasses; the two other conversions. *)
OpClasses ==
    LET n == {"i32", "i64", "f32", "f64"}
        v == "v128"
    IN  (({<<a>> : a \in n} \X n) \ {<< <<"f32">>, "f64">>, << <<"f64">>, "f32">>})
        \cup ({<<a>> : a \in n} \X {v}) \cup ({<<v>>} \X {"i32", v})
        \cup {<< <<a, a>>, "i32">> : a \in n} \cup {<< <<a, a>>, a>> : a \in n}
        \cup {<< <<"f64", "f64">>, "i64">>}
        \cup ({<<"i32", v>>, <<"i64", v>>, <<v, "i32">>, <<v, v>>, <<v, v, v>>} \X {v})

NumericSig(i) ==
    LET types == [j \in DOMAIN i.args |-> Num(i.args[j])]
    IN  Sg(IF i.op = "num" THEN <<i.args, i.res>> \in OpClasses
           ELSE <<i.args, i.res>> \in {<< <<"f32">>, "f64">>, << <<"f64">>, "f32">>},
           types, <<Num(i.res)>>)

(* Loads and stores of a value of type ty; lg is the natural alignment. *)
Access(m, i) ==
    /\ i.align <= i.lg
    /\ i.mem \in DOMAIN m.mems
    /\ m.mems[i.mem] = I32 => ~i.big

LoadSig(m, i) == Need(Access(m, i), Sg(TRUE, <<m.mems[i.mem]>>, <<i.ty>>))
StoreSig(m, i) == Need(Access(m, i), Sg(TRUE, <<m.mems[i.mem], i.ty>>, <<>>))

LaneAccessSig(m, i) ==
    Need(Access(m, i) /\ i.lane < 16 \div 2 ^ i.lg,
         Sg(TRUE, <<m.mems[i.mem], V128>>, IF i.op = "load_lane" THEN <<V128>> ELSE <<>>))

LaneSig(i) ==
    CASE i.op = "extract_lane" -> Sg(i.lane < i.lanes, <<V128>>, <<i.ty>>)
      [] i.op = "replace_lane" -> Sg(i.lane < i.lanes, <<V128, i.ty>>, <<V128>>)
      [] i.op = "shuffle"      -> Sg(\A j \in DOMAIN i.mask : i.mask[j] < 32, <<V128, V128>>, <<V128>>)

Narrower(a, b) == IF a = I64 /\ b = I64 THEN I64 ELSE I32

MemorySig(m, i) ==
    Need(i.mem \in DOMAIN m.mems /\ (i.op = "memory_copy" => i.from \in DOMAIN m.mems),
         LET a == m.mems[i.mem]
         IN  CASE i.op = "memory_size" -> Sg(TRUE, <<>>, <<a>>)
               [] i.op = "memory_grow" -> Sg(TRUE, <<a>>, <<a>>)
               [] i.op = "memory_fill" -> Sg(TRUE, <<a, I32, a>>, <<>>)
               [] i.op = "memory_init" -> Sg(TRUE, <<a, I32, I32>>, <<>>)
               [] i.op = "memory_copy" ->
                    Sg(TRUE, <<a, m.mems[i.from], Narrower(a, m.mems[i.from])>>, <<>>))

TableSig(m, i) ==
    Need(i.table \in DOMAIN m.tables,
         LET t == m.tables[i.table]
         IN  CASE i.op = "table_get"  -> Sg(TRUE, <<t.addr>>, <<t.elem>>)
               [] i.op = "table_set"  -> Sg(TRUE, <<t.addr, t.elem>>, <<>>)
               [] i.op = "table_size" -> Sg(TRUE, <<>>, <<t.addr>>)
               [] i.op = "table_grow" -> Sg(TRUE, <<t.elem, t.addr>>, <<t.addr>>)
               [] i.op = "table_fill" -> Sg(TRUE, <<t.addr, t.elem, t.addr>>, <<>>)
               [] i.op = "table_init" ->
                    Need(i.elem \in DOMAIN m.elems,
                         Sg(Matches(m.elems[i.elem], t.elem, m), <<t.addr, I32, I32>>, <<>>))
               [] i.op = "table_copy" ->
                    Need(i.from \in DOMAIN m.tables,
                         LET s == m.tables[i.from]
                         IN  Sg(Matches(s.elem, t.elem, m),
                                <<t.addr, s.addr, Narrower(t.addr, s.addr)>>, <<>>)))

(* The type called and what a call takes from the stack above its          *)
(* parameters.                                                             *)
CallKind(i) ==
    CASE i.op \in {"call", "return_call"} -> "func"
      [] i.op \in {"call_indirect", "return_call_indirect"} -> "table"
      [] i.op \in {"call_ref", "return_call_ref"} -> "ref"

TailCalls == {"return_call", "return_call_indirect", "return_call_ref"}
Calls == {"call", "call_indirect", "call_ref"} \cup TailCalls

CallSig(c, i) ==
    LET m == c.m
        ty == IF CallKind(i) = "func" THEN m.funcs[i.func] ELSE i.type
        operand == CASE CallKind(i) = "func"  -> <<>>
                     [] CallKind(i) = "table" -> <<m.tables[i.table].addr>>
                     [] CallKind(i) = "ref"   -> <<RefIdx(ty, TRUE)>>
    IN  Need(/\ CallKind(i) = "func" => i.func \in DOMAIN m.funcs
             /\ CallKind(i) = "table" => /\ i.table \in DOMAIN m.tables
                                         /\ IsSubtype(m.tables[i.table].elem, Ref("func", TRUE), m)
             /\ CallKind(i) # "func" => IsFunc(m, i.type),
             Sg(i.op \in TailCalls => AllMatch(Results(m, ty), c.fn.results, m),
                Params(m, ty) \o operand,
                IF i.op \in TailCalls THEN <<>> ELSE Results(m, ty)))

LocalSig(c, v, i) ==
    Need(i.local \in DOMAIN c.fn.locals,
         LET t == c.fn.locals[i.local]
         IN  CASE i.op = "local_get" -> Sg(NeedsInit(c, i.local) => i.local \in Inits(v), <<>>, <<t>>)
               [] i.op = "local_set" -> Sg(TRUE, <<t>>, <<>>)
               [] i.op = "local_tee" -> Sg(TRUE, <<t>>, <<t>>))

GlobalSig(c, i) ==
    Need(i.global \in DOMAIN c.m.globals,
         LET g == c.m.globals[i.global]
         IN  IF i.op = "global_get"
             THEN Sg(c.const => i.global <= c.maxGlobal /\ ~g.mut, <<>>, <<g.ty>>)
             ELSE Sg(g.mut, <<g.ty>>, <<>>))

ScopedType(m, t) == IsConcrete(t) => t.idx \in DOMAIN m.defs

IsNumeric(t) == t.head \in {"i32", "i64", "f32", "f64", "v128"}

SelectSig(v, i, m) ==
    LET a == At(v, 2)
        b == At(v, 1)
        t == IF a # Bot THEN a ELSE b
    IN  IF i.op = "select"
        THEN Sg((a = b \/ a = Bot \/ b = Bot) /\ (t = Bot \/ IsNumeric(t)), <<a, b, I32>>, <<t>>)
        ELSE Sg(ScopedType(m, i.ty), <<i.ty, i.ty, I32>>, <<i.ty>>)

---------------------------------------------------------------------------
(* References, structs and arrays. *)

IsPacked(t) == t.head \in {"i8", "i16"}
Unpacked(t) == IF IsPacked(t) THEN I32 ELSE t
Defaultable(t) == IsRef(t) => t.null

RefSig(c, v, i) ==
    LET m == c.m
        t == At(v, 0)
        ref == IsRef(t) \/ t = Bot
        Top(u) == HierarchyTop(u, m)
    IN  CASE i.op = "ref_null" -> Sg(ScopedType(m, i.ty), <<>>, <<[i.ty EXCEPT !.null = TRUE]>>)
          [] i.op = "ref_is_null" -> Sg(ref, <<t>>, <<I32>>)
          [] i.op = "ref_func" ->
               Need(i.func \in DOMAIN m.funcs,
                    Sg(c.const \/ i.func \in v.declared, <<>>, <<RefIdx(m.funcs[i.func], FALSE)>>))
          [] i.op = "ref_eq" -> Sg(TRUE, <<Ref("eq", TRUE), Ref("eq", TRUE)>>, <<I32>>)
          [] i.op \in {"ref_test", "ref_cast"} ->
               Need(ScopedType(m, i.ty),
                    Sg(ref /\ (t # Bot => Top(t) # "bot" /\ Top(t) = Top(i.ty)), <<t>>,
                       <<IF i.op = "ref_test" THEN I32 ELSE i.ty>>))
          [] i.op = "ref_as_non_null" ->
               Sg(ref, <<t>>, <<IF t = Bot THEN Bot ELSE NonNull(t)>>)
          [] i.op = "any_convert_extern" -> Sg(t = Bot \/ Top(t) = "extern", <<t>>, <<Ref("any", t.null)>>)
          [] i.op = "extern_convert_any" -> Sg(t = Bot \/ Top(t) = "any", <<t>>, <<Ref("extern", t.null)>>)
          [] i.op = "ref_i31" -> Sg(TRUE, <<I32>>, <<Ref("i31", FALSE)>>)
          [] i.op = "i31_get" -> Sg(TRUE, <<Ref("i31", TRUE)>>, <<I32>>)

StructSig(m, i) ==
    Need(i.type \in DOMAIN m.defs /\ m.defs[i.type].kind = "struct",
         LET d == m.defs[i.type]
             new == <<RefIdx(i.type, FALSE)>>
             obj == RefIdx(i.type, TRUE)
         IN  CASE i.op = "struct_new" -> Sg(TRUE, [j \in DOMAIN d.ty |-> Unpacked(d.ty[j])], new)
               [] i.op = "struct_new_default" ->
                    Sg(\A j \in DOMAIN d.ty : Defaultable(d.ty[j]), <<>>, new)
               [] i.op \in {"struct_get", "struct_get_packed"} ->
                    Need(i.field \in DOMAIN d.ty,
                         Sg(IsPacked(d.ty[i.field]) = (i.op = "struct_get_packed"),
                            <<obj>>, <<Unpacked(d.ty[i.field])>>))
               [] i.op = "struct_set" ->
                    Need(i.field \in DOMAIN d.ty,
                         Sg(d.mut[i.field], <<obj, Unpacked(d.ty[i.field])>>, <<>>)))

ArraySig(m, i) ==
    Need(i.type \in DOMAIN m.defs /\ m.defs[i.type].kind = "array",
         LET d == m.defs[i.type]
             e == d.ty[1]
             new == <<RefIdx(i.type, FALSE)>>
             obj == RefIdx(i.type, TRUE)
             elem == i.seg \in DOMAIN m.elems /\ Matches(m.elems[i.seg], e, m)
             data == ~IsRef(e) /\ i.seg <= m.ndata
         IN  CASE i.op = "array_new" -> Sg(TRUE, <<Unpacked(e), I32>>, new)
               [] i.op = "array_new_default" -> Sg(Defaultable(e), <<I32>>, new)
               [] i.op = "array_new_fixed" -> Sg(TRUE, [j \in 1..i.len |-> Unpacked(e)], new)
               [] i.op = "array_new_data" -> Sg(data, <<I32, I32>>, new)
               [] i.op = "array_new_elem" -> Sg(elem, <<I32, I32>>, new)
               [] i.op \in {"array_get", "array_get_packed"} ->
                    Sg(IsPacked(e) = (i.op = "array_get_packed"), <<obj, I32>>, <<Unpacked(e)>>)
               [] i.op = "array_set" -> Sg(d.mut[1], <<obj, I32, Unpacked(e)>>, <<>>)
               [] i.op = "array_fill" -> Sg(d.mut[1], <<obj, I32, Unpacked(e), I32>>, <<>>)
               [] i.op = "array_init_data" -> Sg(d.mut[1] /\ data, <<obj, I32, I32, I32>>, <<>>)
               [] i.op = "array_init_elem" ->
                    Sg(d.mut[1] /\ IsRef(e) /\ elem, <<obj, I32, I32, I32>>, <<>>)
               [] i.op = "array_copy" ->
                    Need(i.from \in DOMAIN m.defs /\ m.defs[i.from].kind = "array",
                         Sg(d.mut[1] /\ Matches(m.defs[i.from].ty[1], e, m),
                            <<obj, I32, RefIdx(i.from, TRUE), I32, I32>>, <<>>)))

ArrayLenSig(v, m) ==
    LET t == At(v, 0)
    IN  Sg(t = Bot \/ IsSubtype(t, Ref("array", TRUE), m), <<t>>, <<I32>>)

ThrowSig(m, v, i) ==
    LET t == At(v, 0)
    IN  IF i.op = "throw"
        THEN Need(i.tag \in DOMAIN m.tags, Sg(TRUE, Params(m, m.tags[i.tag]), <<>>))
        ELSE Sg(t = Bot \/ t.head \in {"exn", "noexn"}, <<t>>, <<>>)

---------------------------------------------------------------------------
(* The instruction groups. *)

Lanes == {"extract_lane", "replace_lane", "shuffle"}
LaneAccesses == {"load_lane", "store_lane"}
Memories == {"memory_size", "memory_grow", "memory_fill", "memory_init", "memory_copy"}
Tables == {"table_get", "table_set", "table_size", "table_grow", "table_fill", "table_init",
           "table_copy"}
Locals == {"local_get", "local_set", "local_tee"}
Globals == {"global_get", "global_set"}
Refs == {"ref_null", "ref_is_null", "ref_func", "ref_eq", "ref_test", "ref_cast",
         "ref_as_non_null", "any_convert_extern", "extern_convert_any", "ref_i31", "i31_get"}
Structs == {"struct_new", "struct_new_default", "struct_get", "struct_get_packed", "struct_set"}
Arrays == {"array_new", "array_new_default", "array_new_fixed", "array_new_data",
           "array_new_elem", "array_get", "array_get_packed", "array_set", "array_fill",
           "array_init_data", "array_init_elem", "array_copy"}
Throws == {"throw", "throw_ref"}

(* wah_opcode_is_resumable_bulk *)
ResumableBulk == {"memory_fill", "memory_copy", "memory_init", "table_fill", "table_copy",
                  "table_init", "array_fill", "array_copy", "array_init_data", "array_init_elem"}

(* What constant expressions may contain. *)
ConstOps == {"const", "ref_null", "ref_func", "global_get", "ref_i31", "struct_new",
             "struct_new_default", "array_new", "array_new_default", "array_new_fixed",
             "any_convert_extern", "extern_convert_any"}

IsConstInstr(i) ==
    \/ i.op \in ConstOps
    \/ i.op = "num" /\ i.args \in {<<"i32", "i32">>, <<"i64", "i64">>} /\ i.res = i.args[1] /\ i.arith

(* No instruction is emitted for these. *)
Silent == {"nop", "any_convert_extern", "extern_convert_any"}

Sig(c, v, i) ==
    CASE i.op \in {"num", "float_convert"} -> NumericSig(i)
      [] i.op = "load" -> LoadSig(c.m, i)
      [] i.op = "store" -> StoreSig(c.m, i)
      [] i.op \in LaneAccesses -> LaneAccessSig(c.m, i)
      [] i.op \in Lanes -> LaneSig(i)
      [] i.op \in Memories -> MemorySig(c.m, i)
      [] i.op \in Tables -> TableSig(c.m, i)
      [] i.op = "data_drop" -> Sg(TRUE, <<>>, <<>>)
      [] i.op = "elem_drop" -> Sg(i.elem \in DOMAIN c.m.elems, <<>>, <<>>)
      [] i.op \in Calls -> CallSig(c, i)
      [] i.op \in Locals -> LocalSig(c, v, i)
      [] i.op \in Globals -> GlobalSig(c, i)
      [] i.op = "const" -> Sg(TRUE, <<>>, <<i.ty>>)
      [] i.op = "drop" -> Sg(TRUE, <<At(v, 0)>>, <<>>)
      [] i.op \in {"select", "select_t"} -> SelectSig(v, i, c.m)
      [] i.op \in {"nop", "unreachable"} -> Sg(TRUE, <<>>, <<>>)
      [] i.op \in Refs -> RefSig(c, v, i)
      [] i.op \in Structs -> StructSig(c.m, i)
      [] i.op \in Arrays -> ArraySig(c.m, i)
      [] i.op = "array_len" -> ArrayLenSig(v, c.m)
      [] i.op \in Throws -> ThrowSig(c.m, v, i)

(* What an instruction does to the context besides its operands. *)
SideEffect(c, v, i) ==
    CASE i.op \in {"memory_init", "data_drop"} -> [v EXCEPT !.data = Max({@, i.data})]
      [] i.op \in {"local_set", "local_tee"} -> InitLocal(c, v, i.local)
      [] i.op = "ref_func" /\ c.const -> [v EXCEPT !.declared = @ \cup {i.func}]
      [] i.op \in TailCalls \cup Throws \cup {"unreachable"} -> MarkDead(v)
      [] OTHER -> v

(* The operands of signature s are popped and its results pushed. *)
Apply(c, v, s) == IF s.ok THEN PushTypes(PopTypes(v, s.pop, c.m), s.push) ELSE Require(v, FALSE)

WithEffect(c, w, i) == IF w.ok THEN SideEffect(c, w, i) ELSE w

Plain(c, v, i) == WithEffect(c, Apply(c, v, Sig(c, v, i)), i)

=============================================================================
