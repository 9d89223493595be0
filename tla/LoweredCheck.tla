---------------------------- MODULE LoweredCheck ----------------------------
(***************************************************************************)
(* The checker of lowered code (wah_check_lowered_code, compiled in with   *)
(* WAH_CHECK_LOWERED): it follows every path of the lowered code with the  *)
(* types of the operand stack and the active exception handlers.           *)
(*                                                                         *)
(* p is the code under check: the configuration c, the code, the stack     *)
(* maps, the reference maps tops and nodes, the branch targets and the     *)
(* bound depth of the operand stack.  k is the state of the checker: the   *)
(* operand types stk, the handlers hs, the instruction at, where the path  *)
(* began, where the last POLL ended, the stacks recorded at the targets in *)
(* joins, the targets still to follow, and whether the path ends here.     *)
(***************************************************************************)
EXTENDS Lowering

Norm(t) ==
    CASE t.head = "extern" -> Ref("any", t.null)
      [] t.head = "noextern" -> Ref("none", t.null)
      [] OTHER -> t

NormAll(ts) == [j \in DOMAIN ts |-> Norm(ts[j])]

Sub(m, s, t) == IsSubtype(Norm(s), Norm(t), m)

ValType(m, t) == IsNumeric(t) \/ (IsRef(t) /\ ScopedType(m, t))

(* The nodes of a map, top first, are exactly the reference slots. *)
RefMap(p, map, stk) ==
    LET walk[t \in 0..Len(p.nodes)] == IF t = 0 THEN <<>> ELSE <<p.nodes[t].pos>> \o walk[p.nodes[t].parent]
        slots == IF map \in DOMAIN p.tops THEN walk[p.tops[map]] ELSE <<>>
    IN  /\ \A j \in 1..Len(slots) - 1 : slots[j] > slots[j + 1]
        /\ ToSet(slots) = {j \in DOMAIN stk : IsRef(stk[j])}

(* The size of a field, and what kind of storage it is. *)
Storage(t) ==
    CASE t.head = "i8" -> <<1, "packed">>
      [] t.head = "i16" -> <<2, "packed">>
      [] t.head \in {"i32", "f32"} -> <<4, "plain">>
      [] t.head \in {"i64", "f64"} -> <<8, "plain">>
      [] t.head = "v128" -> <<16, "plain">>
      [] OTHER -> <<8, "ref">>

(* What a specialised accessor reads or writes; a reference is accessed    *)
(* like any other 8 bytes.                                                 *)
AccessedBy(x) == <<x.imm.size, IF x.imm.size < 4 THEN "packed" ELSE "plain">>

Accessible(x, t) ==
    LET s == Storage(t)
    IN  AccessedBy(x) = IF s[2] = "ref" THEN <<s[1], "plain">> ELSE s

(* The field of struct type t at an offset, 0 if there is none. *)
FieldAt(m, t, offset) ==
    LET at == {j \in DOMAIN m.defs[t].ty : Layout(m.defs[t]).offsets[j] = offset}
    IN  IF at = {} THEN 0 ELSE Min(at)

(* wah_check_layouts: the fields fit the object and lie where the          *)
(* supertype has them.                                                     *)
CheckLayouts(m) ==
    \A t \in {u \in DOMAIN m.defs : m.defs[u].kind # "func"} :
        LET d == m.defs[t]
            l == Layout(d)
            e == m.defs[d.super]
        IN  /\ d.kind = "array" => Len(d.ty) = 1 /\ l.size = Storage(d.ty[1])[1]
            /\ d.kind = "struct" => /\ Len(l.offsets) = Len(d.ty)
                                    /\ \A j \in DOMAIN d.ty : l.offsets[j] + Storage(d.ty[j])[1] <= l.size
            /\ d.super # NoSuper =>
                  /\ d.super \in DOMAIN m.defs /\ e.kind = d.kind /\ Len(e.ty) <= Len(d.ty)
                  /\ \A j \in DOMAIN e.ty : /\ Storage(d.ty[j]) = Storage(e.ty[j])
                                            /\ d.kind = "struct" => l.offsets[j] = Layout(e).offsets[j]

(* wah_check_decode: generic accessors and what is never emitted are not   *)
(* decodable.                                                              *)
Decodable(x) ==
    /\ x.op \notin Silent \cup {"block", "loop"}
    /\ x.op \in Accessors => "size" \in DOMAIN x.imm

---------------------------------------------------------------------------
(* The stack. *)

Fail(k) == [k EXCEPT !.ok = FALSE, !.ends = TRUE]
Ensure(k, cond) == IF cond THEN k ELSE Fail(k)

CkTop(k, n) == IF Len(k.stk) > n THEN k.stk[Len(k.stk) - n] ELSE Bot

CkPush(p, k, ts) ==
    IF Len(k.stk) + Len(ts) > p.depth THEN Fail(k) ELSE [k EXCEPT !.stk = @ \o NormAll(ts)]

CkPop(p, k, ts) ==
    LET left == Len(k.stk) - Len(ts)
    IN  IF left < 0 THEN Fail(k)
        ELSE IF \E j \in DOMAIN ts : ~Sub(p.c.m, k.stk[left + j], ts[j]) THEN Fail(k)
        ELSE [k EXCEPT !.stk = SubSeq(@, 1, left)]

---------------------------------------------------------------------------
(* Joins. *)

NoJoin == [stk |-> <<>>, hs |-> <<>>, seen |-> FALSE]

(* The depth of a TRIM_HANDLERS at a position, or behind POLLs and METERs. *)
TrimDepth(p, at) ==
    LET skip == {q \in at..Len(p.code) : \A r \in at..q - 1 : p.code[r].op \in {"POLL", "METER"}}
        q == Max(skip)
    IN  IF p.code[q].op = "TRIM_HANDLERS" THEN p.code[q].n ELSE -1

(* Handlers are compared by their clauses: islands hold copies. *)
SameHandlers(p, a, b) ==
    /\ Len(a) = Len(b)
    /\ \A j \in DOMAIN a :
          LET x == p.code[a[j].at]
              y == p.code[b[j].at]
          IN  a[j].h = b[j].h /\ x.imm.catches = y.imm.catches /\ x.tgt = y.tgt /\ x.drops = y.drops

LabelTypes(p, target) ==
    IF ~p.c.const /\ p.code[target].op = "end" THEN p.c.fn.results
    ELSE IF \E j \in DOMAIN p.maps : p.maps[j].pos = target
    THEN p.maps[CHOOSE j \in DOMAIN p.maps : p.maps[j].pos = target].types
    ELSE <<>>

(* The stack and the handlers that reach a target are recorded, or must be *)
(* those recorded; the types of the label replace those on the stack.      *)
Merge(p, k, target, stk, hs) ==
    LET trim == TrimDepth(p, target)
        cut == IF ~p.c.const /\ p.code[target].op = "end" THEN <<>>
               ELSE IF trim # -1 THEN SubSeq(hs, 1, trim) ELSE hs
        label == LabelTypes(p, target)
        left == Len(stk) - Len(label)
        types == SubSeq(stk, 1, left) \o NormAll(label)
        j == k.joins[target]
    IN  IF \/ trim > Len(hs) \/ left < 0
           \/ \E i \in DOMAIN label : ~Sub(p.c.m, stk[left + i], label[i]) THEN Fail(k)
        ELSE IF ~j.seen
        THEN [k EXCEPT !.joins[target] = [stk |-> types, hs |-> cut, seen |-> TRUE],
                       !.work = Append(@, target)]
        ELSE Ensure(k, j.stk = types /\ SameHandlers(p, j.hs, cut))

Branch(p, k, target, keep, drop) ==
    LET h == Len(k.stk)
    IN  IF keep + drop > h THEN Fail(k)
        ELSE Merge(p, k, target, SubSeq(k.stk, 1, h - keep - drop) \o SubSeq(k.stk, h - keep + 1, h), k.hs)

(* The edge to clause n of handler j. *)
CatchEdge(p, k, j, n) ==
    LET x == p.code[k.hs[j].at]
        len == k.hs[j].h - x.drops[n]
        stk == SubSeq(k.stk, 1, len) \o NormAll(CatchTypes(p.c.m, x.imm.catches[n]))
    IN  IF Len(k.stk) < len \/ Len(stk) > p.depth THEN Fail(k)
        ELSE Merge(p, k, x.tgt[n], stk, SubSeq(k.hs, 1, j - 1))

Throw(p, k) ==
    LET Clauses(l, j) ==
            LET Next(l2, n) == IF l2.ok THEN CatchEdge(p, l2, j, n) ELSE l2
            IN  FoldLeft(Next, l, [n \in DOMAIN p.code[k.hs[j].at].tgt |-> n])
        hn == Len(k.hs)
    IN  FoldLeft(Clauses, k, [j \in 1..hn |-> hn + 1 - j])

---------------------------------------------------------------------------
(* Instructions that only take operands and leave results.  The variant of *)
(* an instruction must be that of the memory or table it names.            *)

CkTableSig(m, x) ==
    LET i == x.imm
        t == m.tables[i.table]
    IN  Need(i.table \in DOMAIN m.tables,
             CASE i.op = "table_get"  -> Sg(t.addr = i.addr, <<i.addr>>, <<t.elem>>)
               [] i.op = "table_set"  -> Sg(t.addr = i.addr, <<i.addr, t.elem>>, <<>>)
               [] i.op = "table_size" -> Sg(t.addr = i.addr, <<>>, <<i.addr>>)
               [] i.op = "table_grow" -> Sg(t.addr = i.addr, <<t.elem, i.addr>>, <<i.addr>>)
               [] i.op = "table_fill" -> Sg(t.addr = i.addr, <<i.addr, t.elem, i.addr>>, <<>>)
               [] i.op = "table_init" ->
                    Sg(/\ i.elem \in DOMAIN m.elems /\ t.addr = i.addr
                       /\ IsSubtype(m.elems[i.elem], t.elem, m), <<i.addr, I32, I32>>, <<>>)
               [] i.op = "table_copy" ->
                    Sg(/\ i.from \in DOMAIN m.tables /\ t.addr = i.addr /\ m.tables[i.from].addr = i.faddr
                       /\ IsSubtype(m.tables[i.from].elem, t.elem, m),
                       <<i.addr, i.faddr, Narrower(i.addr, i.faddr)>>, <<>>))

CkMemorySig(m, x) ==
    LET i == x.imm
    IN  Need(i.mem \in DOMAIN m.mems,
             LET ok == m.mems[i.mem] = i.addr
             IN  CASE i.op = "memory_size" -> Sg(ok, <<>>, <<i.addr>>)
                   [] i.op = "memory_grow" -> Sg(ok, <<i.addr>>, <<i.addr>>)
                   [] i.op = "memory_fill" -> Sg(ok, <<i.addr, I32, i.addr>>, <<>>)
                   [] i.op = "memory_init" -> Sg(ok /\ i.data <= m.ndata, <<i.addr, I32, I32>>, <<>>)
                   [] i.op = "memory_copy" ->
                        Sg(ok /\ i.from \in DOMAIN m.mems /\ m.mems[i.from] = i.faddr,
                           <<i.addr, i.faddr, Narrower(i.addr, i.faddr)>>, <<>>))

CkAccessSig(m, x) ==
    LET i == x.imm
        ok == i.mem \in DOMAIN m.mems /\ m.mems[i.mem] = i.addr
    IN  CASE i.op = "load" -> Sg(ok, <<i.addr>>, <<i.ty>>)
          [] i.op = "store" -> Sg(ok, <<i.addr, i.ty>>, <<>>)
          [] i.op \in LaneAccesses -> Sg(ok /\ i.lane < 16 \div 2 ^ i.lg, <<i.addr, V128>>,
                                         IF i.op = "load_lane" THEN <<V128>> ELSE <<>>)

CkGlobalSig(m, x) ==
    LET i == x.imm
        g == m.globals[i.global]
    IN  Need(i.global \in DOMAIN m.globals /\ i.indirect = (g.imported /\ g.mut),
             IF i.op = "global_get" THEN Sg(TRUE, <<>>, <<g.ty>>) ELSE Sg(g.mut, <<g.ty>>, <<>>))

CkLocalSig(c, x) ==
    LET t == c.fn.locals[x.imm.local]
    IN  Need(x.imm.local \in DOMAIN c.fn.locals,
             Sg(TRUE, IF x.op = "local_get" THEN <<>> ELSE <<t>>, IF x.op = "local_set" THEN <<>> ELSE <<t>>))

CkHeapType(m, t) == IsRef(t) /\ ScopedType(m, t)

CkRefSig(m, k, x) ==
    LET i == x.imm
        t == CkTop(k, 0)
    IN  CASE x.op = "ref_null" -> Sg(CkHeapType(m, i.ty), <<>>, <<[i.ty EXCEPT !.null = TRUE]>>)
          [] x.op = "ref_is_null" -> Sg(IsRef(t), <<t>>, <<I32>>)
          [] x.op = "ref_func" -> Need(i.func \in DOMAIN m.funcs, Sg(TRUE, <<>>, <<RefIdx(m.funcs[i.func], FALSE)>>))
          [] x.op = "ref_eq" -> Sg(IsRef(t) /\ IsRef(CkTop(k, 1)), <<CkTop(k, 1), t>>, <<I32>>)
          [] x.op = "ref_test" -> Sg(IsRef(t) /\ CkHeapType(m, i.ty), <<t>>, <<I32>>)
          [] x.op = "ref_cast" -> Sg(IsRef(t) /\ CkHeapType(m, i.ty), <<t>>, <<i.ty>>)
          [] x.op = "ref_as_non_null" -> Sg(IsRef(t), <<t>>, <<NonNull(t)>>)
          [] x.op = "ref_i31" -> Sg(TRUE, <<I32>>, <<Ref("i31", FALSE)>>)
          [] x.op = "i31_get" -> Sg(TRUE, <<Ref("i31", TRUE)>>, <<I32>>)

(* Allocations and the array operations that name their type. *)
CkObjectSig(m, x) ==
    LET i == x.imm
        d == m.defs[i.type]
        e == d.ty[1]
        ref == Storage(e)[2] = "ref"
        new == <<RefIdx(i.type, FALSE)>>
        obj == RefIdx(i.type, TRUE)
        kind == IF x.op \in Structs THEN "struct" ELSE "array"
    IN  Need(i.type \in DOMAIN m.defs /\ d.kind = kind,
             CASE x.op = "struct_new" -> Sg(TRUE, [j \in DOMAIN d.ty |-> Unpacked(d.ty[j])], new)
               [] x.op = "struct_new_default" -> Sg(\A j \in DOMAIN d.ty : Defaultable(d.ty[j]), <<>>, new)
               [] x.op = "array_new" -> Sg(TRUE, <<Unpacked(e), I32>>, new)
               [] x.op = "array_new_default" -> Sg(Defaultable(e), <<I32>>, new)
               [] x.op = "array_new_fixed" -> Sg(TRUE, [j \in 1..i.len |-> Unpacked(e)], new)
               [] x.op = "array_new_data" -> Sg(i.seg <= m.ndata /\ ~ref, <<I32, I32>>, new)
               [] x.op = "array_new_elem" ->
                    Sg(i.seg \in DOMAIN m.elems /\ ref /\ Sub(m, m.elems[i.seg], e), <<I32, I32>>, new)
               [] x.op = "array_fill" -> Sg(d.mut[1], <<obj, I32, Unpacked(e), I32>>, <<>>)
               [] x.op = "array_init_data" -> Sg(d.mut[1] /\ i.seg <= m.ndata /\ ~ref, <<obj, I32, I32, I32>>, <<>>))

CkNumericSig(x) ==
    Sg(TRUE, [j \in DOMAIN x.imm.args |-> Num(x.imm.args[j])], <<Num(x.imm.res)>>)

CkSelectSig(m, k, x) ==
    LET t == CkTop(k, 1)
    IN  IF x.op = "select" THEN Sg(Len(k.stk) > 2 /\ t = CkTop(k, 2), <<t, t, I32>>, <<t>>)
        ELSE Sg(ValType(m, x.imm.ty), <<x.imm.ty, x.imm.ty, I32>>, <<x.imm.ty>>)

CkSig(p, k, x) ==
    LET m == p.c.m
    IN  CASE x.op \in {"num", "float_convert"} -> CkNumericSig(x)
          [] x.op \in Lanes -> LaneSig(x.imm)
          [] x.op = "const" -> Sg(TRUE, <<>>, <<x.imm.ty>>)
          [] x.op = "drop" -> Sg(k.stk # <<>>, <<CkTop(k, 0)>>, <<>>)
          [] x.op \in {"select", "select_t"} -> CkSelectSig(m, k, x)
          [] x.op \in Locals -> CkLocalSig(p.c, x)
          [] x.op \in Globals -> CkGlobalSig(m, x)
          [] x.op \in Tables -> CkTableSig(m, x)
          [] x.op \in Memories -> CkMemorySig(m, x)
          [] x.op \in LaneAccesses \cup {"load", "store"} -> CkAccessSig(m, x)
          [] x.op = "data_drop" -> Sg(x.imm.data <= m.ndata, <<>>, <<>>)
          [] x.op = "elem_drop" -> Sg(x.imm.elem \in DOMAIN m.elems, <<>>, <<>>)
          [] x.op \in Refs -> CkRefSig(m, k, x)
          [] x.op = "array_len" -> Sg(TRUE, <<Ref("array", TRUE)>>, <<I32>>)
          [] OTHER -> CkObjectSig(m, x)

CkPlain(p, k, x) ==
    LET s == CkSig(p, k, x)
        resumable == x.op \in ResumableBulk => RefMap(p, x.map, k.stk)
        popped == CkPop(p, k, s.pop)
    IN  IF s.ok /\ resumable /\ popped.ok THEN CkPush(p, popped, s.push) ELSE Fail(k)

---------------------------------------------------------------------------
(* Accessors find the type of the object on the stack.  References of      *)
(* bottom types are always null, so the path ends there.                   *)

IsBottomRef(t) == t.head = "none"

CompOk(p, k, n, kind) ==
    LET t == Norm(CkTop(k, n))
    IN  Len(k.stk) > n /\ (IsBottomRef(t) \/ (IsConcrete(t) /\ p.c.m.defs[t.idx].kind = kind))

CkAccessor(p, k, x) ==
    LET n == CASE x.op \in {"struct_get", "struct_get_packed"} -> 0
               [] x.op \in {"struct_set", "array_get", "array_get_packed"} -> 1
               [] x.op = "array_set" -> 2
        struct == x.op \in Structs
        t == Norm(CkTop(k, n))
        d == p.c.m.defs[t.idx]
        j == IF struct THEN FieldAt(p.c.m, t.idx, x.imm.offset) ELSE 1
        index == IF struct THEN <<>> ELSE <<I32>>
        set == x.op \in {"struct_set", "array_set"}
        null == [k EXCEPT !.ends = TRUE]
    IN  IF ~CompOk(p, k, n, IF struct THEN "struct" ELSE "array") THEN Fail(k)
        ELSE IF IsBottomRef(t)
        THEN IF struct THEN null
             ELSE Ensure(null, CkTop(k, n - 1) = I32)
        ELSE IF j = 0 THEN Fail(k)
        ELSE IF ~Accessible(x, d.ty[j]) \/ (set /\ ~d.mut[j]) THEN Fail(k)
        ELSE LET popped == CkPop(p, k, <<t>> \o index \o IF set THEN <<Unpacked(d.ty[j])>> ELSE <<>>)
             IN  IF popped.ok /\ ~set THEN CkPush(p, popped, <<Unpacked(d.ty[j])>>) ELSE popped

CkArrayCopy(p, k, x) ==
    LET m == p.c.m
        dst == Norm(CkTop(k, 4))
        src == Norm(CkTop(k, 2))
        null == IsBottomRef(dst) \/ IsBottomRef(src)
        popped == CkPop(p, k, <<dst, I32, src, I32, I32>>)
    IN  IF \/ ~RefMap(p, x.map, k.stk) \/ ~CompOk(p, k, 4, "array") \/ ~CompOk(p, k, 2, "array") THEN Fail(k)
        ELSE IF null THEN [popped EXCEPT !.ends = TRUE]
        ELSE Ensure(popped, m.defs[dst.idx].mut[1] /\ Sub(m, m.defs[src.idx].ty[1], m.defs[dst.idx].ty[1]))

CkArrayInitElem(p, k, x) ==
    LET m == p.c.m
        t == Norm(CkTop(k, 3))
        d == m.defs[t.idx]
        popped == CkPop(p, k, <<t, I32, I32, I32>>)
    IN  IF \/ ~RefMap(p, x.map, k.stk) \/ x.imm.seg \notin DOMAIN m.elems \/ ~CompOk(p, k, 3, "array") THEN Fail(k)
        ELSE IF IsBottomRef(t) THEN [popped EXCEPT !.ends = TRUE]
        ELSE Ensure(popped, /\ d.mut[1] /\ Storage(d.ty[1])[2] = "ref"
                            /\ Sub(m, m.elems[x.imm.seg], d.ty[1]))

---------------------------------------------------------------------------
(* Control flow. *)

Ending(k) == [k EXCEPT !.ends = TRUE]

CkBrTable(p, k, x) ==
    LET Next(l, r) == IF l.ok THEN Branch(p, l, x.tgt[r], x.keep, x.drops[r]) ELSE l
    IN  FoldLeft(Next, k, [r \in DOMAIN x.tgt |-> r])

CkReturn(p, k, x) ==
    IF p.c.const THEN Ending(Ensure(CkPop(p, k, <<p.c.expected>>), x.op = "end" /\ Len(k.stk) = 1))
    ELSE Ending(Ensure(CkPop(p, k, p.c.fn.results), x.op = "return" \/ Len(k.stk) = Len(p.c.fn.results)))

(* Frames in calls are scanned with the map of the POLL right before the   *)
(* call; the callee may throw once the arguments are gone.                 *)
CkCall(p, k, x) ==
    LET m == p.c.m
        i == x.imm
        tail == x.op \in TailCalls
        ty == IF CallKind(i) = "func" THEN m.funcs[i.func] ELSE i.type
        operand == CASE CallKind(i) = "func" -> <<>>
                     [] CallKind(i) = "ref" -> <<RefIdx(ty, TRUE)>>
                     [] CallKind(i) = "table" -> <<i.addr>>
        named == CASE CallKind(i) = "func" -> i.func \in DOMAIN m.funcs
                   [] CallKind(i) = "ref" -> IsFunc(m, i.type)
                   [] CallKind(i) = "table" ->
                        /\ IsFunc(m, i.type) /\ i.table \in DOMAIN m.tables
                        /\ IsSubtype(m.tables[i.table].elem, Ref("func", TRUE), m)
                        /\ m.tables[i.table].addr = i.addr
        popped == CkPop(p, k, Params(m, ty) \o operand)
        thrown == Throw(p, popped)
        results == Results(m, ty)
    IN  IF ~named \/ (~tail /\ k.at # k.polled) THEN Fail(k)
        ELSE IF ~popped.ok THEN popped
        ELSE IF tail
        THEN Ending(Ensure(popped, /\ Len(results) = Len(p.c.fn.results)
                                   /\ \A j \in DOMAIN results : Sub(m, results[j], p.c.fn.results[j])))
        ELSE IF thrown.ok THEN CkPush(p, thrown, results) ELSE thrown

CkBrOnRef(p, k, x) ==
    LET h == Len(k.stk)
        t == CkTop(k, 0)
        Top(l, u) == [l EXCEPT !.stk = Append(Front(k.stk), u)]
        Go(l) == Branch(p, l, x.tgt[1], x.keep, x.drops[1])
        from == IF x.imm.to.null THEN NonNull(t) ELSE t
        to == Norm(x.imm.to)
    IN  IF ~IsRef(t) THEN Fail(k)
        ELSE CASE x.op = "br_on_null" -> Top(Go([k EXCEPT !.stk = Front(@)]), NonNull(t))
               [] x.op = "br_on_non_null" -> [Go(Top(k, NonNull(t))) EXCEPT !.stk = Front(@)]
               [] x.op = "br_on_cast" -> IF CkHeapType(p.c.m, x.imm.to) THEN Top(Go(Top(k, to)), from) ELSE Fail(k)
               [] x.op = "br_on_cast_fail" -> IF CkHeapType(p.c.m, x.imm.to) THEN Top(Go(Top(k, from)), to) ELSE Fail(k)

CkTryTable(p, k, x) ==
    Ensure([k EXCEPT !.hs = Append(@, [at |-> k.at, h |-> Len(k.stk)])],
           /\ Len(k.hs) < MaxControlDepth
           /\ \A n \in DOMAIN x.tgt :
                 /\ x.drops[n] <= Len(k.stk)
                 /\ x.imm.catches[n].kind \in Tagged => x.imm.catches[n].tag \in DOMAIN p.c.m.tags)

CkThrow(p, k, x) ==
    LET types == IF x.op = "throw" THEN Params(p.c.m, p.c.m.tags[x.imm.tag]) ELSE <<Ref("exn", TRUE)>>
        popped == CkPop(p, k, types)
    IN  IF x.op = "throw" /\ x.imm.tag \notin DOMAIN p.c.m.tags THEN Fail(k)
        ELSE IF popped.ok THEN Ending(Throw(p, popped)) ELSE popped

CkConstOps == (ConstOps \ Silent) \cup {"num", "float_convert", "end"}

CheckInstr(p, k) ==
    LET x == p.code[k.at]
        cond == CkPop(p, k, <<I32>>)
        here(l) == Merge(p, l, x.tgt[1], l.stk, l.hs)
    IN  CASE p.c.const /\ x.op \notin CkConstOps -> Fail(k)
          [] x.op = "unreachable" -> Ending(k)
          [] x.op = "POLL" -> Ensure([k EXCEPT !.polled = k.at + 1], RefMap(p, x.map, k.stk))
          [] x.op = "TICK" -> Ensure(k, RefMap(p, x.map, k.stk))
          [] x.op = "METER" -> here(k)
          [] x.op = "if" -> IF cond.ok THEN here(cond) ELSE cond
          [] x.op = "else" -> Ending(here(k))
          [] x.op = "br" -> Ending(Branch(p, k, x.tgt[1], x.keep, x.drops[1]))
          [] x.op = "br_if" -> IF cond.ok THEN Branch(p, cond, x.tgt[1], x.keep, x.drops[1]) ELSE cond
          [] x.op = "br_table" -> IF cond.ok THEN Ending(CkBrTable(p, cond, x)) ELSE cond
          [] x.op \in {"return", "end"} -> CkReturn(p, k, x)
          [] x.op \in Calls -> CkCall(p, k, x)
          [] x.op \in {"br_on_null", "br_on_non_null", "br_on_cast", "br_on_cast_fail"} -> CkBrOnRef(p, k, x)
          [] x.op = "try_table" -> CkTryTable(p, k, x)
          [] x.op = "END_TRY_TABLE" -> IF k.hs = <<>> THEN Fail(k) ELSE [k EXCEPT !.hs = Front(@)]
          [] x.op = "TRIM_HANDLERS" -> IF x.n > Len(k.hs) THEN Fail(k) ELSE [k EXCEPT !.hs = SubSeq(@, 1, x.n)]
          [] x.op \in Throws -> CkThrow(p, k, x)
          [] x.op = "array_copy" -> CkArrayCopy(p, k, x)
          [] x.op = "array_init_elem" -> CkArrayInitElem(p, k, x)
          [] x.op \in Accessors -> CkAccessor(p, k, x)
          [] OTHER -> CkPlain(p, k, x)

---------------------------------------------------------------------------
(* The passes. *)

Targets(code) == UNION {ToSet(code[q].tgt) : q \in DOMAIN code}

(* One instruction of a path; a path ends at the next target. *)
(* What follows an instruction that left the state l. *)
Continue(p, l) ==
    LET next == l.at + 1
    IN  IF l.ends THEN l
        ELSE IF next > Len(p.code) THEN Fail(l)
        ELSE IF next \in p.targets THEN Ending(Merge(p, l, next, l.stk, l.hs))
        ELSE [l EXCEPT !.at = next]

RECURSIVE Path(_, _)
Path(p, k) == IF k.ends THEN k ELSE Path(p, Continue(p, CheckInstr(p, k)))

RECURSIVE Paths(_, _)
Paths(p, k) ==
    IF ~k.ok \/ k.work = <<>> THEN k.ok
    ELSE LET t == Last(k.work)
         IN  Paths(p, Path(p, [k EXCEPT !.work = Front(@), !.at = t, !.stk = k.joins[t].stk,
                                        !.hs = k.joins[t].hs, !.polled = 0, !.ends = FALSE]))

CheckLoweredCode(c, code, maps, tops, nodes, depth) ==
    LET p == [c |-> c, code |-> code, maps |-> maps, tops |-> tops, nodes |-> nodes, depth |-> depth,
              targets |-> Targets(code) \cup {1}]
        k == [stk |-> <<>>, hs |-> <<>>, at |-> 1, polled |-> 0, work |-> <<>>, ok |-> TRUE, ends |-> FALSE,
              joins |-> [q \in DOMAIN code |-> NoJoin]]
    IN  /\ code # <<>>
        /\ \A q \in DOMAIN code : Decodable(code[q])
        /\ Targets(code) \subseteq DOMAIN code
        /\ \A j \in DOMAIN maps : /\ maps[j].pos \in DOMAIN code
                                  /\ \A i \in DOMAIN maps : maps[i].pos = maps[j].pos => i = j
                                  /\ \A t \in ToSet(maps[j].types) : ValType(c.m, t)
        /\ Paths(p, Merge(p, k, 1, <<>>, <<>>))

=============================================================================
