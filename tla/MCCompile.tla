----------------------------- MODULE MCCompile -----------------------------
(***************************************************************************)
(* Bodies for Compile.  The profiles of the first kind build every body    *)
(* from a small alphabet, one for each feature that bends the control      *)
(* flow.  The others take one instruction of each group with its operands  *)
(* read from locals, at function level or inside a block, and drop what it *)
(* leaves; also with an operand missing.                                   *)
(***************************************************************************)
EXTENDS Compile

AnyRef == Ref("any", TRUE)

(* 1 to 3: functions, 4: a struct in a group with 3, 5: its subtype, 6 and *)
(* 7: arrays.                                                              *)
MCDefs ==
    LET ds == << Def("func", TRUE, NoSuper, <<>>, <<>>, 0),
                 Def("func", TRUE, NoSuper, <<I32, I32>>, <<>>, 1),
                 Def("func", TRUE, NoSuper, <<AnyRef, RefIdx(4, FALSE)>>, <<>>, 1),
                 Def("struct", FALSE, NoSuper, <<Num("i8"), AnyRef>>, <<TRUE, FALSE>>, 0),
                 Def("struct", TRUE, 4, <<Num("i8"), RefIdx(4, TRUE), Num("i64")>>, <<TRUE, FALSE, TRUE>>, 0),
                 Def("array", TRUE, NoSuper, <<AnyRef>>, <<TRUE>>, 0),
                 Def("array", TRUE, NoSuper, <<Num("i16")>>, <<TRUE>>, 0) >>
    IN  [j \in DOMAIN ds |-> ds[j] @@ IF j \in 3..4 THEN [start |-> 3, size |-> 2] ELSE [start |-> j, size |-> 1]]

MCModule ==
    LET m == [defs |-> MCDefs, canon |-> <<>>,
              funcs |-> <<1, 2, 3>>,
              globals |-> <<[ty |-> I32, mut |-> TRUE, imported |-> TRUE],
                            [ty |-> AnyRef, mut |-> FALSE, imported |-> TRUE],
                            [ty |-> I32, mut |-> TRUE, imported |-> FALSE],
                            [ty |-> RefIdx(4, TRUE), mut |-> FALSE, imported |-> FALSE]>>,
              tables |-> <<[elem |-> Ref("func", TRUE), addr |-> I32], [elem |-> AnyRef, addr |-> I64],
                           [elem |-> RefIdx(4, TRUE), addr |-> I32]>>,
              mems |-> <<I32, I64>>,
              tags |-> <<1, 2>>,
              elems |-> <<Ref("func", TRUE), RefIdx(4, TRUE)>>,
              ndata |-> 1]
    IN  [m EXCEPT !.canon = CanonicalMap(m)]

---------------------------------------------------------------------------
(* Instructions. *)

O(op) == [op |-> op]
Bt(idx, ty) == [idx |-> idx, ty |-> ty]
Void == Bt(0, Bot)
Blk(op, bt) == [op |-> op, bt |-> bt]
L(op, l) == [op |-> op, l |-> l]
Tbl(ls) == [op |-> "br_table", ls |-> ls]
Loc(op, n) == [op |-> op, local |-> n]
Const == [op |-> "const", ty |-> I32]
Call(f) == [op |-> "call", func |-> f]
Catch(kind, tag, l) == [kind |-> kind, tag |-> tag, l |-> l]
Try(bt, ks) == [op |-> "try_table", bt |-> bt, catches |-> ks]
ThrowI(tag) == [op |-> "throw", tag |-> tag]
Cast(op, l, from, to) == [op |-> op, l |-> l, from |-> from, to |-> to]

Alphabet ==
    [ control |-> {Blk("block", Void), Blk("block", Bt(0, I32)), Blk("loop", Void), Blk("if", Void), O("else"),
                   O("end"), L("br", 0), L("br", 1), L("br_if", 0), Tbl(<<1, 0, 1>>), Const, O("drop")},
      exceptions |-> {Blk("block", Void), Blk("loop", Void), Try(Void, <<Catch("catch_all", 0, 0)>>),
                      Try(Void, <<Catch("catch", 1, 1)>>), O("end"), L("br", 0), L("br", 1), L("br_if", 1), Const},
      plain |-> {Blk("block", Void), Blk("loop", Void), Try(Void, <<Catch("catch_all", 0, 0)>>), O("end"),
                 L("br", 1), L("br", 2), Call(1), ThrowI(1)},
      refs |-> {Blk("block", Bt(0, AnyRef)), Blk("loop", Bt(3, Bot)), O("end"), L("br_on_null", 0), L("br_on_non_null", 0),
                Cast("br_on_cast", 0, AnyRef, RefIdx(4, FALSE)), Loc("local_get", 1), O("drop"), Call(3), L("br", 0), O("nop")},
      inits |-> {Blk("block", Void), Blk("if", Void), O("else"), O("end"), Loc("local_get", 1), Loc("local_get", 2),
                 Loc("local_set", 2), L("br_if", 0), Const, O("drop")} ]

AlphabetLen == [control |-> 8, exceptions |-> 8, plain |-> 8, refs |-> 7, inits |-> 9]

---------------------------------------------------------------------------
(* One instruction with its operands. *)

Operands == <<I32, I64, Num("f32"), Num("f64"), V128, AnyRef, RefIdx(4, TRUE), RefIdx(6, TRUE), RefIdx(7, TRUE),
              Ref("func", TRUE), Ref("eq", TRUE), Ref("i31", TRUE), Ref("exn", TRUE), Ref("extern", TRUE),
              RefIdx(2, TRUE), RefIdx(4, FALSE), Ref("none", TRUE)>>

Mem(op, ty, lg, mem) == [op |-> op, ty |-> ty, lg |-> lg, align |-> lg, mem |-> mem, big |-> mem = 2]

Ops ==
    {[op |-> "num", args |-> a, res |-> r, arith |-> FALSE] :
         <<a, r>> \in {<< <<"i32", "i32">>, "i32">>, << <<"i64">>, "i32">>, << <<"v128", "i32">>, "v128">>}}
    \cup {[op |-> "float_convert", args |-> <<"f32">>, res |-> "f64"]}
    \cup {Mem(op, ty, 2, mem) : op \in {"load", "store"}, ty \in {I32, Num("f64")}, mem \in 1..2}
    \cup {Mem(op, V128, 3, 2) @@ [lane |-> n] : op \in LaneAccesses, n \in {1, 2}}
    \cup {[op |-> "extract_lane", ty |-> I64, lanes |-> 2, lane |-> 1],
          [op |-> "replace_lane", ty |-> Num("f32"), lanes |-> 4, lane |-> 3], [op |-> "replace_lane", ty |-> Num("f32"), lanes |-> 4, lane |-> 4],
          [op |-> "shuffle", mask |-> <<31, 0>>]}
    \cup {[op |-> op, mem |-> mem] : op \in {"memory_size", "memory_grow", "memory_fill"}, mem \in 1..3}
    \cup {[op |-> "memory_copy", mem |-> a, from |-> b] : a, b \in 1..2}
    \cup {[op |-> "memory_init", mem |-> 2, data |-> 1], [op |-> "data_drop", data |-> 1]}
    \cup {[op |-> op, table |-> t] :
              op \in {"table_get", "table_set", "table_size", "table_grow", "table_fill"}, t \in 1..2}
    \cup {[op |-> "table_copy", table |-> a, from |-> b] : a, b \in 2..3}
    \cup {[op |-> "table_init", table |-> t, elem |-> e] : t, e \in 1..2}
    \cup {[op |-> "elem_drop", elem |-> e] : e \in {1, 3}}
    \cup {[op |-> op, func |-> 2] : op \in {"call", "return_call", "ref_func"}}
    \cup {[op |-> op, type |-> 2, table |-> t] : op \in {"call_indirect", "return_call_indirect"}, t \in 1..2}
    \cup {[op |-> op, type |-> 2] : op \in {"call_ref", "return_call_ref"}}
    \cup {[op |-> "global_get", global |-> g] : g \in 1..5} \cup {[op |-> "global_set", global |-> g] : g \in 1..4}
    \cup {Loc("local_tee", 1), O("unreachable"), O("return"), O("nop"), O("ref_is_null"), O("ref_eq"),
          O("ref_as_non_null"), O("any_convert_extern"), O("extern_convert_any"), O("ref_i31"), O("i31_get"),
          O("array_len"), O("throw_ref"), ThrowI(2)}
    \cup {[op |-> "ref_null", ty |-> t] : t \in {Ref("none", FALSE), RefIdx(4, FALSE), RefIdx(8, FALSE)}}
    \cup {[op |-> op, ty |-> RefIdx(5, null)] : op \in {"ref_test", "ref_cast"}, null \in BOOLEAN}
    \cup {[op |-> "select_t", ty |-> AnyRef], O("select")}
    \cup {[op |-> op, type |-> t] : op \in {"struct_new", "struct_new_default"}, t \in 4..5}
    \cup {[op |-> op, type |-> t, field |-> f] :
              op \in {"struct_get", "struct_get_packed", "struct_set"}, t \in 4..5, f \in 1..3}
    \cup {[op |-> op, type |-> t, seg |-> s, len |-> 2, from |-> 6] : op \in Arrays, t \in 6..7, s \in 1..2}

SlotOf(t) == CHOOSE j \in DOMAIN Operands : Operands[j] = t

(* The operands as locals: exactly the type, or the bottom of its          *)
(* hierarchy.                                                              *)
Reads(ts, bottom) ==
    [j \in DOMAIN ts |->
        Loc("local_get", IF bottom /\ IsRef(ts[j]) THEN SlotOf(Ref("none", TRUE))
                         ELSE IF ts[j] \in ToSet(Operands) THEN SlotOf(ts[j]) ELSE 1)]

OneConfig(meter) ==
    [m |-> MCModule, fn |-> [params |-> Operands, results |-> <<I32>>, locals |-> Operands],
     const |-> FALSE, meter |-> meter, maxGlobal |-> 0, expected |-> Bot, declared |-> {2}]

(* What the validator would see on the stack. *)
Seen(i) ==
    CASE i.op \in {"ref_is_null", "ref_test", "ref_cast", "ref_as_non_null", "extern_convert_any"} -> <<AnyRef>>
      [] i.op = "any_convert_extern" -> <<Ref("extern", TRUE)>>
      [] i.op = "array_len" -> <<RefIdx(7, TRUE)>>
      [] i.op = "throw_ref" -> <<Ref("exn", TRUE)>>
      [] i.op = "select" -> <<I64, I64, I32>>
      [] OTHER -> <<>>

SigOf(i) ==
    IF i.op \in {"return"} THEN Sg(TRUE, <<I32>>, <<>>)
    ELSE Sig(OneConfig(TRUE), [InitContext({2}) EXCEPT !.stack = Seen(i)], i)

ScriptFor(i, s, bottom, short, inside) ==
    LET reads == Reads(IF short /\ s.pop # <<>> THEN Tail(s.pop) ELSE s.pop, bottom)
        drops == [j \in DOMAIN s.push |-> O("drop")]
        core == reads \o <<i>> \o drops
    IN  (IF inside THEN <<Loc("local_get", 6), Blk("block", Void), Try(Void, <<Catch("catch_all", 0, 0)>>)>> \o core
                          \o <<O("end"), O("end"), O("drop")>>
         ELSE core)
        \o <<Const, O("end")>>

Script(i, bottom, short, inside) == ScriptFor(i, SigOf(i), bottom, short, inside)

Scripts ==
    {Script(i, FALSE, short, inside) : i \in Ops, short \in BOOLEAN, inside \in BOOLEAN}
    \cup {Script(i, TRUE, FALSE, FALSE) : i \in Ops}

---------------------------------------------------------------------------
(* Constant expressions. *)
ConstAlphabet ==
    {Const, [op |-> "num", args |-> <<"i32", "i32">>, res |-> "i32", arith |-> TRUE],
     [op |-> "num", args |-> <<"i32", "i32">>, res |-> "i32", arith |-> FALSE],
     [op |-> "global_get", global |-> 1], [op |-> "global_get", global |-> 2], [op |-> "global_get", global |-> 4],
     [op |-> "ref_func", func |-> 1], [op |-> "ref_null", ty |-> Ref("none", FALSE)], [op |-> "struct_new", type |-> 4],
     O("ref_i31"), O("extern_convert_any"), Blk("block", Void), O("end")}

---------------------------------------------------------------------------
MCProfiles == DOMAIN Alphabet \cup {"one", "onePlain", "const"}

MCConfig(p) ==
    CASE p \in {"one", "onePlain"} -> OneConfig(p = "one")
      [] p = "const" -> [OneConfig(FALSE) EXCEPT !.const = TRUE, !.maxGlobal = 2, !.expected = AnyRef,
                                                 !.fn = [params |-> <<>>, results |-> <<>>, locals |-> <<>>]]
      [] OTHER ->
           [OneConfig(p # "plain") EXCEPT
               !.fn = LET t == IF p = "inits" THEN RefIdx(4, FALSE) ELSE AnyRef
                      IN  [params |-> <<t>>, results |-> IF p = "control" THEN <<I32>> ELSE <<>>, locals |-> <<t, t>>]]

MCMaxLen(p) == IF p \in {"one", "onePlain"} THEN 20 ELSE IF p = "const" THEN 5 ELSE AlphabetLen[p]

MCMenu(p, done) ==
    CASE p \in {"one", "onePlain"} ->
           {s[Len(done) + 1] : s \in {t \in Scripts : Len(t) > Len(done) /\ SubSeq(t, 1, Len(done)) = done}}
      [] p = "const" -> ConstAlphabet
      [] OTHER -> Alphabet[p]

=============================================================================
