------------------------------ MODULE Lowering ------------------------------
(***************************************************************************)
(* Lowering of analysed code (wah_lower_analyzed_code): blocks disappear,  *)
(* branches get the position of their target by backpatching, the fuel     *)
(* meter splits the code into chunks, and every chunk gets a slow island.  *)
(*                                                                         *)
(* Positions are instruction numbers instead of byte offsets.  A lowered   *)
(* instruction has its operation, its immediates imm, its targets tgt (0   *)
(* until patched) with the record of each table entry in sel, the values   *)
(* kept and dropped, a reference map and a number n; src and rec only      *)
(* serve the properties: the analysed instruction it comes from (the first *)
(* record it pays for, if a METER or TICK) and the record it belongs to.   *)
(***************************************************************************)
EXTENDS Validator

CONSTANTS
    MaxChunkCost,   \* WAH_METER_MAX_CHUNK_COST
    ChunkLimit      \* UINT16_MAX, the cost at which a chunk is split anyway

Metered(c) == c.meter /\ ~c.const

Lowered(op, src) ==
    [op |-> op, imm |-> [op |-> op], tgt |-> <<>>, sel |-> <<>>, keep |-> 0, drops |-> <<>>,
     map |-> NoMap, n |-> 0, src |-> src, rec |-> 0]

Pos(s) == Len(s.code) + 1
Put(s, x) == [s EXCEPT !.code = Append(@, x)]

InitLowering(c) ==
    [code |-> <<>>, ctl |-> <<>>, tryd |-> 0, maps |-> <<>>, fpatch |-> <<>>,
     chunks |-> <<>>, open |-> [meter |-> 0, start |-> 0], recs |-> <<>>,
     need |-> Metered(c), cost |-> 0]

(* The loops that contain a try_table. *)
LoopHasTry(out) ==
    LET Visit(s, k) ==
            LET op == out[k].i.op
            IN  CASE op \in {"block", "loop", "if"} -> [s EXCEPT !.open = Append(@, k)]
                  [] op = "try_table" ->
                       [open |-> Append(s.open, k),
                        marked |-> s.marked \cup {j \in ToSet(s.open) : out[j].i.op = "loop"}]
                  [] op = "end" /\ s.open # <<>> -> [s EXCEPT !.open = Front(@)]
                  [] OTHER -> s
    IN  FoldLeft(Visit, [open |-> <<>>, marked |-> {}], [k \in DOMAIN out |-> k]).marked

---------------------------------------------------------------------------
(* Branch targets.  A patch is an instruction and the number of a target. *)

Patch(code, patches, target) ==
    LET Fill(x, p) == [x EXCEPT ![p[1]].tgt[p[2]] = target]
    IN  FoldLeft(Fill, code, patches)

(* Mutant: a branch that leaves a try_table is not noticed. *)
ResolveBranchNoTrim(s, l, k) ==
    LET p == Len(s.code)
        d == Len(s.ctl) - l
        f == s.ctl[d]
    IN  IF d = 0 THEN [s EXCEPT !.fpatch = Append(@, <<p, k>>)]
        ELSE IF f.op = "loop" THEN [s EXCEPT !.code[p].tgt[k] = f.cont]
        ELSE [s EXCEPT !.ctl[d].patches = Append(@, <<p, k>>)]

(* Target k of the last instruction is label l. *)
ResolveBranch(s, l, k) ==
    LET p == Len(s.code)
        d == Len(s.ctl) - l
        f == s.ctl[d]
        t == [s EXCEPT !.ctl[d].trim = @ \/ s.tryd > f.tryd]
    IN  IF d = 0 THEN [s EXCEPT !.fpatch = Append(@, <<p, k>>)]
        ELSE IF f.op = "loop" THEN [t EXCEPT !.code[p].tgt[k] = f.cont]
        ELSE [t EXCEPT !.ctl[d].patches = Append(@, <<p, k>>)]

ResolveAll(s, labels) ==
    LET Next(t, k) == ResolveBranch(t, labels[k], k)
    IN  FoldLeft(Next, s, [k \in DOMAIN labels |-> k])

PushLabel(s, i) ==
    [s EXCEPT !.ctl = Append(@, [op |-> i.op, cont |-> Pos(s), ifpos |-> Len(s.code), patches |-> <<>>,
                                 tryd |-> s.tryd, trim |-> FALSE, bt |-> i.bt])]

(* The types of a label with references are kept for the checker.  The     *)
(* label of a position that already has one overrides the top types.       *)
StackMap(s, pos, types) ==
    LET again == s.maps # <<>> /\ Last(s.maps).pos = pos
        prev == IF again THEN Last(s.maps).types ELSE <<>>
        kept == SubSeq(prev, 1, Max({Len(prev) - Len(types), 0}))
    IN  IF \A j \in DOMAIN types : ~IsRef(types[j]) THEN s
        ELSE [s EXCEPT !.maps = Append(IF again THEN Front(@) ELSE @, [pos |-> pos, types |-> kept \o types])]

FinishFrame(s, end) ==
    LET f == Last(s.ctl)
        false == IF f.op = "if" THEN << <<f.ifpos, 1>> >> ELSE <<>>
    IN  [s EXCEPT !.ctl = Front(@), !.code = Patch(@, f.patches \o false, end)]

---------------------------------------------------------------------------
(* Fuel metering.  A chunk starts with a METER; a record is the code of    *)
(* one analysed instruction and costs one unit.                            *)

StartChunk(c, s) ==
    IF ~s.need THEN s
    ELSE [Put(s, Lowered("METER", 0)) EXCEPT !.open = [meter |-> Pos(s), start |-> Len(s.recs)],
                                            !.cost = 0, !.need = FALSE]

EndChunk(c, s) ==
    IF Metered(c) /\ s.cost > 0
    THEN [s EXCEPT !.code[s.open.meter].n = s.cost, !.code[s.open.meter].src = s.open.start + 1,
                   !.chunks = Append(@, [meter |-> s.open.meter, start |-> s.open.start,
                                         count |-> Len(s.recs) - s.open.start, next |-> Pos(s)]),
                   !.cost = 0, !.need = TRUE]
    ELSE IF Metered(c) /\ ~s.need
    THEN [s EXCEPT !.code = Front(@), !.need = TRUE]   \* an empty chunk is retracted
    ELSE s

Record(c, s, from, map) ==
    LET r == [at |-> from, len |-> Pos(s) - from, map |-> map]
        n == Len(s.recs) + 1
        t == [s EXCEPT !.recs = Append(@, r), !.cost = @ + 1,
                       !.code = SubSeq(@, 1, from - 1)
                                \o [p \in 1..r.len |-> [s.code[from + p - 1] EXCEPT !.rec = n]]]
    IN  IF ~Metered(c) THEN s
        ELSE IF t.cost = ChunkLimit THEN EndChunk(c, t) ELSE t

---------------------------------------------------------------------------
(* Specialised forms and the immediates left. *)

(* WAH_XLAT_OP *)
StorageOp(t) ==
    CASE t.head = "i8" -> 1
      [] t.head = "i16" -> 2
      [] t.head \in {"i32", "f32"} -> 4
      [] t.head \in {"i64", "f64"} -> 8
      [] t.head = "v128" -> 16
      [] OTHER -> 8

GlobalForm(m, i) ==
    [op |-> i.op, global |-> i.global,
     indirect |-> m.globals[i.global].imported /\ m.globals[i.global].mut]

(* The address types the variant of an instruction assumes. *)
AddressForm(m, i) ==
    CASE i.op = "memory_copy" -> i @@ [addr |-> m.mems[i.mem], faddr |-> m.mems[i.from]]
      [] i.op = "table_copy" -> i @@ [addr |-> m.tables[i.table].addr, faddr |-> m.tables[i.from].addr]
      [] i.op \in Memories \cup LaneAccesses \cup {"load", "store"} -> i @@ [addr |-> m.mems[i.mem]]
      [] OTHER -> i @@ [addr |-> m.tables[i.table].addr]

AccessorForm(m, i) ==
    LET d == m.defs[i.type]
    IN  IF d.kind = "struct"
        THEN [op |-> i.op, size |-> StorageOp(d.ty[i.field]), offset |-> Layout(d).offsets[i.field]]
        ELSE [op |-> i.op, size |-> StorageOp(d.ty[1])]

Accessors == {"struct_get", "struct_get_packed", "struct_set", "array_get", "array_get_packed", "array_set"}
Addressed == Memories \cup Tables \cup LaneAccesses \cup {"load", "store", "call_indirect", "return_call_indirect"}

Immediates(m, i) ==
    CASE i.op \in Globals -> GlobalForm(m, i)
      [] i.op \in Addressed -> AddressForm(m, i)
      [] i.op \in Accessors -> AccessorForm(m, i)
      [] i.op = "array_init_elem" -> [op |-> i.op, seg |-> i.seg]
      [] i.op \in {"array_copy", "if", "else", "br", "br_if", "br_table", "end"} -> [op |-> i.op]
      [] i.op = "try_table" ->
           [op |-> i.op, catches |-> [k \in DOMAIN i.catches |-> [kind |-> i.catches[k].kind, tag |-> i.catches[k].tag]]]
      [] OTHER -> i

---------------------------------------------------------------------------
(* The instructions.  e is the analysed instruction number k. *)

Poll(e, k) == [Lowered("POLL", k) EXCEPT !.map = e.map]
Polled(c, e) == ~c.const /\ e.poll
Trim(depth) == [Lowered("TRIM_HANDLERS", 0) EXCEPT !.n = depth]

LowerBlock(c, s, out, k) ==
    LET e == out[k]
        loop == e.i.op = "loop"
        s1 == IF Polled(c, e) /\ loop THEN EndChunk(c, s) ELSE s
        s2 == IF Polled(c, e) THEN [Put(s1, Poll(e, k)) EXCEPT !.need = IF loop THEN Metered(c) ELSE @] ELSE s1
        s3 == StartChunk(c, s2)
        s4 == PushLabel(s3, e.i)
        s5 == StackMap([s4 EXCEPT !.ctl[Len(s4.ctl)].cont = Pos(s1)], Pos(s1), BlockParams(c.m, e.i.bt))
        s6 == IF k \in LoopHasTry(out) THEN Put(s5, Trim(s5.tryd)) ELSE s5
    IN  Record(c, IF loop THEN s6 ELSE s4, Pos(s3), e.map)

Branching(e, k, imm) ==
    [Lowered(e.i.op, k) EXCEPT !.imm = imm, !.tgt = [r \in DOMAIN e.labels |-> 0], !.sel = e.sel,
                               !.keep = e.keep, !.drops = e.drops]

LowerTryTable(c, s, out, k) ==
    LET e == out[k]
        s1 == StartChunk(c, IF Polled(c, e) THEN Put(s, Poll(e, k)) ELSE s)
        s2 == ResolveAll(Put(s1, Branching(e, k, Immediates(c.m, e.i))), e.labels)
    IN  Record(c, [PushLabel(s2, e.i) EXCEPT !.tryd = @ + 1], Pos(s1), e.map)

(* Mutant: the chunk goes on behind a branch target. *)
LowerEndSameChunk(c, s, out, k) ==
    LET f == Last(s.ctl)
        s1 == StartChunk(c, s)
        s2 == IF f.op = "try_table" THEN [Put(s1, Lowered("END_TRY_TABLE", k)) EXCEPT !.tryd = @ - 1] ELSE s1
        s3 == Record(c, s2, Pos(s1), out[k].map)
        s4 == IF f.op = "loop" THEN s3 ELSE StackMap(s3, Pos(s3), BlockResults(c.m, f.bt))
        s5 == FinishFrame(s4, Pos(s3))
    IN  IF f.trim /\ f.op # "loop" THEN Record(c, Put(s5, Trim(f.tryd)), Pos(s5), out[k + 1].map) ELSE s5

(* Branches to the end of the block land behind a fresh METER; the         *)
(* handlers they left are dropped there.                                   *)
LowerEnd(c, s, out, k) ==
    LET f == Last(s.ctl)
        target == f.patches # <<>> \/ f.op = "if"
        s1 == StartChunk(c, s)
        s2 == IF f.op = "try_table" THEN [Put(s1, Lowered("END_TRY_TABLE", k)) EXCEPT !.tryd = @ - 1] ELSE s1
        s3 == Record(c, s2, Pos(s1), out[k].map)
        s4 == IF Metered(c) /\ target THEN StartChunk(c, EndChunk(c, s3)) ELSE s3
        end == IF Metered(c) /\ target THEN s4.open.meter ELSE Pos(s3)
        s5 == IF f.op = "loop" THEN s4 ELSE StackMap(s4, end, BlockResults(c.m, f.bt))
        s6 == FinishFrame(s5, end)
    IN  IF f.trim /\ f.op # "loop" THEN Record(c, Put(s6, Trim(f.tryd)), Pos(s6), out[k + 1].map) ELSE s6

(* Branches to the function's label land on its END itself. *)
LowerLastEnd(c, s, out, k) ==
    LET s1 == StartChunk(c, s)
        s2 == EndChunk(c, Record(c, Put(s1, Lowered("end", k)), Pos(s1), out[k].map))
    IN  [s2 EXCEPT !.code = Patch(@, s.fpatch, Pos(s1))]

(* Mutant: the false edge of the if skips nothing but the ELSE's target. *)
ElseArmToElse(s) ==
    LET f == Last(s.ctl)
        p == Len(s.code)
    IN  [s EXCEPT !.ctl[Len(s.ctl)].op = "else", !.ctl[Len(s.ctl)].patches = Append(@, <<p, 1>>),
                  !.code = Patch(@, << <<f.ifpos, 1>> >>, p)]

ElseArm(s) ==
    LET f == Last(s.ctl)
        p == Len(s.code)
    IN  [s EXCEPT !.ctl[Len(s.ctl)].op = "else", !.ctl[Len(s.ctl)].patches = Append(@, <<p, 1>>),
                  !.code = Patch(@, << <<f.ifpos, 1>> >>, p + 1)]

(* After these a chunk that is expensive enough ends. *)
Transfers == Calls \cup Throws
             \cup {"br", "br_if", "br_table", "br_on_null", "br_on_non_null", "br_on_cast",
                   "br_on_cast_fail", "return", "if"}

LowerOther(c, s, out, k) ==
    LET e == out[k]
        s1 == StartChunk(c, s)
        s2 == IF Polled(c, e) THEN Put(s1, Poll(e, k)) ELSE s1
        x == [Branching(e, k, Immediates(c.m, e.i)) EXCEPT
                 !.tgt = IF e.i.op \in {"if", "else"} THEN <<0>> ELSE @,
                 !.map = IF e.i.op \in ResumableBulk THEN e.map ELSE NoMap]
        s3 == Put(s2, x)
        s4 == CASE e.i.op = "if" -> PushLabel(s3, e.i)
                [] e.i.op = "else" -> ElseArm(s3)
                [] OTHER -> ResolveAll(s3, e.labels)
        s5 == Record(c, s4, Pos(s1), e.map)
    IN  IF s5.cost > 0 /\ (e.i.op = "else" \/ (e.i.op \in Transfers /\ s5.cost >= MaxChunkCost))
        THEN EndChunk(c, s5) ELSE s5

LowerInstr(c, s, out, k) ==
    CASE out[k].i.op \in {"block", "loop"} -> LowerBlock(c, s, out, k)
      [] out[k].i.op = "try_table" -> LowerTryTable(c, s, out, k)
      [] out[k].i.op = "end" /\ s.ctl # <<>> -> LowerEnd(c, s, out, k)
      [] out[k].i.op = "end" /\ s.ctl = <<>> -> LowerLastEnd(c, s, out, k)
      [] OTHER -> LowerOther(c, s, out, k)

---------------------------------------------------------------------------
(* The slow islands: the code of the chunk with a TICK before each record, *)
(* and a jump to what follows the chunk.                                   *)

NoFallthrough == TailCalls \cup Throws \cup {"br", "return", "br_table", "unreachable", "end"}

CopyRecord(s, r) ==
    LET rec == s.recs[r]
        tick == [Lowered("TICK", r) EXCEPT !.map = rec.map]
    IN  [s EXCEPT !.code = Append(@, tick) \o SubSeq(@, rec.at, rec.at + rec.len - 1)]

Island(s, chunk) ==
    LET last == s.recs[chunk.start + chunk.count]
        t == FoldLeft(CopyRecord, [s EXCEPT !.code[chunk.meter].tgt = <<Pos(s)>>],
                      [r \in 1..chunk.count |-> chunk.start + r])
    IN  IF last.len > 0 /\ s.code[last.at].op \in NoFallthrough THEN t
        ELSE Put(t, [Lowered("else", 0) EXCEPT !.tgt = <<chunk.next>>])

Islands(s) == FoldLeft(Island, s, s.chunks)

LowerAnalyzedCode(c, out) ==
    LET Next(s, k) == LowerInstr(c, s, out, k)
    IN  Islands(FoldLeft(Next, InitLowering(c), [k \in DOMAIN out |-> k]))

=============================================================================
