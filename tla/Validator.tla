----------------------------- MODULE Validator -----------------------------
(***************************************************************************)
(* Control flow in the validator (wah_validate_opcode) and the analysis    *)
(* around it (wah_analyze_stream): each instruction is validated and, but  *)
(* for a few, emitted with its branch adjustments, a poll flag and a       *)
(* reference map.                                                          *)
(*                                                                         *)
(* A block type is a record [idx, ty]: a function type, or no parameter    *)
(* and the result ty (none if Bot).  What is emitted for i is a record     *)
(* with i itself, the labels it branches to, the number of values kept     *)
(* and, per label, the number dropped below them.                          *)
(***************************************************************************)
EXTENDS InstrTypes

BlockParams(m, bt) == IF bt.idx # 0 THEN Params(m, bt.idx) ELSE <<>>
BlockResults(m, bt) ==
    IF bt.idx # 0 THEN Results(m, bt.idx) ELSE IF bt.ty = Bot THEN <<>> ELSE <<bt.ty>>

DecodeBlockType(m, bt) == IF bt.idx # 0 THEN IsFunc(m, bt.idx) ELSE ScopedType(m, bt.ty)

(* The types and the stack height at a label; the outermost one is that of *)
(* the function.                                                           *)
BrTarget(c, v, l) ==
    IF l = Len(v.ctl) THEN [types |-> c.fn.results, height |-> 0]
    ELSE LET f == v.ctl[Len(v.ctl) - l]
         IN  [types |-> IF f.op = "loop" THEN f.params ELSE f.results, height |-> f.height]

Emit(v, i) == [v |-> v, out |-> <<[i |-> i, labels |-> <<>>, sel |-> <<>>, keep |-> 0, drops |-> <<>>]>>]

EmitBranch(v, i, labels, sel, keep, drops) ==
    [v |-> v, out |-> <<[i |-> i, labels |-> labels, sel |-> sel, keep |-> keep, drops |-> drops]>>]

Reject(v, i) == Emit(Require(v, FALSE), i)

Drop(v, target, n) == IF v.dead THEN 0 ELSE Len(v.stack) - target.height - n
Keep(v, n) == IF v.dead THEN 0 ELSE n

---------------------------------------------------------------------------
(* Blocks. *)

PushFrame(c, v, i, w) ==
    LET m == c.m
        frame == [op |-> i.op, params |-> BlockParams(m, i.bt), results |-> BlockResults(m, i.bt),
                  height |-> Len(w.stack), dead |-> v.dead, els |-> FALSE, undo |-> Len(v.undo)]
    IN  PushTypes([w EXCEPT !.ctl = Append(@, frame), !.dead = FALSE], frame.params)

OpenBlock(c, v, i) ==
    LET cond == IF i.op = "if" THEN PopTypes(v, <<I32>>, c.m) ELSE v
    IN  IF Len(v.ctl) >= MaxControlDepth \/ ~DecodeBlockType(c.m, i.bt) THEN Reject(v, i)
        ELSE Emit(PushFrame(c, v, i, PopTypes(cond, BlockParams(c.m, i.bt), c.m)), i)

(* Mutant: locals set in the first arm stay initialised in the second. *)
ElseBlockKeepsInits(c, v, i) ==
    LET f == Last(v.ctl)
        w == PopTypes(v, f.results, c.m)
        u == Truncate(Require(w, Len(w.stack) = f.height), f.height)
    IN  IF v.ctl = <<>> \/ f.op # "if" \/ f.els THEN Reject(v, i)
        ELSE Emit(PushTypes([u EXCEPT !.ctl[Len(v.ctl)].els = TRUE, !.dead = FALSE], f.params), i)

ElseBlock(c, v, i) ==
    LET f == Last(v.ctl)
        w == PopTypes(v, f.results, c.m)
        u == RevertInits(Truncate(Require(w, Len(w.stack) = f.height), f.height), f.undo)
    IN  IF v.ctl = <<>> \/ f.op # "if" \/ f.els THEN Reject(v, i)
        ELSE Emit(PushTypes([u EXCEPT !.ctl[Len(v.ctl)].els = TRUE, !.dead = FALSE], f.params), i)

(* The missing arm of an if passes its parameters as results. *)
ImplicitElse(f, m) == f.op = "if" /\ ~f.els => AllMatch(f.params, f.results, m)

EndBlock(c, v, i) ==
    LET f == Last(v.ctl)
        w == PopTypes(v, f.results, c.m)
        u == RevertInits(Truncate(Require(w, Len(w.stack) = f.height), f.height), f.undo)
    IN  IF v.ctl = <<>> THEN Reject(v, i)
        ELSE Emit(PushTypes([Require(u, ImplicitElse(f, c.m)) EXCEPT !.ctl = Front(@), !.dead = f.dead],
                            f.results), i)

---------------------------------------------------------------------------
(* Branches. *)

Br(c, v, i) ==
    LET w == IF i.op = "br_if" THEN PopTypes(v, <<I32>>, c.m) ELSE v
        t == BrTarget(c, w, i.l)
        n == Len(t.types)
        p == PopTypes(w, t.types, c.m)
    IN  IF i.l > Len(v.ctl) THEN Reject(v, i)
        ELSE EmitBranch(IF i.op = "br_if" THEN PushTypes(p, t.types) ELSE MarkDead(p),
                        i, <<i.l>>, <<1>>, Keep(w, n), <<Drop(w, t, n)>>)

(* Equal labels share a record; the last label is the default. *)
BrTableRecords(ls) ==
    LET first == SelectSeq([k \in DOMAIN ls |-> k], LAMBDA k : \A j \in 1..k - 1 : ls[j] # ls[k])
    IN  [r \in DOMAIN first |-> ls[first[r]]]

BrTable(c, v, i) ==
    LET w == PopTypes(v, <<I32>>, c.m)
        recs == BrTableRecords(i.ls)
        T(l) == BrTarget(c, w, l)
        n == Len(T(Last(i.ls)).types)
        p == PopTypes(w, T(Last(i.ls)).types, c.m)
        same == \A r \in DOMAIN recs : /\ Len(T(recs[r]).types) = n
                                       /\ PopTypes(w, T(recs[r]).types, c.m).ok
    IN  IF \E k \in DOMAIN i.ls : i.ls[k] > Len(v.ctl) THEN Reject(v, i)
        ELSE EmitBranch(MarkDead(Require(p, same)), i, recs,
                        [k \in DOMAIN i.ls |-> CHOOSE r \in DOMAIN recs : recs[r] = i.ls[k]],
                        Keep(w, n), [r \in DOMAIN recs |-> Drop(w, T(recs[r]), n)])

Return(c, v, i) == Emit(MarkDead(PopTypes(v, c.fn.results, c.m)), i)

(* The values below the reference get the types of the label; the last one *)
(* is pushed by the caller.                                                *)
BrOnRef(c, w, i, t, prefix, left) ==
    EmitBranch(PushTypes(PopTypes(w, prefix, c.m), prefix \o left), i, <<i.l>>, <<1>>,
               Keep(w, Len(t.types)), <<Drop(w, t, Len(prefix))>>)

BrOnCast(c, v, i) ==
    LET w == PopTypes(v, <<i.from>>, c.m)
        t == BrTarget(c, w, i.l)
        rest == IF i.to.null THEN NonNull(i.from) ELSE i.from
        taken == IF i.op = "br_on_cast" THEN i.to ELSE rest
        left == IF i.op = "br_on_cast" THEN rest ELSE i.to
    IN  IF \/ i.l > Len(v.ctl) \/ ~ScopedType(c.m, i.from) \/ ~ScopedType(c.m, i.to)
           \/ ~IsSubtype(NonNull(i.to), NonNull(i.from), c.m) \/ (i.to.null /\ ~i.from.null)
        THEN Reject(v, i)
        ELSE IF t.types = <<>> THEN Reject(v, i)
        ELSE BrOnRef(c, Require(w, Matches(taken, Last(t.types), c.m)), i, t, Front(t.types), <<left>>)

BrOnNull(c, v, i) ==
    LET ref == At(v, 0)
        nonnull == IF ref = Bot THEN Bot ELSE NonNull(ref)
        w == PopTypes(v, <<ref>>, c.m)
        t == BrTarget(c, w, i.l)
    IN  IF i.l > Len(v.ctl) \/ ~(IsRef(ref) \/ ref = Bot) THEN Reject(v, i)
        ELSE IF i.op = "br_on_null" THEN BrOnRef(c, w, i, t, t.types, <<nonnull>>)
        ELSE IF t.types = <<>> THEN Reject(v, i)
        ELSE BrOnRef(c, Require(w, IsSubtype(nonnull, Last(t.types), c.m)), i, t, Front(t.types), <<>>)

---------------------------------------------------------------------------
(* Exceptions.  The labels of the catches are those outside the try_table. *)

Tagged == {"catch", "catch_ref"}
WithRef == {"catch_ref", "catch_all_ref"}

CatchTypes(m, k) ==
    (IF k.kind \in Tagged THEN Params(m, m.tags[k.tag]) ELSE <<>>)
    \o (IF k.kind \in WithRef THEN <<Ref("exn", FALSE)>> ELSE <<>>)

TryTable(c, v, i) ==
    LET m == c.m
        w == PopTypes(v, BlockParams(m, i.bt), m)
        ks == DOMAIN i.catches
        T(k) == BrTarget(c, v, i.catches[k].l)
        deepest == Max({v.max} \cup {T(k).height + Len(T(k).types) : k \in ks})
        drops == [k \in ks |-> Len(w.stack) + Len(BlockParams(m, i.bt)) - T(k).height]
    IN  IF \/ Len(v.ctl) >= MaxControlDepth \/ ~DecodeBlockType(m, i.bt)
           \/ \E k \in ks : \/ i.catches[k].kind \in Tagged /\ i.catches[k].tag \notin DOMAIN m.tags
                            \/ i.catches[k].l > Len(v.ctl)
        THEN Reject(v, i)
        ELSE EmitBranch(PushFrame(c, v, i,
                                  [Require(w, \A k \in ks : AllMatch(CatchTypes(m, i.catches[k]), T(k).types, m))
                                      EXCEPT !.max = deepest]),
                        i, [k \in ks |-> i.catches[k].l], [k \in ks |-> k], 0, drops)

EmitPlain(w, i) == IF i.op \in Silent THEN [v |-> w, out |-> <<>>] ELSE Emit(w, i)

ValidateOpcode(c, v, i) ==
    CASE c.const /\ ~IsConstInstr(i) -> Reject(v, i)
      [] i.op \in {"block", "loop", "if"} -> OpenBlock(c, v, i)
      [] i.op = "else" -> ElseBlock(c, v, i)
      [] i.op = "end" -> EndBlock(c, v, i)
      [] i.op \in {"br", "br_if"} -> Br(c, v, i)
      [] i.op = "br_table" -> BrTable(c, v, i)
      [] i.op = "return" -> Return(c, v, i)
      [] i.op \in {"br_on_cast", "br_on_cast_fail"} -> BrOnCast(c, v, i)
      [] i.op \in {"br_on_null", "br_on_non_null"} -> BrOnNull(c, v, i)
      [] i.op = "try_table" -> TryTable(c, v, i)
      [] OTHER -> EmitPlain(Plain(c, v, i), i)

---------------------------------------------------------------------------
(* The analysis.  tops and nodes are the reference maps: a map is a chain  *)
(* of nodes, top first, and a prefix of the stack shared with the previous *)
(* capture (cap, with the top of every prefix in capTops) is not rebuilt.  *)
(* pend is the map of a poll that no emitted instruction has taken yet.    *)

NoMap == 0

InitAnalysis(declared) ==
    [v |-> InitContext(declared), out |-> <<>>, tops |-> <<>>, nodes |-> <<>>,
     cap |-> <<>>, capTops |-> <<0>>, first |-> TRUE, pend |-> NoMap]

CaptureRefMap(a) ==
    LET ts == a.v.stack
        low == Min({a.v.lwm, Len(a.cap)})
        common == Max({k \in low..Min({Len(ts), Len(a.cap)}) :
                          \A j \in low + 1..k : a.cap[j] = ts[j]})
        Slot(b, j) ==
            IF IsRef(ts[j])
            THEN [nodes |-> Append(b.nodes, [parent |-> Last(b.tops), pos |-> j]),
                  tops |-> Append(b.tops, Len(b.nodes) + 1)]
            ELSE [b EXCEPT !.tops = Append(@, Last(@))]
        b == FoldLeft(Slot, [nodes |-> a.nodes, tops |-> SubSeq(a.capTops, 1, common + 1)],
                      [k \in 1..Len(ts) - common |-> common + k])
    IN  IF a.v.dead THEN [a EXCEPT !.tops = Append(@, 0)]
        ELSE [a EXCEPT !.nodes = b.nodes, !.capTops = b.tops, !.cap = SubSeq(@, 1, common) \o SubSeq(ts, common + 1, Len(ts)),
                       !.v.lwm = Len(ts), !.tops = Append(@, Last(b.tops))]

(* The polls and captures before instruction i: its map and the pending    *)
(* poll.                                                                   *)
BeforeInstr(c, a, i) ==
    LET poll == ~c.const /\ (a.first \/ (a.pend = NoMap /\ i.op \in Calls))
        also == ~c.const /\ (c.meter \/ i.op \in ResumableBulk)
        b == IF poll \/ also THEN CaptureRefMap(a) ELSE a
        new == Len(b.tops)
    IN  [a |-> IF poll THEN [b EXCEPT !.pend = new, !.first = FALSE] ELSE b,
         map |-> IF poll \/ also THEN new ELSE a.pend]

(* The entry of an instruction in the analysed code. *)
Entry(e, map, poll) ==
    [i |-> e.i, labels |-> e.labels, sel |-> e.sel, keep |-> e.keep, drops |-> e.drops,
     map |-> map, poll |-> poll]

(* The emitted instruction takes the pending poll; a loop gets one anyway. *)
AfterInstr(c, a, r, i, map) ==
    LET polled == a.pend # NoMap
        b == IF r.out = <<>> THEN [a EXCEPT !.v = r.v]
             ELSE [a EXCEPT !.v = r.v, !.out = Append(@, Entry(r.out[1], map, polled)),
                            !.pend = NoMap]
        k == CaptureRefMap(b)
    IN  IF c.const \/ i.op # "loop" \/ polled \/ ~r.v.ok THEN b
        ELSE [k EXCEPT !.out[Len(k.out)].poll = TRUE, !.out[Len(k.out)].map = Len(k.tops)]

IsLast(c, a, i) == i.op = "end" /\ (c.const \/ a.v.ctl = <<>>)

(* The last END checks the results and is emitted without a poll. *)
LastEnd(c, a, i, map) ==
    LET v == a.v
        p == PopTypes(v, c.fn.results, c.m)
        e == Entry(Emit(v, i).out[1], map, FALSE)
    IN  [a EXCEPT !.out = Append(@, e),
                  !.v = IF c.const
                        THEN Require(v, /\ Len(v.stack) = 1
                                        /\ (v.stack[1] = Bot \/ IsSubtype(v.stack[1], c.expected, c.m)))
                        ELSE Require(p, p.stack = <<>>)]

AnalyzeStep(c, a, i) ==
    LET b == BeforeInstr(c, a, i)
    IN  IF IsLast(c, a, i) THEN LastEnd(c, b.a, i, b.map)
        ELSE AfterInstr(c, b.a, ValidateOpcode(c, b.a.v, i), i, b.map)

=============================================================================
