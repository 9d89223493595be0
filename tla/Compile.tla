------------------------------ MODULE Compile ------------------------------
(***************************************************************************)
(* One function body or constant expression through the compiler: it is    *)
(* validated instruction by instruction, lowered, and the result checked.  *)
(*                                                                         *)
(* The instructions are chosen one at a time from a menu that depends on   *)
(* the profile, a configuration of the compiler; MaxLen bounds a body.     *)
(***************************************************************************)
EXTENDS LoweredCheck

CONSTANTS
    Profiles,       \* the names of the configurations
    Config(_),      \* the configuration of a profile, see InstrTypes
    MaxLen(_),      \* the longest body of a profile
    Menu(_, _)      \* the instructions that may follow a body

VARIABLES prof, phase, body, an, low, deps

vars == <<prof, phase, body, an, low, deps>>

NoCode == [code |-> <<>>, maps |-> <<>>]

Init ==
    /\ prof \in Profiles
    /\ phase = "analyze"
    /\ body = <<>>
    /\ an = InitAnalysis(Config(prof).declared)
    /\ low = NoCode
    /\ deps = {}

(* Everything is freed when the body is rejected. *)
Discard ==
    /\ phase' = "rejected"
    /\ body' = <<>>
    /\ an' = InitAnalysis({})
    /\ low' = NoCode
    /\ deps' = {}

(* The globals a constant expression reads. *)
CollectGlobalDeps(out) == {out[k].i.global : k \in {j \in DOMAIN out : out[j].i.op = "global_get"}}

(* The next instruction of the body; there is always room for the END of   *)
(* every open block.                                                       *)
Analyze ==
    LET c == Config(prof)
    IN  /\ phase = "analyze"
        /\ \E i \in Menu(prof, body) :
              LET last == IsLast(c, an, i)
              IN \E a \in {AnalyzeStep(c, an, i)} :
                  /\ Len(body) + 1 + Len(a.v.ctl) + 1 <= MaxLen(prof) \/ last
                  /\ IF ~a.v.ok THEN Discard
                     ELSE /\ an' = a
                          /\ body' = Append(body, i)
                          /\ phase' = IF last THEN "lower" ELSE "analyze"
                          /\ deps' = IF last /\ c.const THEN CollectGlobalDeps(a.out) ELSE deps
                          /\ UNCHANGED low
        /\ UNCHANGED prof

Lower ==
    /\ phase = "lower"
    /\ \E s \in {LowerAnalyzedCode(Config(prof), an.out)} :
           low' = [code |-> s.code, maps |-> s.maps]
    /\ phase' = "lowered"
    /\ UNCHANGED <<prof, body, an, deps>>

(* The operand stack has the height that the validator found, or that of   *)
(* the validator's own stack for constant expressions.                     *)
Accepted ==
    LET c == Config(prof)
    IN  /\ CheckLayouts(c.m)
        /\ CheckLoweredCode(c, low.code, low.maps, an.tops, an.nodes,
                            IF c.const THEN MaxTypeStack ELSE an.v.max)

Check ==
    /\ phase = "lowered"
    /\ phase' = IF Accepted THEN "checked" ELSE "failed"
    /\ UNCHANGED <<prof, body, an, low, deps>>

Next == Analyze \/ Lower \/ Check

Spec == Init /\ [][Next]_vars

---------------------------------------------------------------------------
(* The assertion of WAH_CHECK_LOWERED_CODE: whatever the validator accepts *)
(* passes the checker once lowered: targets are instructions, every path   *)
(* agrees on the operands and the handlers at a target, the stack stays    *)
(* within its bound and the reference maps list exactly the references     *)
(* wherever the code can be suspended.                                     *)
LoweredAccepted == phase # "failed"

---------------------------------------------------------------------------
(* The meaning of the analysed code, from its block structure alone.       *)

(* The openers of the blocks around each instruction, an END or ELSE       *)
(* counting as inside its block.                                           *)
Enclosing(out) ==
    LET Visit(s, k) ==
            LET op == out[k].i.op
                here == [s EXCEPT !.at = Append(@, s.open)]
            IN  CASE op \in {"block", "loop", "if", "try_table"} -> [here EXCEPT !.open = Append(@, k)]
                  [] op = "end" /\ s.open # <<>> -> [here EXCEPT !.open = Front(@)]
                  [] OTHER -> here
    IN  FoldLeft(Visit, [open |-> <<>>, at |-> <<>>], [k \in DOMAIN out |-> k]).at

(* The ELSE or END of block b. *)
PartOf(out, enc, b, op) == {k \in DOMAIN out : out[k].i.op = op /\ enc[k] # <<>> /\ Last(enc[k]) = b}
After(out, enc, b) == Max(PartOf(out, enc, b, "end")) + 1

LabelOf(out, enc, k, l) ==
    LET d == Len(enc[k]) - l
    IN  IF d = 0 THEN Len(out)
        ELSE IF out[enc[k][d]].i.op = "loop" THEN enc[k][d] ELSE After(out, enc, enc[k][d])

(* Where the instruction k may continue: at the next one, if it falls      *)
(* through, and at its labels.                                             *)
SourceEdges(out, enc, k) ==
    LET i == out[k].i
        L(l) == LabelOf(out, enc, k, l)
        else == PartOf(out, enc, k, "else")
    IN  CASE i.op = "if" -> <<k + 1, IF else = {} THEN After(out, enc, k) ELSE Max(else) + 1>>
          [] i.op = "br" -> <<L(i.l)>>
          [] i.op \in {"br_if", "br_on_null", "br_on_non_null", "br_on_cast", "br_on_cast_fail"} -> <<k + 1, L(i.l)>>
          [] i.op = "br_table" -> [j \in DOMAIN i.ls |-> L(i.ls[j])]
          [] i.op = "try_table" -> <<k + 1>> \o [j \in DOMAIN i.catches |-> L(i.catches[j].l)]
          [] i.op \in NoFallthrough -> <<>>
          [] OTHER -> <<k + 1>>

(* The first instruction at or after k that does something. *)
RECURSIVE SourceSettle(_, _, _)
SourceSettle(out, enc, k) ==
    CASE out[k].i.op \in {"block", "loop"} -> SourceSettle(out, enc, k + 1)
      [] out[k].i.op = "end" /\ k < Len(out) -> SourceSettle(out, enc, k + 1)
      [] out[k].i.op = "else" -> SourceSettle(out, enc, After(out, enc, Last(enc[k])))
      [] OTHER -> k

(* The same for the lowered code, with the handlers that are active. *)
LoweredEdges(code, p, hs) ==
    LET x == code[p]
        To(q) == <<q, hs>>
    IN  CASE x.op = "if" -> <<To(p + 1), To(x.tgt[1])>>
          [] x.op = "br" -> <<To(x.tgt[1])>>
          [] x.op \in {"br_if", "br_on_null", "br_on_non_null", "br_on_cast", "br_on_cast_fail"} ->
               <<To(p + 1), To(x.tgt[1])>>
          [] x.op = "br_table" -> [j \in DOMAIN x.sel |-> To(x.tgt[x.sel[j]])]
          [] x.op = "try_table" -> << <<p + 1, Append(hs, x.src)>> >> \o [j \in DOMAIN x.tgt |-> To(x.tgt[j])]
          [] x.op \in NoFallthrough -> <<>>
          [] OTHER -> <<To(p + 1)>>

(* METER goes on here or in its island. *)
RECURSIVE LoweredSettle(_, _)
LoweredSettle(code, st) ==
    LET x == code[st[1]]
        To(q) == LoweredSettle(code, <<q, st[2]>>)
    IN  CASE x.op = "METER" -> To(st[1] + 1) \cup To(x.tgt[1])
          [] x.op \in {"POLL", "TICK"} -> To(st[1] + 1)
          [] x.op = "else" -> To(x.tgt[1])
          [] x.op = "END_TRY_TABLE" -> LoweredSettle(code, <<st[1] + 1, SubSeq(st[2], 1, Max({Len(st[2]) - 1, 0}))>>)
          [] x.op = "TRIM_HANDLERS" -> LoweredSettle(code, <<st[1] + 1, SubSeq(st[2], 1, Min({x.n, Len(st[2])}))>>)
          [] OTHER -> {st}

RECURSIVE LoweredReach(_, _, _)
LoweredReach(code, new, seen) ==
    IF new = {} THEN seen
    ELSE LET all == seen \cup new
             next == UNION {UNION {LoweredSettle(code, LoweredEdges(code, st[1], st[2])[e]) :
                                       e \in DOMAIN LoweredEdges(code, st[1], st[2])} : st \in new}
         IN  LoweredReach(code, next \ all, all)

Sources(code, sts) == {code[st[1]].src : st \in sts}

(* The lowered code does what the block structure of the source says: from *)
(* each instruction, directly or through a slow island, it continues at    *)
(* the same instructions, with the exception handlers of exactly the       *)
(* try_tables around them.                                                 *)
FollowsSource ==
    phase = "lowered" =>
        LET out == an.out
            code == low.code
            enc == Enclosing(out)
            Handlers(k) == SelectSeq(enc[k], LAMBDA b : out[b].i.op = "try_table")
            first == LoweredSettle(code, <<1, <<>> >>)
        IN  /\ Sources(code, first) = {SourceSettle(out, enc, 1)}
            /\ \A st \in LoweredReach(code, first, {}) :
                  LET k == code[st[1]].src
                      edges == SourceEdges(out, enc, k)
                      lowered == LoweredEdges(code, st[1], st[2])
                  IN  /\ out[k].i.op # "end" => st[2] = Handlers(k)
                      /\ DOMAIN lowered = DOMAIN edges
                      /\ \A e \in DOMAIN edges :
                            Sources(code, LoweredSettle(code, lowered[e])) = {SourceSettle(out, enc, edges[e])}

---------------------------------------------------------------------------
(* Fuel.  A state of the walk is a position and the records paid for. *)

StartsRecord(code, p) == code[p].rec # 0 /\ (p = 1 \/ code[p - 1].rec # code[p].rec)

FuelSteps(code, st) ==
    LET p == st[1]
        x == code[p]
        left == st[2] \ {x.rec}
    IN  CASE x.op = "METER" -> {<<p + 1, x.src..x.src + x.n - 1>>, <<x.tgt[1], {}>>}
          [] x.op = "TICK" -> {<<p + 1, {x.src}>>}
          [] x.op = "else" -> {<<x.tgt[1], left>>}
          [] x.op = "try_table" -> {<<p + 1, left>>} \cup {<<q, {}>> : q \in ToSet(x.tgt)}
          [] x.op \in NoFallthrough -> {<<q, left>> : q \in ToSet(x.tgt)}
          [] OTHER -> {<<p + 1, left>>} \cup {<<q, left>> : q \in ToSet(x.tgt)}

RECURSIVE FuelReach(_, _, _)
FuelReach(code, new, seen) ==
    IF new = {} THEN seen
    ELSE LET all == seen \cup new
         IN  FuelReach(code, UNION {FuelSteps(code, st) : st \in new} \ all, all)

(* No path runs an instruction that was not charged: by the METER of its   *)
(* chunk, since the last time round, or by a TICK of its own in the slow   *)
(* island.  The END of the function, where branches to the outermost label *)
(* land, is the exception.                                                 *)
FuelPaid ==
    phase = "lowered" /\ Metered(Config(prof)) =>
        \A st \in FuelReach(low.code, {<<1, {}>>}, {}) :
            StartsRecord(low.code, st[1]) /\ low.code[st[1]].op # "end" => low.code[st[1]].rec \in st[2]

---------------------------------------------------------------------------
RECURSIVE SetReach(_, _, _, _)
SetReach(out, enc, new, seen) ==
    IF new = {} THEN seen
    ELSE LET all == seen \cup new
             Steps(st) ==
                LET k == SourceSettle(out, enc, st[1])
                    set == st[2] \cup IF out[k].i.op \in {"local_set", "local_tee"} THEN {out[k].i.local} ELSE {}
                IN  {<<e, set>> : e \in ToSet(SourceEdges(out, enc, k))}
         IN  SetReach(out, enc, UNION {Steps(st) : st \in new} \ all, all)

(* No path of an accepted body reads a local of a non-nullable type before *)
(* it set it: such a local holds null until then.                          *)
InitBeforeUse ==
    phase = "lowered" /\ ~Config(prof).const =>
        LET out == an.out
            enc == Enclosing(out)
            c == Config(prof)
        IN  \A st \in SetReach(out, enc, {<<1, {}>>}, {}) :
                LET i == out[SourceSettle(out, enc, st[1])].i
                IN  i.op = "local_get" => \/ i.local \in st[2] \/ i.local <= Len(c.fn.params)
                                          \/ Defaultable(c.fn.locals[i.local])

=============================================================================
