---------------------------- MODULE MCTypeSystem ----------------------------
(***************************************************************************)
(* Instances of TypeSystem.  Module "A" gets either structs to lay out or  *)
(* groups that can be equal in several ways, subtypes of each other and    *)
(* nested; "B" repeats some of them for the questions between modules.     *)
(***************************************************************************)
EXTENDS TypeSystem

MCOrder == <<"A", "B">>
MCMaxTypes(m) == IF m = "A" THEN 4 ELSE 2

Struct(final, super, fields) ==
    Def("struct", final, super, [j \in DOMAIN fields |-> fields[j][1]],
        [j \in DOMAIN fields |-> fields[j][2]], 0)
Array(field) == Def("array", TRUE, NoSuper, <<field[1]>>, <<field[2]>>, 0)
Func(final, super, params, results) ==
    Def("func", final, super, params \o results, <<>>, Len(params))

(* Field lists for a type at index i. *)
Fields(i) ==
    {<<>>, << <<Num("i32"), TRUE>> >>}
    \cup {<< <<RefIdx(j, FALSE), FALSE>> >> : j \in 1..i}
    \cup {<< <<RefIdx(j, FALSE), FALSE>>, <<Num("i8"), TRUE>> >> : j \in 1..i - 1}
    \cup {<< <<RefIdx(j, TRUE), TRUE>> >> : j \in 1..i - 1}
    \cup {<< <<Ref(h, TRUE), mut>> >> : h \in {"any", "struct"}, mut \in BOOLEAN}

Pair(i, fa, fb) == <<Struct(FALSE, NoSuper, fa), Struct(TRUE, NoSuper, fb)>>

Bare(d) == Def(d.kind, d.final, d.super, d.ty, d.mut, d.np)

MenuA(i) ==
    IF i < 3
    THEN {<<Struct(FALSE, s, f)>> : s \in 0..i - 1, f \in Fields(i)}
         \cup {<<Struct(TRUE, NoSuper, f)>> : f \in {<<>>, << <<RefIdx(i, FALSE), FALSE>> >>}}
         \cup {<<Func(FALSE, i - 1, <<RefIdx(j, TRUE)>>, <<RefIdx(k, TRUE)>>)>> : j, k \in 1..i}
         \cup {<<Array(<<RefIdx(i, TRUE), TRUE>>)>>}
         \cup {Pair(i, << <<RefIdx(a, FALSE), FALSE>> >>, << <<RefIdx(b, FALSE), FALSE>> >>) :
                  a \in i..i + 1, b \in {i}}
    ELSE {<<Struct(FALSE, s, << <<RefIdx(j, FALSE), mut>> >>)>> :
             s \in {0, 2}, j \in 1..3, mut \in BOOLEAN}

(* A fourth type, after two equal ones and a third that refers to one. *)
MenuTwins(defs) ==
    IF Bare(defs[1]) = Bare(defs[2]) /\ defs[3].super = NoSuper
    THEN {<<Struct(FALSE, 0, << <<RefIdx(j, FALSE), FALSE>> >>)>> : j \in 1..2}
    ELSE {}

MenuB(i) ==
    {<<Struct(FALSE, s, f)>> : s \in 0..i - 1, f \in {<<>>, << <<RefIdx(1, FALSE), FALSE>> >>}}
    \cup {<<Func(FALSE, 0, <<RefIdx(1, TRUE)>>, <<RefIdx(i, TRUE)>>)>>}

StorageTypes == {Num("i8"), Num("i16"), Num("i32"), Num("f64"), Num("v128"), Ref("any", TRUE)}
MaxFields == 4

(* Structs of scalars, and a struct that extends one of them. *)
IsPlain(d) == d.kind = "struct" /\ \A j \in DOMAIN d.ty : d.ty[j] \in StorageTypes /\ ~d.mut[j]

Layouts ==
    {<<Struct(FALSE, NoSuper, [j \in 1..n |-> <<f[j], FALSE>>])>> :
         n \in 2..MaxFields, f \in [1..MaxFields -> StorageTypes]}

Extensions(d) ==
    {<<Struct(TRUE, 1, [j \in DOMAIN d.ty |-> <<d.ty[j], FALSE>>] \o << <<t, TRUE>> >>)>> :
         t \in StorageTypes}

MCMenu(m, ms) ==
    LET defs == ms[m].defs
        i == Len(defs) + 1
        plain == defs # <<>> /\ IsPlain(defs[1]) /\ Len(defs[1].ty) >= 2
    IN  CASE m = "A" /\ i = 1 -> MenuA(1) \cup Layouts
          [] m = "A" /\ i > 1 /\ plain -> IF i = 2 /\ Len(defs[1].ty) = 3 THEN Extensions(defs[1]) ELSE {}
          [] m = "A" /\ i > 1 /\ ~plain -> IF i = 4 THEN MenuTwins(defs) ELSE MenuA(i)
          [] m = "B" -> IF ms["A"].phase = "ready" /\ ms["A"].parsed = 2 /\ Len(ms["A"].defs) = 2 /\ ~IsPlain(ms["A"].defs[1])
                        THEN MenuB(i) ELSE {}

MCSpecs(m, ms) ==
    IF \/ m # "A" \/ Len(ms[m].defs) > 2 \/ \E d \in ToSet(ms[m].defs) : IsPlain(d) /\ d.ty # <<>>
       \/ ms["B"].phase # "parsing" \/ ms["B"].defs # <<>> THEN {}
    ELSE {Struct(TRUE, NoSuper, <<>>)}
         \cup {Struct(TRUE, NoSuper, << <<RefIdx(j, FALSE), FALSE>> >>) : j \in DOMAIN ms[m].defs}
         \cup {Func(TRUE, NoSuper, <<Num("i32")>>, <<>>)}

(* Questions are asked when both modules have types of the smaller menu. *)
MCQueries(m, ms) ==
    IF /\ ms["B"].phase = "ready" /\ Len(ms["B"].defs) = 2 /\ Len(ms["A"].defs) = 2
       /\ \A i \in 1..2 : <<Bare(ms["A"].defs[i])>> \in MenuB(i)
    THEN {RefIdx(j, FALSE) : j \in IF m = "A" THEN 1..2 ELSE {2}} ELSE {}

=============================================================================
