-------------------------- MODULE ModuleParseProofs --------------------------
(***************************************************************************)
(* The inductive invariant of ModuleLife, and that every step of parsing a *)
(* binary preserves it: opening a section, each handler for an entry,      *)
(* wherever it stops, closing a section, and the end of the binary.        *)
(***************************************************************************)
EXTENDS ModuleLife, ModuleHeapProofs

-----------------------------------------------------------------------------
(* The inductive invariant: soundness of the heap, and which arrays exist    *)
(* with which capacity, section by section                                   *)

NoArray(m, a) == m.ptr[a] = {} /\ m.cnt[a] = 0

TypeArrays == {"types", "type_defs", "typeidx_to_repr", "canonical_map"}

Metadata == {"typeidx_to_repr", "canonical_map", "repr_infos"}

\* Arrays that are only grown when their counted entries exist.
Growing == ImportArrays \cup {"types", "type_defs", "tables", "globals", "exports", "element_segments",
                              "code_bodies", "functions", "repr_infos"}

Counted0(m) == \A a \in Growing : m.ptr[a] = {} => FreedEntries(m)[a] = 0

TypesFit(m) ==
    /\ m.cnt["types"] <= m.types_cap
    /\ m.types_cap <= m.cap["types"] /\ m.types_cap <= m.cap["type_defs"]
    /\ \A a \in {"typeidx_to_repr", "canonical_map"} : m.ptr[a] # {} => m.types_cap <= m.cap[a]

ReprsFit(m) == m.cap["repr_infos"] > 0 => IsPow2(m.cap["repr_infos"])

DeclaredFit(m) == m.ptr["declared_funcs"] # {} => m.cap["declared_funcs"] = Limit(m, "func")

Fit(m) == Counted0(m) /\ TypesFit(m) /\ ReprsFit(m) /\ DeclaredFit(m)

\* Sections that are still to come have left no trace.
Ahead(m, c, l) ==
    /\ \A s \in DOMAIN ArrayOf : l < Order[s] =>
          m.ptr[ArrayOf[s]] = {} /\ (s # "data" => m.cnt[ArrayOf[s]] = 0)
    /\ l < 1 => NoArray(m, "type_defs")
    /\ (l < 1 \/ c = "type") => \A a \in Metadata : NoArray(m, a)
    /\ (l < 2 \/ c = "import") => \A a \in ImportArrays : NoArray(m, a)
    /\ l < 4 => m.ptr["declared_funcs"] = {}
    /\ (l < 8 \/ c = "export") => m.ptr["export_order"] = {}
    /\ NoArray(m, "functions")

\* The array of the section being read has room for the entries still to read.
Room(m, c, n) ==
    /\ c \in {"table", "global", "export", "element", "code"} \/ (c = "data" /\ n > 0) =>
          m.cap[ArrayOf[c]] = m.cnt[ArrayOf[c]] + n
    /\ (c \in {"function", "memory", "tag"} /\ n > 0) => n <= m.cap[ArrayOf[c]]

\* The locals a handler keeps from one entry to the next.
CodeLocals(l) == SameArrays(l, NoLocals) /\ (l.held = {} \/ l.held = {Local("inits")})

LocalsOK(l, c) ==
    CASE c = "import" -> l.held = {} /\ \A a \in ImportArrays : l.ptr[a] = {} => l.cnt[a] = 0
      [] c = "code" -> CodeLocals(l)
      [] OTHER -> l = NoLocals

\* The functions that are exported have an index below n.
ExportsBelow(m, n) ==
    \A j \in 1..m.cnt["exports"] :
        m.ent["exports"][j].kind = "func" => m.ent["exports"][j].i \in Nat /\ m.ent["exports"][j].i < n

OrderFits(m) == m.cap["exports"] <= m.cap["export_order"]

\* Between two entries: module m, locals l, section c with n entries left, and k the last one begun.
ParseOK(m, l, c, n, k) ==
    /\ Fit(m) /\ Ahead(m, c, k) /\ Room(m, c, n) /\ LocalsOK(l, c)
    /\ ExportsBelow(m, Limit(m, "func"))
    /\ k < 8 \/ c = "export" \/ OrderFits(m)
    /\ c # "none" => k = Order[c]

Functions(m) == m.cnt["func_imports"] + m.cnt["functions"]

ReadyOK(m, l) == Fit(m) /\ OrderFits(m) /\ ExportsBelow(m, Functions(m)) /\ l = NoLocals

IInv ==
    /\ phase \in {"parsing", "ready", "failed", "freed"}
    /\ cur \in DOMAIN ArrayOf \cup {"none"} /\ (cur # "none" => phase = "parsing")
    /\ todo \in Nat /\ last \in 0..13 /\ spent \in Nat
    /\ Sound(St)
    /\ phase = "parsing" => ParseOK(mod, loc, cur, todo, last)
    /\ phase = "ready" => ReadyOK(mod, loc)
    /\ phase \in {"failed", "freed"} => mod = EmptyModule /\ loc = NoLocals

-----------------------------------------------------------------------------
(* Failing: a handler's cleanup, then wah_free_module                        *)

\* Releasing what the locals of a handler own.
LEMMA LocalsFreed ==
    ASSUME NEW st, Sound(st), NEW h2, h2 = FreeLocals(st.h, st.loc)
    PROVE  /\ h2 = [live |-> h2.live, bad |-> h2.bad] /\ h2.bad = FALSE
           /\ \A b : b \in h2.live <=> InModule(st.m, b)
<1>1. IsLocals(st.loc) /\ KeptLocal(st.loc) /\ st.h.bad = FALSE
  BY DEF Sound, IsState
<1>2. /\ \A b : b \in st.h.live <=> (b \in st.loc.held \/ InModule(st.m, b) \/ InLocal(st.loc, b))
      /\ \A b : /\ ~(b \in st.loc.held /\ InModule(st.m, b)) /\ ~(b \in st.loc.held /\ InLocal(st.loc, b))
               /\ ~(InModule(st.m, b) /\ InLocal(st.loc, b))
  BY DEF Sound
<1>3. PICK h1, S : h1 = Free(st.h, S) /\ S = st.loc.held
  OBVIOUS
<1>4. h1.bad = FALSE /\ \A b : b \in h1.live <=> b \in st.h.live /\ b \notin st.loc.held
  <2>1. S \subseteq st.h.live
    BY <1>2, <1>3
  <2> QED BY <1>1, <1>3, <2>1 DEF Free
<1>5. h2 = FreeHeld(h1, Held(st.loc, ImportArrays, st.loc.cnt))
  BY <1>3 DEF FreeLocals
<1>6. /\ Apart(st.loc, ImportArrays, st.loc.cnt)
      /\ \A b : FreedWith(st.loc, ImportArrays, st.loc.cnt, b) <=> InLocal(st.loc, b)
  BY <1>1, LocalsApart
<1>7. \A b : FreedWith(st.loc, ImportArrays, st.loc.cnt, b) => b \in h1.live
  BY <1>2, <1>4, <1>6
<1>8. /\ h2 = [live |-> h2.live, bad |-> h2.bad] /\ h2.bad = FALSE
      /\ \A b : b \in h2.live <=> (b \in h1.live /\ ~FreedWith(st.loc, ImportArrays, st.loc.cnt, b))
  <2>1. CanFree(h1, st.loc, ImportArrays, st.loc.cnt)
    BY <1>4, <1>6, <1>7 DEF CanFree
  <2>2. FreedFrom(h2, h1, st.loc, ImportArrays, st.loc.cnt)
    BY <2>1, <1>5, FreeApart
  <2> QED BY <2>2 DEF FreedFrom
<1> QED BY <1>2, <1>4, <1>6, <1>8

LEMMA KeepSound ==
    ASSUME NEW st, Sound(st), NEW u, u = Keep(st)
    PROVE  Sound(u) /\ u.m = st.m /\ u.loc = NoLocals
<1>1. PICK h2 : h2 = FreeLocals(st.h, st.loc)
  OBVIOUS
<1>2. u = [m |-> st.m, loc |-> NoLocals, h |-> h2]
  BY <1>1 DEF Keep
<1>3. /\ h2 = [live |-> h2.live, bad |-> h2.bad] /\ h2.bad = FALSE
      /\ \A b : b \in h2.live <=> InModule(st.m, b)
  BY <1>1, LocalsFreed
<1>4. u.m = st.m /\ u.loc = NoLocals /\ u.h = h2 /\ u = [m |-> u.m, loc |-> u.loc, h |-> u.h]
  BY <1>2
<1>5. IsModule(st.m) /\ KeptModule(st.m)
  BY DEF Sound, IsState
<1>6. /\ u.h = [live |-> u.h.live, bad |-> u.h.bad] /\ u.h.bad = FALSE
      /\ \A b : b \in u.h.live <=> InModule(u.m, b)
  BY <1>3, <1>4
<1>7. Sound(u)
  BY <1>4, <1>5, <1>6, SoundAlone
<1> QED BY <1>4, <1>7

LEMMA UndoneFacts ==
    ASSUME NEW s
    PROVE  /\ Undone(s) \subseteq Arrays /\ "functions" \notin Undone(s) /\ "types" \notin Undone(s)
           /\ "type_defs" \notin Undone(s) /\ ("exports" \in Undone(s) => s = "export")
           /\ Undone(s) \cap ImportArrays = {}
<1> USE DEF Arrays, FlatArrays, ImportArrays
<1>1. CASE s = "type"
  BY <1>1 DEF Undone
<1>2. CASE s = "import"
  BY <1>2 DEF Undone
<1>3. CASE s = "tag"
  BY <1>3 DEF Undone
<1>4. CASE s = "export"
  BY <1>4 DEF Undone
<1>5. CASE s = "code"
  BY <1>5 DEF Undone
<1>6. CASE s \notin {"type", "import", "tag", "export", "code"}
  BY <1>6 DEF Undone
<1> QED BY <1>1, <1>2, <1>3, <1>4, <1>5, <1>6

\* The arrays A of m become NULL, and the counts of those in B are reset.
Undo(m, A, B) == [Without(m, A) EXCEPT !.cnt = [a \in Arrays |-> IF a \in A \cap B THEN 0 ELSE @[a]]]

UndoneFrom(w, m, A, B) ==
    /\ IsModule(w) /\ SameRest(w, m)
    /\ \A a \in Arrays : w.cnt[a] = IF a \in A /\ a \in B THEN 0 ELSE m.cnt[a]
    /\ \A a \in Arrays : a \notin A => w.ptr[a] = m.ptr[a] /\ w.cap[a] = m.cap[a]
                                       /\ w.own[a] = m.own[a] /\ w.ent[a] = m.ent[a]
    /\ \A a \in A : w.ptr[a] = {} /\ w.cap[a] = 0

LEMMA UndoFields ==
    ASSUME NEW m, IsModule(m), NEW A, A \subseteq Arrays, NEW B, NEW w, w = Undo(m, A, B)
    PROVE  UndoneFrom(w, m, A, B)
<1>0. PICK e0 : e0 = [i \in 1..0 |-> {}]
  OBVIOUS
<1>1. /\ m.cnt \in [Arrays -> Nat] /\ m.cap \in [Arrays -> Nat] /\ DOMAIN m.ptr = Arrays /\ DOMAIN m.own = Arrays
      /\ DOMAIN m.ent = Arrays
      /\ \A a \in Arrays : /\ DOMAIN m.own[a] = 1..m.cap[a] /\ DOMAIN m.ent[a] = 1..m.cap[a]
                          /\ m.ptr[a] \in {{}, Pointer(a)} /\ (m.ptr[a] = {} => m.cap[a] = 0)
  BY DEF IsModule, Laid
<1>2. PICK ptr, cap, own, ent, cnt :
        /\ ptr = [a \in Arrays |-> IF a \in A THEN {} ELSE m.ptr[a]]
        /\ cap = [a \in Arrays |-> IF a \in A THEN 0 ELSE m.cap[a]]
        /\ own = [a \in Arrays |-> IF a \in A THEN e0 ELSE m.own[a]]
        /\ ent = [a \in Arrays |-> IF a \in A THEN e0 ELSE m.ent[a]]
        /\ cnt = [a \in Arrays |-> IF a \in A \cap B THEN 0 ELSE m.cnt[a]]
  OBVIOUS
<1>3. w = [m EXCEPT !.ptr = ptr, !.cap = cap, !.own = own, !.ent = ent, !.cnt = cnt]
  <2>1. DOMAIN m.cap = Arrays /\ m.cnt = m.cnt
    BY <1>1
  <2>2. Without(m, A) = [m EXCEPT !.ptr = ptr, !.cap = cap, !.own = own, !.ent = ent]
    BY <1>0, <1>1, <1>2, <2>1 DEF Without
  <2>3. Without(m, A).cnt = m.cnt
    BY <2>2 DEF IsModule
  <2>4. w = [Without(m, A) EXCEPT !.cnt = cnt]
    BY <2>3, <1>2 DEF Undo
  <2> QED BY <2>2, <2>4 DEF IsModule
<1>4. /\ w.ptr = ptr /\ w.cap = cap /\ w.own = own /\ w.ent = ent /\ w.cnt = cnt /\ SameRest(w, m)
      /\ w = [cnt |-> w.cnt, ptr |-> w.ptr, cap |-> w.cap, own |-> w.own, ent |-> w.ent,
            types_cap |-> w.types_cap, declared |-> w.declared, start |-> w.start,
            has_data_count_section |-> w.has_data_count_section,
            min_data_segment_count_required |-> w.min_data_segment_count_required]
  BY <1>3 DEF IsModule, SameRest
<1>5. /\ w.cnt \in [Arrays -> Nat] /\ w.cap \in [Arrays -> Nat] /\ DOMAIN w.ptr = Arrays /\ DOMAIN w.own = Arrays
      /\ DOMAIN w.ent = Arrays
  BY <1>1, <1>2, <1>4
<1>6. /\ \A a \in Arrays : w.cnt[a] = IF a \in A /\ a \in B THEN 0 ELSE m.cnt[a]
      /\ \A a \in Arrays : a \notin A => w.ptr[a] = m.ptr[a] /\ w.cap[a] = m.cap[a]
                                              /\ w.own[a] = m.own[a] /\ w.ent[a] = m.ent[a]
      /\ \A a \in A : w.ptr[a] = {} /\ w.cap[a] = 0 /\ w.own[a] = e0 /\ w.ent[a] = e0
  BY <1>2, <1>4
<1>7. DOMAIN e0 = 1..0
  BY <1>0
<1>8. ASSUME NEW a \in Arrays
      PROVE  /\ DOMAIN w.own[a] = 1..w.cap[a] /\ DOMAIN w.ent[a] = 1..w.cap[a]
             /\ w.ptr[a] \in {{}, Pointer(a)} /\ (w.ptr[a] = {} => w.cap[a] = 0)
  <2>1. CASE a \in A
    BY <2>1, <1>6, <1>7
  <2>2. CASE a \notin A
    BY <2>2, <1>6, <1>1
  <2> QED BY <2>1, <2>2
<1>9. Laid(w, Arrays)
  BY <1>5, <1>8 DEF Laid
<1>10. w.types_cap \in Nat
  BY <1>4 DEF SameRest, IsModule
<1>11. IsModule(w)
  BY <1>4, <1>9, <1>10 DEF IsModule
<1> QED BY <1>4, <1>6, <1>11 DEF UndoneFrom

LEMMA UndoKept ==
    ASSUME NEW m, IsModule(m), KeptModule(m), NEW A, A \subseteq Arrays, NEW B, NEW w, w = Undo(m, A, B),
           "functions" \notin A, "types" \notin A, A \cap ImportArrays = {}
    PROVE  IsModule(w) /\ KeptModule(w) /\ \A b : InModule(w, b) <=> (InModule(m, b) /\ b[1] \notin A)
<1>1. /\ IsModule(w)
      /\ \A a \in Arrays : w.cnt[a] = IF a \in A /\ a \in B THEN 0 ELSE m.cnt[a]
      /\ \A a \in Arrays : a \notin A => w.ptr[a] = m.ptr[a] /\ w.cap[a] = m.cap[a]
                                              /\ w.own[a] = m.own[a] /\ w.ent[a] = m.ent[a]
      /\ \A a \in A : w.ptr[a] = {} /\ w.cap[a] = 0
  <2>1. UndoneFrom(w, m, A, B)
    BY UndoFields
  <2> QED BY <2>1 DEF UndoneFrom
<1>2. "types" \in Arrays /\ "functions" \in Arrays /\ "func_imports" \in Arrays /\ "func_imports" \notin A
  BY DEF Arrays, ImportArrays
<1>3. ASSUME NEW a \in Arrays, a \notin A
      PROVE  /\ Freed(w, a) = Freed(m, a)
             /\ \A i : Own(w, a, i) = Own(m, a, i)
  <2>1. Freed(w, a) = Freed(m, a)
    BY <1>1, <1>2, <1>3, FreedFacts
  <2>2. ASSUME NEW i, a = "exports" PROVE Host(w, i) <=> Host(m, i)
    <3>1. w.ent["exports"][i] = m.ent["exports"][i]
      BY <2>2, <1>1, <1>3
    <3>2. /\ w.ptr["functions"] = m.ptr["functions"] /\ w.cnt["func_imports"] = m.cnt["func_imports"]
          /\ w.cnt["functions"] = m.cnt["functions"] /\ w.ent["functions"] = m.ent["functions"]
      BY <1>1, <1>2
    <3> QED BY <3>1, <3>2, HostFrame
  <2>3. w.own[a] = m.own[a]
    BY <1>1, <1>3
  <2> QED BY <2>1, <2>2, <2>3 DEF Own
<1>4. KeptModule(w)
  BY <1>1, <1>3 DEF KeptModule
<1>5. ASSUME NEW b PROVE InModule(w, b) <=> (InModule(m, b) /\ b[1] \notin A)
  <2>1. CASE b[1] \in A
    BY <2>1, <1>1 DEF InModule
  <2>2. CASE b[1] \notin A
    BY <2>2, <1>1, <1>3 DEF InModule
  <2> QED BY <2>1, <2>2
<1> QED BY <1>1, <1>4, <1>5

\* The cleanup of a handler that failed leaves the module to be freed.
LEMMA CleanupSound ==
    ASSUME NEW st, Sound(st), NEW s, s = "export" => st.m.ptr["functions"] = {}, NEW u, u = Cleanup(s, st)
    PROVE  Sound(u) /\ u.loc = NoLocals
<1>1. IsModule(st.m) /\ KeptModule(st.m)
  BY DEF Sound, IsState
<1>2. PICK A : A = Undone(s)
  OBVIOUS
<1>3. /\ A \subseteq Arrays /\ "functions" \notin A /\ "types" \notin A /\ "type_defs" \notin A
      /\ A \cap ImportArrays = {} /\ ("exports" \in A => st.m.ptr["functions"] = {})
  BY <1>2, UndoneFacts
<1>4. PICK h1, w, n, h2 : /\ h1 = FreeLocals(st.h, st.loc) /\ w = Undo(st.m, A, Uncounted)
                          /\ n = FreedEntries(st.m) /\ h2 = FreeHeld(h1, Held(st.m, A, n))
  OBVIOUS
<1>5. u = [m |-> w, loc |-> NoLocals, h |-> h2]
  BY <1>2, <1>4 DEF Cleanup, Undo
<1>6. h1.bad = FALSE /\ \A b : b \in h1.live <=> InModule(st.m, b)
  BY <1>4, LocalsFreed
<1>7. IsModule(w) /\ KeptModule(w) /\ \A b : InModule(w, b) <=> (InModule(st.m, b) /\ b[1] \notin A)
  BY <1>1, <1>3, <1>4, UndoKept
<1>8. ASSUME NEW a \in A, NEW i PROVE Own(st.m, a, i) = st.m.own[a][i]
  BY <1>3, <1>8, HostNone DEF Own
<1>9. \A a \in A : n[a] = Freed(st.m, a) /\ n[a] \in Nat /\ a \in Arrays
  BY <1>1, <1>3, <1>4, FreedNat DEF Freed
<1>10. Apart(st.m, A, n)
  <2>1. ASSUME NEW a \in A, st.m.ptr[a] # {}
        PROVE  /\ st.m.ptr[a] = Pointer(a) /\ n[a] \in Nat /\ st.m.cap[a] \in Nat /\ n[a] <= st.m.cap[a]
               /\ \A i \in 1..n[a] : \A b \in st.m.own[a][i] : b[1] = a /\ b[2] = i
    <3>1. a \in Arrays /\ n[a] = Freed(st.m, a) /\ n[a] \in Nat
      BY <1>9, <2>1
    <3>2. st.m.ptr[a] = Pointer(a) /\ st.m.cap[a] \in Nat
      BY <3>1, <2>1, <1>1 DEF IsModule, Laid
    <3>3. n[a] <= st.m.cap[a]
      BY <3>1, <2>1, <1>1 DEF KeptModule
    <3>4. ASSUME NEW i \in 1..n[a], NEW b \in st.m.own[a][i] PROVE b[1] = a /\ b[2] = i
      <4>1. b \in Own(st.m, a, i) /\ i \in 1..Freed(st.m, a)
        BY <3>1, <3>4, <1>8
      <4> QED BY <4>1, <3>1, <2>1, <1>1 DEF KeptModule
    <3> QED BY <3>1, <3>2, <3>3, <3>4
  <2> QED BY <2>1 DEF Apart
<1>11. ASSUME NEW b PROVE FreedWith(st.m, A, n, b) <=> (InModule(st.m, b) /\ b[1] \in A)
  <2>1. ASSUME NEW a \in A, a = b[1], NEW i
        PROVE  (i \in 1..n[a] /\ b \in st.m.own[a][i]) <=> (i \in 1..Freed(st.m, a) /\ b \in Own(st.m, a, i))
    BY <2>1, <1>8, <1>9
  <2> QED BY <2>1, <1>3 DEF FreedWith, InModule
<1>12. \A b : FreedWith(st.m, A, n, b) => b \in h1.live
  BY <1>6, <1>11
<1>13. /\ h2 = [live |-> h2.live, bad |-> h2.bad] /\ h2.bad = FALSE
       /\ \A b : b \in h2.live <=> (b \in h1.live /\ ~FreedWith(st.m, A, n, b))
  <2>1. h2 = FreeHeld(h1, Held(st.m, A, n))
    BY <1>4
  <2>2. CanFree(h1, st.m, A, n)
    BY <1>6, <1>10, <1>12 DEF CanFree
  <2>3. FreedFrom(h2, h1, st.m, A, n)
    BY <2>1, <2>2, FreeApart
  <2> QED BY <2>3 DEF FreedFrom
<1>14. u.m = w /\ u.loc = NoLocals /\ u.h = h2 /\ u = [m |-> u.m, loc |-> u.loc, h |-> u.h]
  BY <1>5
<1>15. \A b : b \in u.h.live <=> InModule(u.m, b)
  BY <1>6, <1>7, <1>11, <1>13, <1>14
<1>16. u.h = [live |-> u.h.live, bad |-> u.h.bad] /\ u.h.bad = FALSE /\ IsModule(u.m) /\ KeptModule(u.m)
  BY <1>7, <1>13, <1>14
<1>17. Sound(u)
  BY <1>14, <1>15, <1>16, SoundAlone
<1> QED BY <1>14, <1>17

\* Wherever a handler stops, nothing is left.
LEMMA AbortReleases ==
    ASSUME NEW st, Sound(st), NEW s, s = "export" => st.m.ptr["functions"] = {},
           NEW u, u = FreeModule(Cleanup(s, st))
    PROVE  Sound(u) /\ u.m = EmptyModule /\ u.loc = NoLocals /\ u.h.live = {} /\ u.h.bad = FALSE
<1>1. PICK v : v = Cleanup(s, st)
  OBVIOUS
<1>2. Sound(v) /\ v.loc = NoLocals
  BY <1>1, CleanupSound
<1>3. \A b : b \notin v.loc.held /\ ~InLocal(v.loc, b)
  BY <1>2, NoLocalsFacts
<1> QED BY <1>1, <1>2, <1>3, FreeModuleSound

-----------------------------------------------------------------------------
(* The handlers whose entries are counted one by one                         *)

EntryArrays == {"tables", "globals", "exports", "element_segments", "code_bodies", "data_segments"}

\* Entry i is the next one of array a, and has a slot.
IsNext(m, a, i) == i = m.cnt[a] + 1 /\ i <= m.cap[a]

\* The functions the entry e of array a declares.
DeclaredIn(a, e) ==
    CASE a = "tables" \/ a = "globals" -> DeclaredBy(e.x)
      [] a = "exports" -> IF e.kind = "func" THEN {e.i} ELSE {}
      [] a = "element_segments" -> IF e.item.k = "index" THEN {e.item.i} ELSE DeclaredBy(e.item)
      [] OTHER -> {}

\* All entries of m2 but those of declared_funcs are those of m and entry i of array a.
Entered(m2, m, a, i, e) ==
    \A d \in Arrays : d # "declared_funcs" => m2.ent[d] = IF d = a THEN Put(m.ent[a], i, e) ELSE m.ent[d]

RestIn(m2, m, a, e) ==
    /\ m2.types_cap = m.types_cap /\ m2.start = m.start
    /\ m2.has_data_count_section = m.has_data_count_section
    /\ m2.min_data_segment_count_required = m.min_data_segment_count_required
    /\ m2.declared \subseteq m.declared \cup DeclaredIn(a, e)

\* The module m2 differs from m in the entry i of array a, counted now, and in declared_funcs.
CountedIn(m2, m, a, i, e) ==
    /\ \A d \in Arrays : m2.cnt[d] = IF d = a THEN i ELSE m.cnt[d]
    /\ \A d \in Arrays : d # "declared_funcs" => m2.ptr[d] = m.ptr[d] /\ m2.cap[d] = m.cap[d]
    /\ Entered(m2, m, a, i, e) /\ RestIn(m2, m, a, e)
    /\ DeclaredFit(m2)

\* A handler is reading entry i of array a.
Reading(t, m, a, i, e) ==
    /\ Sound(t) /\ a \in EntryArrays /\ i \in Nat /\ i # 0 /\ i <= m.cap[a] /\ m.ptr["functions"] = {} /\ m.ptr[a] # {}
    /\ CountedIn(t.m, m, a, i, e)

\* No block of entry i of array a is live, or held.
FreshEntry(st, a, i) == \A f : Block(a, i, f) \notin st.h.live

LEMMA EntryArrayFacts ==
    ASSUME NEW a \in EntryArrays
    PROVE  /\ a \in Arrays /\ a \notin FlatArrays /\ a \notin ImportArrays /\ a # "functions" /\ a # "types"
           /\ a # "type_defs" /\ a # "declared_funcs" /\ a # "function_type_indices" /\ a # "repr_infos"
BY DEF EntryArrays, Arrays, FlatArrays, ImportArrays

LEMMA FreshOf ==
    ASSUME NEW st, Sound(st), NEW a, a \notin ImportArrays, NEW i, i # 0,
           (a \in Arrays /\ st.m.ptr[a] # {}) => i \notin 1..Freed(st.m, a) \/ st.m.own[a][i] = {},
           \A f : Block(a, i, f) \notin st.loc.held
    PROVE  FreshEntry(st, a, i)
<1>1. ASSUME NEW f, Block(a, i, f) \in st.h.live PROVE FALSE
  <2>1. PICK b : b = Block(a, i, f)
    OBVIOUS
  <2>2. b[1] = a /\ b[2] = i /\ b # ArrayBlock(a)
    BY <2>1, BlockFacts, ArrayBlockFacts
  <2>3. InModule(st.m, b) \/ InLocal(st.loc, b)
    BY <1>1, <2>1 DEF Sound
  <2>4. ~InLocal(st.loc, b)
    BY <2>2 DEF InLocal
  <2>5. InModule(st.m, b)
    BY <2>3, <2>4
  <2>6. a \in Arrays /\ st.m.ptr[a] # {} /\ i \in 1..Freed(st.m, a) /\ b \in Own(st.m, a, i)
    BY <2>2, <2>5 DEF InModule
  <2> QED BY <2>6 DEF Own
<1> QED BY <1>1 DEF FreshEntry

LEMMA ReadBegin ==
    ASSUME NEW st, Sound(st), NEW a \in EntryArrays, NEW i, IsNext(st.m, a, i), st.m.ptr["functions"] = {},
           DeclaredFit(st.m), \A f : Block(a, i, f) \notin st.loc.held,
           NEW e, NEW t, t = Step(st, Begin(a, i, e, 1))
    PROVE  Reading(t, st.m, a, i, e) /\ t.loc = st.loc /\ t.h = st.h /\ FreshEntry(t, a, i)
<1>1. /\ a \in Arrays /\ a \notin FlatArrays /\ a \notin ImportArrays /\ a # "functions" /\ a # "types"
      /\ a # "type_defs" /\ a # "declared_funcs" /\ a # "function_type_indices"
  BY EntryArrayFacts
<1>2. IsState(st) /\ IsModule(st.m) /\ st.m.cnt \in [Arrays -> Nat] /\ st.m.cap \in [Arrays -> Nat]
      /\ DOMAIN st.m.own = Arrays /\ DOMAIN st.m.own[a] = 1..st.m.cap[a]
  BY <1>1 DEF Sound, IsState, IsModule, Laid
<1>3. i \in Nat /\ i # 0 /\ i <= st.m.cap[a] /\ i \in 1..st.m.cap[a]
  BY <1>1, <1>2 DEF IsNext
<1>5. i = st.m.cnt[a] + 1
  BY DEF IsNext
<1>4. Freed(st.m, a) = st.m.cnt[a]
  BY <1>1, FreedFacts
<1>7. Sound(t)
  <2>1. i > Freed(st.m, a)
    BY <1>1, <1>2, <1>3, <1>4, <1>5
  <2>2. CanBegin(st.m, a, i, 1)
    BY <1>1, <1>3, <1>5, <2>1 DEF CanBegin
  <2> QED BY <2>2, BeginSound
<1>8. /\ t.loc = st.loc /\ t.h = st.h
      /\ t.m.cnt = Bump(st.m.cnt, a, 1)
      /\ t.m.ptr = st.m.ptr /\ t.m.cap = st.m.cap
      /\ t.m.own = Put(st.m.own, a, Put(st.m.own[a], i, {}))
      /\ t.m.ent = Put(st.m.ent, a, Put(st.m.ent[a], i, e))
      /\ SameRest(t.m, st.m)
  BY <1>1, <1>2, <1>3, BeginFields
<1>9. \A d \in Arrays : t.m.cnt[d] = IF d = a THEN i ELSE st.m.cnt[d]
  BY <1>1, <1>2, <1>3, <1>5, <1>8 DEF Bump
<1>10. t.m.own[a][i] = {}
  <2>1. t.m.own[a] = Put(st.m.own[a], i, {})
    BY <1>1, <1>2, <1>8 DEF Put
  <2> QED BY <1>2, <1>3, <2>1 DEF Put
<1>11. DeclaredFit(t.m)
  <2>1. Limit(t.m, "func") = Limit(st.m, "func")
    <3>1. "func_imports" # a /\ "function_type_indices" # a /\ "func_imports" \in Arrays /\ "function_type_indices" \in Arrays
      BY <1>1 DEF ImportArrays, Arrays, FlatArrays
    <3> QED BY <3>1, <1>9 DEF Limit, ImportsOf, DefinedIn
  <2> QED BY <2>1, <1>8 DEF DeclaredFit
<1>12. st.m.ptr[a] # {}
  BY <1>1, <1>2, <1>3 DEF IsModule, Laid
<1>13. CountedIn(t.m, st.m, a, i, e)
  <2>1. Entered(t.m, st.m, a, i, e)
    <3>1. DOMAIN st.m.ent = Arrays
      BY <1>2 DEF IsModule, Laid
    <3> QED BY <1>1, <1>8, <3>1, PutFacts DEF Entered
  <2>2. RestIn(t.m, st.m, a, e)
    BY <1>8 DEF RestIn, SameRest
  <2> QED BY <1>8, <1>9, <1>11, <2>1, <2>2 DEF CountedIn
<1>14. Reading(t, st.m, a, i, e)
  BY <1>3, <1>7, <1>12, <1>13 DEF Reading
<1>15. FreshEntry(t, a, i)
  <2>1. \A f : Block(a, i, f) \notin t.loc.held
    BY <1>8
  <2> QED BY <2>1, <1>1, <1>3, <1>7, <1>10, FreshOf
<1> QED BY <1>8, <1>14, <1>15

LEMMA CountedSame ==
    ASSUME NEW m, NEW m2, NEW m3, NEW a, NEW i, NEW e, CountedIn(m2, m, a, i, e),
           m3.cnt = m2.cnt, m3.ptr = m2.ptr, m3.cap = m2.cap, m3.ent = m2.ent, SameRest(m3, m2)
    PROVE  CountedIn(m3, m, a, i, e)
<1>1. DeclaredFit(m3)
  BY DEF CountedIn, DeclaredFit, Limit
<1>2. Entered(m3, m, a, i, e)
  BY DEF CountedIn, Entered
<1>3. RestIn(m3, m, a, e)
  BY DEF CountedIn, RestIn, SameRest
<1> QED BY <1>1, <1>2, <1>3 DEF CountedIn

LEMMA ReadingFacts ==
    ASSUME NEW t, NEW m, NEW a, NEW i, NEW e, Reading(t, m, a, i, e)
    PROVE  /\ Sound(t) /\ IsState(t) /\ a \in Arrays /\ t.m.ptr[a] # {} /\ t.m.ptr["functions"] = {}
           /\ i \in 1..Freed(t.m, a) /\ i # 0 /\ a \notin ImportArrays
<1>1. /\ a \in Arrays /\ a \notin FlatArrays /\ a \notin ImportArrays /\ a # "functions" /\ a # "types"
      /\ a # "type_defs" /\ a # "declared_funcs" /\ a # "function_type_indices" /\ a \in EntryArrays
  BY EntryArrayFacts DEF Reading
<1>2. "functions" \in Arrays
  BY DEF Arrays
<1>3. Freed(t.m, a) = i /\ i \in Nat /\ i # 0
  BY <1>1, FreedFacts DEF Reading, CountedIn
<1>4. t.m.ptr[a] # {} /\ t.m.ptr["functions"] = {}
  BY <1>1, <1>2 DEF Reading, CountedIn
<1>5. i \in 1..i
  BY <1>3
<1> QED BY <1>1, <1>3, <1>4, <1>5 DEF Reading, Sound

LEMMA ReadEntry ==
    ASSUME NEW t, NEW m, NEW a, NEW i, NEW e, Reading(t, m, a, i, e), NEW f, Block(a, i, f) \notin t.h.live,
           NEW u, u = Step(t, ForEntry(Block(a, i, f)))
    PROVE  Reading(u, m, a, i, e) /\ u.loc = t.loc /\ HeapMore(u.h, t.h, Block(a, i, f))
<1>1. /\ Sound(t) /\ IsState(t) /\ a \in Arrays /\ t.m.ptr[a] # {} /\ t.m.ptr["functions"] = {}
      /\ i \in 1..Freed(t.m, a)
  BY ReadingFacts
<1>2. Sound(u)
  BY <1>1, EntrySound
<1>3. Block(a, i, f)[1] \in Arrays
  BY <1>1, BlockFacts
<1>4. /\ u.loc = t.loc /\ HeapMore(u.h, t.h, Block(a, i, f))
      /\ u.m.cnt = t.m.cnt /\ u.m.ptr = t.m.ptr /\ u.m.cap = t.m.cap /\ u.m.ent = t.m.ent /\ SameRest(u.m, t.m)
  BY <1>1, <1>3, EntryFields
<1>5. CountedIn(t.m, m, a, i, e)
  BY DEF Reading
<1>6. CountedIn(u.m, m, a, i, e)
  BY <1>4, <1>5, CountedSame
<1> QED BY <1>2, <1>4, <1>6 DEF Reading

LEMMA ReadTake ==
    ASSUME NEW t, NEW m, NEW a, NEW i, NEW e, Reading(t, m, a, i, e), NEW f, Block(a, i, f) \in t.loc.held,
           NEW u, u = Step(t, Take(Block(a, i, f)))
    PROVE  /\ Reading(u, m, a, i, e) /\ u.loc.held = t.loc.held \ {Block(a, i, f)} /\ SameArrays(u.loc, t.loc)
           /\ u.h = t.h
<1>1. /\ Sound(t) /\ IsState(t) /\ a \in Arrays /\ t.m.ptr[a] # {} /\ t.m.ptr["functions"] = {}
      /\ i \in 1..Freed(t.m, a)
  BY ReadingFacts
<1>2. Sound(u)
  BY <1>1, TakeSound
<1>3. Block(a, i, f)[1] \in Arrays
  BY <1>1, BlockFacts
<1>4. /\ u.loc.held = t.loc.held \ {Block(a, i, f)} /\ SameArrays(u.loc, t.loc) /\ u.h = t.h
      /\ u.m.cnt = t.m.cnt /\ u.m.ptr = t.m.ptr /\ u.m.cap = t.m.cap /\ u.m.ent = t.m.ent /\ SameRest(u.m, t.m)
  BY <1>1, <1>3, TakeFields
<1>5. CountedIn(t.m, m, a, i, e)
  BY DEF Reading
<1>6. CountedIn(u.m, m, a, i, e)
  BY <1>4, <1>5, CountedSame
<1> QED BY <1>2, <1>4, <1>6 DEF Reading

LEMMA ReadLocal ==
    ASSUME NEW t, NEW m, NEW a, NEW i, NEW e, Reading(t, m, a, i, e), NEW b, b \notin t.h.live,
           NEW u, u = Step(t, ForLocal(b))
    PROVE  /\ Reading(u, m, a, i, e) /\ u.loc.held = t.loc.held \cup {b} /\ SameArrays(u.loc, t.loc)
           /\ HeapMore(u.h, t.h, b)
<1>1. Sound(t) /\ IsState(t)
  BY ReadingFacts
<1>2. Sound(u)
  BY <1>1, LocalSound
<1>3. u.loc.held = t.loc.held \cup {b} /\ SameArrays(u.loc, t.loc) /\ u.m = t.m /\ HeapMore(u.h, t.h, b)
  BY <1>1, LocalFields
<1> QED BY <1>2, <1>3 DEF Reading

LEMMA ReadDrop ==
    ASSUME NEW t, NEW m, NEW a, NEW i, NEW e, Reading(t, m, a, i, e), NEW b, b \in t.loc.held,
           NEW u, u = Step(t, Drop(b))
    PROVE  /\ Reading(u, m, a, i, e) /\ u.loc.held = t.loc.held \ {b} /\ SameArrays(u.loc, t.loc)
           /\ u.h.live = t.h.live \ {b}
<1>1. Sound(t) /\ IsState(t)
  BY ReadingFacts
<1>2. Sound(u)
  BY <1>1, DropSound
<1>3. u.loc.held = t.loc.held \ {b} /\ SameArrays(u.loc, t.loc) /\ u.m = t.m /\ u.h.live = t.h.live \ {b}
  BY <1>1, DropFields
<1> QED BY <1>2, <1>3 DEF Reading

\* A run of a handler of wah_parse_module that can stop anywhere.
SafeRead(r) == \A st \in Stops(r) : Sound(st) /\ st.m.ptr["functions"] = {}

LEMMA RunFacts ==
    ASSUME NEW r, NEW g
    PROVE  (r ++ g).now = Step(r.now, g) /\ Stops(r ++ g) = Stops(r) \cup {Step(r.now, g)}
           /\ (r ++ g).past = Stops(r) /\ r.now \in Stops(r)
BY DEF ++, Stops

LEMMA StartFacts ==
    ASSUME NEW st
    PROVE  Start(st).now = st /\ Stops(Start(st)) = {st} /\ Start(st).past = {}
BY DEF Start, Stops

LEMMA ReadStep ==
    ASSUME NEW r, SafeRead(r), NEW g, NEW q, q = r ++ g, NEW u, u = q.now, NEW m, NEW a, NEW i, NEW e, Reading(u, m, a, i, e)
    PROVE  SafeRead(q)
<1>1. Sound(u) /\ u.m.ptr["functions"] = {}
  BY ReadingFacts
<1>2. Stops(q) = Stops(r) \cup {u}
  BY RunFacts
<1> QED BY <1>1, <1>2 DEF SafeRead

LEMMA FreshArray ==
    ASSUME NEW st, Sound(st), NEW a, a \notin ImportArrays, st.m.ptr[a] = {}, ArrayBlock(a) \notin st.loc.held
    PROVE  ArrayBlock(a) \notin st.h.live
<1>1. ArrayBlock(a)[1] = a
  BY ArrayBlockFacts
<1>2. ~InModule(st.m, ArrayBlock(a)) /\ ~InLocal(st.loc, ArrayBlock(a))
  BY <1>1 DEF InModule, InLocal
<1> QED BY <1>2 DEF Sound

LEMMA LimitNat ==
    ASSUME NEW m, IsModule(m)
    PROVE  Limit(m, "func") \in Nat /\ Limit(m, "func") = m.cnt["func_imports"] + m.cnt["function_type_indices"]
<1>1. "func_imports" \in Arrays /\ "function_type_indices" \in Arrays
  BY DEF Arrays, ImportArrays, FlatArrays
<1>2. m.cnt["func_imports"] \in Nat /\ m.cnt["function_type_indices"] \in Nat
  BY <1>1 DEF IsModule, Laid
<1> QED BY <1>2 DEF Limit, ImportsOf, DefinedIn

\* The bitmap of declared functions is allocated.
LEMMA ReadBitmap ==
    ASSUME NEW t, NEW m, NEW a, NEW i, NEW e, Reading(t, m, a, i, e), t.m.ptr["declared_funcs"] = {},
           ArrayBlock("declared_funcs") \notin t.loc.held,
           NEW n, n = Limit(t.m, "func"), NEW u, u = Step(t, Resize("declared_funcs", n))
    PROVE  /\ Reading(u, m, a, i, e) /\ u.loc = t.loc /\ HeapMore(u.h, t.h, ArrayBlock("declared_funcs"))
           /\ u.m.ptr["declared_funcs"] # {} /\ Limit(u.m, "func") = n
<1>1. Sound(t) /\ IsState(t) /\ IsModule(t.m) /\ t.m.ptr["functions"] = {}
  BY ReadingFacts DEF IsState
<1>2. "declared_funcs" \in Arrays /\ "declared_funcs" \in FlatArrays /\ "declared_funcs" \notin ImportArrays
  BY DEF Arrays, FlatArrays, ImportArrays
<1>3. n \in Nat
  BY <1>1, LimitNat
<1>4. Freed(t.m, "declared_funcs") = 0 /\ Freed(t.m, "declared_funcs") <= n
  BY <1>2, <1>3, FreedFacts
<1>5. ArrayBlock("declared_funcs") \notin t.h.live
  BY <1>1, <1>2, FreshArray
<1>6. Sound(u)
  BY <1>1, <1>2, <1>3, <1>4, <1>5, ResizeSound
<1>7. /\ u.loc = t.loc /\ HeapMore(u.h, t.h, ArrayBlock("declared_funcs")) /\ u.m.cnt = t.m.cnt
      /\ u.m.ptr = Put(t.m.ptr, "declared_funcs", Pointer("declared_funcs"))
      /\ u.m.cap = Put(t.m.cap, "declared_funcs", n) /\ SameRest(u.m, t.m)
  BY <1>1, <1>2, <1>3, ResizeFields
<1>8. DOMAIN t.m.ptr = Arrays /\ DOMAIN t.m.cap = Arrays
  BY <1>1 DEF IsModule, Laid
<1>a. \A d \in Arrays : d # "declared_funcs" => u.m.ent[d] = t.m.ent[d]
  <2>1. PICK v : u.m.ent = Put(t.m.ent, "declared_funcs", v)
    BY <1>1, <1>2, <1>3, ResizeFields
  <2>2. DOMAIN t.m.ent = Arrays
    BY <1>1 DEF IsModule, Laid
  <2> QED BY <1>2, <2>1, <2>2 DEF Put
<1>9. /\ \A d \in Arrays : d # "declared_funcs" => u.m.ptr[d] = t.m.ptr[d] /\ u.m.cap[d] = t.m.cap[d]
      /\ u.m.cap["declared_funcs"] = n /\ u.m.ptr["declared_funcs"] = Pointer("declared_funcs")
  BY <1>2, <1>7, <1>8 DEF Put
<1>10. Limit(u.m, "func") = n
  BY <1>7 DEF Limit
<1>11. CountedIn(u.m, m, a, i, e)
  <2>1. Entered(u.m, m, a, i, e)
    BY <1>a DEF Reading, CountedIn, Entered
  <2>2. RestIn(u.m, m, a, e)
    BY <1>7 DEF Reading, CountedIn, RestIn, SameRest
  <2>3. DeclaredFit(u.m)
    BY <1>9, <1>10 DEF DeclaredFit
  <2> QED BY <1>7, <1>9, <2>1, <2>2, <2>3 DEF Reading, CountedIn
<1>12. u.m.ptr["declared_funcs"] # {}
  BY <1>9 DEF Pointer
<1> QED BY <1>6, <1>7, <1>10, <1>11, <1>12 DEF Reading

LEMMA ReadMark ==
    ASSUME NEW t, NEW m, NEW a, NEW i, NEW e, Reading(t, m, a, i, e), t.m.ptr["declared_funcs"] # {},
           NEW F, \A f \in F : ~(f >= Limit(t.m, "func")), F \subseteq DeclaredIn(a, e), NEW u, u = Step(t, Mark(F))
    PROVE  Reading(u, m, a, i, e) /\ u.loc = t.loc /\ u.h.live = t.h.live
<1>1. Sound(t) /\ IsState(t)
  BY ReadingFacts
<1>2. t.m.cap["declared_funcs"] = Limit(t.m, "func")
  BY DEF Reading, CountedIn, DeclaredFit
<1>3. \A f \in F : ~(f >= t.m.cap["declared_funcs"])
  BY <1>2
<1>4. Sound(u)
  BY <1>1, <1>3, MarkSound
<1>5. /\ u.loc = t.loc /\ u.h.live = t.h.live /\ SameArrays(u.m, t.m) /\ u.m.types_cap = t.m.types_cap
      /\ u.m.start = t.m.start /\ u.m.declared = t.m.declared \cup F
      /\ u.m.has_data_count_section = t.m.has_data_count_section
      /\ u.m.min_data_segment_count_required = t.m.min_data_segment_count_required
  BY <1>1, MarkFields
<1>6. CountedIn(t.m, m, a, i, e)
  BY DEF Reading
<1>7. u.m.cnt = t.m.cnt /\ u.m.ptr = t.m.ptr /\ u.m.cap = t.m.cap /\ u.m.ent = t.m.ent
  BY <1>5 DEF SameArrays
<1>8. CountedIn(u.m, m, a, i, e)
  <2>1. DeclaredFit(u.m)
    BY <1>6, <1>7 DEF CountedIn, DeclaredFit, Limit
  <2>2. Entered(u.m, m, a, i, e)
    BY <1>6, <1>7 DEF CountedIn, Entered
  <2>3. RestIn(u.m, m, a, e)
    BY <1>5, <1>6 DEF CountedIn, RestIn
  <2> QED BY <1>6, <1>7, <2>1, <2>2, <2>3 DEF CountedIn
<1> QED BY <1>4, <1>5, <1>8 DEF Reading

\* A run in the middle of reading entry i of array a, from the module m.
ReadRun(r, m, a, i, e) == SafeRead(r) /\ Reading(r.now, m, a, i, e)

LEMMA ReadDeclare ==
    ASSUME NEW r, NEW m, NEW a, NEW i, NEW e, ReadRun(r, m, a, i, e), ArrayBlock("declared_funcs") \notin r.now.loc.held,
           NEW F, F \subseteq DeclaredIn(a, e), NEW d, d = Declare(r, F)
    PROVE  /\ ReadRun(d, m, a, i, e) /\ d.now.loc = r.now.loc
           /\ \A b : b \in d.now.h.live => (b \in r.now.h.live \/ b = ArrayBlock("declared_funcs"))
<1>1. SafeRead(r) /\ Reading(r.now, m, a, i, e)
  BY DEF ReadRun
<1>2. PICK n : n = Limit(r.now.m, "func")
  OBVIOUS
<1>3. CASE F = {} \/ \E f \in F : f >= n
  BY <1>1, <1>2, <1>3 DEF Declare, ReadRun
<1>4. CASE ~(F = {} \/ \E f \in F : f >= n)
  <2>1. PICK s : s = When(r, r.now.m.ptr["declared_funcs"] = {}, Resize("declared_funcs", n))
    OBVIOUS
  <2>2. d = s ++ Mark(F)
    BY <1>2, <1>4, <2>1 DEF Declare
  <2>3. /\ SafeRead(s) /\ Reading(s.now, m, a, i, e) /\ s.now.m.ptr["declared_funcs"] # {}
        /\ Limit(s.now.m, "func") = n /\ s.now.loc = r.now.loc
        /\ \A b : b \in s.now.h.live => (b \in r.now.h.live \/ b = ArrayBlock("declared_funcs"))
    <3>1. CASE r.now.m.ptr["declared_funcs"] = {}
      <4>1. s = r ++ Resize("declared_funcs", n)
        BY <2>1, <3>1 DEF When
      <4>2. PICK u : u = s.now
        OBVIOUS
      <4>3. u = Step(r.now, Resize("declared_funcs", n))
        BY <4>1, <4>2, RunFacts
      <4>4. /\ Reading(u, m, a, i, e) /\ u.loc = r.now.loc /\ HeapMore(u.h, r.now.h, ArrayBlock("declared_funcs"))
            /\ u.m.ptr["declared_funcs"] # {} /\ Limit(u.m, "func") = n
        BY <1>1, <1>2, <3>1, <4>3, ReadBitmap
      <4>5. SafeRead(s)
        BY <1>1, <4>1, <4>2, <4>4, ReadStep
      <4> QED BY <4>2, <4>4, <4>5 DEF HeapMore
    <3>2. CASE r.now.m.ptr["declared_funcs"] # {}
      BY <1>1, <1>2, <2>1, <3>2 DEF When
    <3> QED BY <3>1, <3>2
  <2>4. PICK u : u = d.now
    OBVIOUS
  <2>5. u = Step(s.now, Mark(F))
    BY <2>2, <2>4, RunFacts
  <2>6. \A f \in F : ~(f >= Limit(s.now.m, "func"))
    BY <1>4, <2>3
  <2>7. Reading(u, m, a, i, e) /\ u.loc = s.now.loc /\ u.h.live = s.now.h.live
    BY <2>3, <2>5, <2>6, ReadMark
  <2>8. SafeRead(d)
    BY <2>2, <2>3, <2>4, <2>7, ReadStep
  <2> QED BY <2>3, <2>4, <2>7, <2>8 DEF ReadRun
<1> QED BY <1>3, <1>4

LEMMA RunEntry ==
    ASSUME NEW r, NEW m, NEW a, NEW i, NEW e, ReadRun(r, m, a, i, e), NEW f, Block(a, i, f) \notin r.now.h.live,
           NEW q, q = r ++ ForEntry(Block(a, i, f))
    PROVE  ReadRun(q, m, a, i, e) /\ q.now.loc = r.now.loc /\ HeapMore(q.now.h, r.now.h, Block(a, i, f))
<1>1. SafeRead(r) /\ Reading(r.now, m, a, i, e)
  BY DEF ReadRun
<1>2. PICK u : u = q.now
  OBVIOUS
<1>3. u = Step(r.now, ForEntry(Block(a, i, f)))
  BY <1>2, RunFacts
<1>4. Reading(u, m, a, i, e) /\ u.loc = r.now.loc /\ HeapMore(u.h, r.now.h, Block(a, i, f))
  BY <1>1, <1>3, ReadEntry
<1>5. SafeRead(q)
  BY <1>1, <1>2, <1>4, ReadStep
<1> QED BY <1>2, <1>4, <1>5 DEF ReadRun

LEMMA RunTake ==
    ASSUME NEW r, NEW m, NEW a, NEW i, NEW e, ReadRun(r, m, a, i, e), NEW f, Block(a, i, f) \in r.now.loc.held,
           NEW q, q = r ++ Take(Block(a, i, f))
    PROVE  /\ ReadRun(q, m, a, i, e) /\ q.now.loc.held = r.now.loc.held \ {Block(a, i, f)}
           /\ SameArrays(q.now.loc, r.now.loc) /\ q.now.h = r.now.h
<1>1. SafeRead(r) /\ Reading(r.now, m, a, i, e)
  BY DEF ReadRun
<1>2. PICK u : u = q.now
  OBVIOUS
<1>3. u = Step(r.now, Take(Block(a, i, f)))
  BY <1>2, RunFacts
<1>4. /\ Reading(u, m, a, i, e) /\ u.loc.held = r.now.loc.held \ {Block(a, i, f)} /\ SameArrays(u.loc, r.now.loc)
      /\ u.h = r.now.h
  BY <1>1, <1>3, ReadTake
<1>5. SafeRead(q)
  BY <1>1, <1>2, <1>4, ReadStep
<1> QED BY <1>2, <1>4, <1>5 DEF ReadRun

LEMMA RunLocal ==
    ASSUME NEW r, NEW m, NEW a, NEW i, NEW e, ReadRun(r, m, a, i, e), NEW b, b \notin r.now.h.live,
           NEW q, q = r ++ ForLocal(b)
    PROVE  /\ ReadRun(q, m, a, i, e) /\ q.now.loc.held = r.now.loc.held \cup {b}
           /\ SameArrays(q.now.loc, r.now.loc) /\ HeapMore(q.now.h, r.now.h, b)
<1>1. SafeRead(r) /\ Reading(r.now, m, a, i, e)
  BY DEF ReadRun
<1>2. PICK u : u = q.now
  OBVIOUS
<1>3. u = Step(r.now, ForLocal(b))
  BY <1>2, RunFacts
<1>4. /\ Reading(u, m, a, i, e) /\ u.loc.held = r.now.loc.held \cup {b} /\ SameArrays(u.loc, r.now.loc)
      /\ HeapMore(u.h, r.now.h, b)
  BY <1>1, <1>3, ReadLocal
<1>5. SafeRead(q)
  BY <1>1, <1>2, <1>4, ReadStep
<1> QED BY <1>2, <1>4, <1>5 DEF ReadRun

LEMMA RunDrop ==
    ASSUME NEW r, NEW m, NEW a, NEW i, NEW e, ReadRun(r, m, a, i, e), NEW b, b \in r.now.loc.held,
           NEW q, q = r ++ Drop(b)
    PROVE  /\ ReadRun(q, m, a, i, e) /\ q.now.loc.held = r.now.loc.held \ {b}
           /\ SameArrays(q.now.loc, r.now.loc) /\ q.now.h.live = r.now.h.live \ {b}
<1>1. SafeRead(r) /\ Reading(r.now, m, a, i, e)
  BY DEF ReadRun
<1>2. PICK u : u = q.now
  OBVIOUS
<1>3. u = Step(r.now, Drop(b))
  BY <1>2, RunFacts
<1>4. /\ Reading(u, m, a, i, e) /\ u.loc.held = r.now.loc.held \ {b} /\ SameArrays(u.loc, r.now.loc)
      /\ u.h.live = r.now.h.live \ {b}
  BY <1>1, <1>3, ReadDrop
<1>5. SafeRead(q)
  BY <1>1, <1>2, <1>4, ReadStep
<1> QED BY <1>2, <1>4, <1>5 DEF ReadRun

\* The next entry of array a may be read.
CanRead(st, a, i) ==
    /\ Sound(st) /\ a \in EntryArrays /\ IsNext(st.m, a, i) /\ st.m.ptr["functions"] = {} /\ DeclaredFit(st.m)
    /\ \A f : Block(a, i, f) \notin st.loc.held
    /\ ArrayBlock("declared_funcs") \notin st.loc.held

LEMMA RunBegin ==
    ASSUME NEW st, NEW a, NEW i, CanRead(st, a, i), NEW e, NEW q, q = Start(st) ++ Begin(a, i, e, 1)
    PROVE  /\ ReadRun(q, st.m, a, i, e) /\ q.now.loc = st.loc /\ q.now.h = st.h /\ FreshEntry(q.now, a, i)
           /\ ArrayBlock("declared_funcs") \notin q.now.loc.held
<1>1. /\ Sound(st) /\ a \in EntryArrays /\ IsNext(st.m, a, i) /\ st.m.ptr["functions"] = {} /\ DeclaredFit(st.m)
      /\ \A f : Block(a, i, f) \notin st.loc.held
      /\ ArrayBlock("declared_funcs") \notin st.loc.held
  BY DEF CanRead
<1>2. PICK u, r : u = q.now /\ r = Start(st)
  OBVIOUS
<1>3. u = Step(st, Begin(a, i, e, 1)) /\ q = r ++ Begin(a, i, e, 1)
  BY <1>2, RunFacts, StartFacts
<1>4. Reading(u, st.m, a, i, e) /\ u.loc = st.loc /\ u.h = st.h /\ FreshEntry(u, a, i)
  BY <1>1, <1>3, ReadBegin
<1>5. SafeRead(r)
  BY <1>1, <1>2, StartFacts DEF SafeRead
<1>6. SafeRead(q)
  <2>1. u = q.now
    BY <1>2
  <2> QED BY <1>3, <1>4, <1>5, <2>1, ReadStep
<1> QED BY <1>1, <1>2, <1>4, <1>6 DEF ReadRun

\* A run of the handler of array a has read one more entry, with the locals l.
HasRead(r, st, a, e, l) == ReadRun(r, st.m, a, st.m.cnt[a] + 1, e) /\ r.now.loc = l

LEMMA StFields == St.m = mod /\ St.loc = loc /\ St.h = heap
BY DEF St

TableEntry(x) == [k |-> "table", x |-> x]

GlobalEntry(x, mut) == [k |-> "global", x |-> x, mut |-> mut]

LEMMA TableRead ==
    ASSUME NEW x, NEW i, i = mod.cnt["tables"] + 1, CanRead(St, "tables", i)
    PROVE  HasRead(TableRun(x), St, "tables", TableEntry(x), loc)
<1>1. PICK b, e : e = TableEntry(x) /\ b = Start(St) ++ Begin("tables", i, e, 1)
  OBVIOUS
<1>2. PICK d : d = Declare(b, DeclaredBy(x))
  OBVIOUS
<1>3. TableRun(x) = IF x.k # "none" THEN d ++ ForEntry(Block("tables", i, "init_expr")) ELSE d
  BY <1>1, <1>2 DEF TableRun, TableEntry, Counted, When
<1>4. CanRead(St, "tables", i) /\ b = Start(St) ++ Begin("tables", i, e, 1) /\ St.loc = loc /\ St.m = mod
  BY <1>1, StFields
<1>5. /\ ReadRun(b, mod, "tables", i, e) /\ b.now.loc = loc /\ FreshEntry(b.now, "tables", i)
      /\ ArrayBlock("declared_funcs") \notin b.now.loc.held
  BY <1>4, RunBegin
<1>a. DeclaredBy(x) \subseteq DeclaredIn("tables", e)
  BY <1>1 DEF DeclaredIn, TableEntry
<1>6. /\ ReadRun(d, mod, "tables", i, e) /\ d.now.loc = loc
      /\ \A c : c \in d.now.h.live => (c \in b.now.h.live \/ c = ArrayBlock("declared_funcs"))
  BY <1>2, <1>5, <1>a, ReadDeclare
<1>7. Block("tables", i, "init_expr") \notin d.now.h.live
  BY <1>5, <1>6 DEF FreshEntry, ArrayBlock, Block
<1>8. ReadRun(TableRun(x), mod, "tables", i, e) /\ TableRun(x).now.loc = loc
  <2>1. PICK q : q = d ++ ForEntry(Block("tables", i, "init_expr"))
    OBVIOUS
  <2>2. ReadRun(q, mod, "tables", i, e) /\ q.now.loc = loc
    BY <2>1, <1>6, <1>7, RunEntry
  <2> QED BY <1>3, <1>6, <2>1, <2>2
<1> QED BY <1>1, <1>8, StFields DEF HasRead

LEMMA GlobalRead ==
    ASSUME NEW x, NEW mut, NEW i, i = mod.cnt["globals"] + 1, CanRead(St, "globals", i)
    PROVE  HasRead(GlobalRun(x, mut), St, "globals", GlobalEntry(x, mut), loc)
<1>1. PICK b, e : e = GlobalEntry(x, mut) /\ b = Start(St) ++ Begin("globals", i, e, 1)
  OBVIOUS
<1>2. PICK d : d = Declare(b, DeclaredBy(x))
  OBVIOUS
<1>3. PICK w : w = IF x.k = "global.get" THEN d ++ ForEntry(Block("globals", i, "deps")) ELSE d
  OBVIOUS
<1>4. GlobalRun(x, mut) = w ++ ForEntry(Block("globals", i, "init_expr"))
  BY <1>1, <1>2, <1>3 DEF GlobalRun, GlobalEntry, Counted, When
<1>5. CanRead(St, "globals", i) /\ b = Start(St) ++ Begin("globals", i, e, 1) /\ St.loc = loc /\ St.m = mod
  BY <1>1, StFields
<1>6. /\ ReadRun(b, mod, "globals", i, e) /\ b.now.loc = loc /\ FreshEntry(b.now, "globals", i)
      /\ ArrayBlock("declared_funcs") \notin b.now.loc.held
  BY <1>5, RunBegin
<1>a. DeclaredBy(x) \subseteq DeclaredIn("globals", e)
  BY <1>1 DEF DeclaredIn, GlobalEntry
<1>7. /\ ReadRun(d, mod, "globals", i, e) /\ d.now.loc = loc
      /\ \A c : c \in d.now.h.live => (c \in b.now.h.live \/ c = ArrayBlock("declared_funcs"))
  BY <1>2, <1>6, <1>a, ReadDeclare
<1>8. Block("globals", i, "init_expr") \notin d.now.h.live /\ Block("globals", i, "deps") \notin d.now.h.live
  BY <1>6, <1>7 DEF FreshEntry, ArrayBlock, Block
<1>9. ReadRun(w, mod, "globals", i, e) /\ w.now.loc = loc /\ Block("globals", i, "init_expr") \notin w.now.h.live
  <2>1. PICK q : q = d ++ ForEntry(Block("globals", i, "deps"))
    OBVIOUS
  <2>2. ReadRun(q, mod, "globals", i, e) /\ q.now.loc = loc /\ HeapMore(q.now.h, d.now.h, Block("globals", i, "deps"))
    BY <2>1, <1>7, <1>8, RunEntry
  <2>3. Block("globals", i, "init_expr") # Block("globals", i, "deps")
    BY BlockFacts
  <2>4. Block("globals", i, "init_expr") \notin q.now.h.live
    BY <2>2, <2>3, <1>8 DEF HeapMore
  <2> QED BY <1>3, <1>7, <1>8, <2>1, <2>2, <2>4
<1>10. PICK q : q = w ++ ForEntry(Block("globals", i, "init_expr"))
  OBVIOUS
<1>11. ReadRun(q, mod, "globals", i, e) /\ q.now.loc = loc
  BY <1>9, <1>10, RunEntry
<1> QED BY <1>1, <1>4, <1>10, <1>11, StFields DEF HasRead

LEMMA ExportRead ==
    ASSUME NEW name, NEW kind, NEW x, NEW i, i = mod.cnt["exports"] + 1, CanRead(St, "exports", i)
    PROVE  HasRead(ExportRun(name, kind, x), St, "exports", Export(name, kind, x), loc)
<1>1. PICK b, e : e = Export(name, kind, x) /\ b = Start(St) ++ Begin("exports", i, e, 1)
  OBVIOUS
<1>2. PICK n : n = b ++ ForEntry(Block("exports", i, "name"))
  OBVIOUS
<1>3. ExportRun(name, kind, x) = IF kind = "func" THEN Declare(n, {x}) ELSE n
  BY <1>1, <1>2 DEF ExportRun, Counted
<1>4. CanRead(St, "exports", i) /\ b = Start(St) ++ Begin("exports", i, e, 1) /\ St.loc = loc /\ St.m = mod
  BY <1>1, StFields
<1>5. /\ ReadRun(b, mod, "exports", i, e) /\ b.now.loc = loc /\ FreshEntry(b.now, "exports", i)
      /\ ArrayBlock("declared_funcs") \notin b.now.loc.held
  BY <1>4, RunBegin
<1>6. Block("exports", i, "name") \notin b.now.h.live
  BY <1>5 DEF FreshEntry
<1>7. ReadRun(n, mod, "exports", i, e) /\ n.now.loc = loc /\ ArrayBlock("declared_funcs") \notin n.now.loc.held
  BY <1>2, <1>5, <1>6, RunEntry
<1>8. PICK d, F : d = Declare(n, F) /\ F = {x}
  OBVIOUS
<1>9. CASE kind = "func"
  <2>1. d = Declare(n, F)
    BY <1>8
  <2>2. F \subseteq DeclaredIn("exports", e)
    BY <1>1, <1>8, <1>9 DEF DeclaredIn, Export
  <2>3. ReadRun(d, mod, "exports", i, e) /\ d.now.loc = loc
    BY <2>1, <2>2, <1>7, ReadDeclare
  <2> QED BY <1>1, <1>3, <1>8, <1>9, <2>3, StFields DEF HasRead
<1> QED BY <1>1, <1>3, <1>7, <1>9, StFields DEF HasRead

LEMMA DataRead ==
    ASSUME NEW e, NEW i, i = mod.cnt["data_segments"] + 1, CanRead(St, "data_segments", i)
    PROVE  HasRead(DataRun(e), St, "data_segments", e, loc)
<1>1. PICK b : b = Start(St) ++ Begin("data_segments", i, e, 1)
  OBVIOUS
<1>2. PICK w : w = IF e.mode = "active" THEN b ++ ForEntry(Block("data_segments", i, "offset_expr")) ELSE b
  OBVIOUS
<1>3. DataRun(e) = w ++ ForEntry(Block("data_segments", i, "data"))
  BY <1>1, <1>2 DEF DataRun, Counted, When
<1>4. CanRead(St, "data_segments", i) /\ b = Start(St) ++ Begin("data_segments", i, e, 1) /\ St.loc = loc /\ St.m = mod
  BY <1>1, StFields
<1>5. ReadRun(b, mod, "data_segments", i, e) /\ b.now.loc = loc /\ FreshEntry(b.now, "data_segments", i)
  BY <1>4, RunBegin
<1>6. /\ Block("data_segments", i, "offset_expr") \notin b.now.h.live
      /\ Block("data_segments", i, "data") \notin b.now.h.live
  BY <1>5 DEF FreshEntry
<1>7. ReadRun(w, mod, "data_segments", i, e) /\ w.now.loc = loc /\ Block("data_segments", i, "data") \notin w.now.h.live
  <2>1. PICK q : q = b ++ ForEntry(Block("data_segments", i, "offset_expr"))
    OBVIOUS
  <2>2. /\ ReadRun(q, mod, "data_segments", i, e) /\ q.now.loc = loc
        /\ HeapMore(q.now.h, b.now.h, Block("data_segments", i, "offset_expr"))
    BY <2>1, <1>5, <1>6, RunEntry
  <2>3. Block("data_segments", i, "data") # Block("data_segments", i, "offset_expr")
    BY BlockFacts
  <2>4. Block("data_segments", i, "data") \notin q.now.h.live
    BY <2>2, <2>3, <1>6 DEF HeapMore
  <2> QED BY <1>2, <1>5, <1>6, <2>1, <2>2, <2>4
<1>8. PICK q : q = w ++ ForEntry(Block("data_segments", i, "data"))
  OBVIOUS
<1>9. ReadRun(q, mod, "data_segments", i, e) /\ q.now.loc = loc
  BY <1>7, <1>8, RunEntry
<1> QED BY <1>3, <1>8, <1>9, StFields DEF HasRead

LEMMA LocalFacts ==
    ASSUME NEW f
    PROVE  /\ \A g : Local(f) = Local(g) <=> f = g
           /\ \A a \in Arrays : \A i, g : Local(f) # Block(a, i, g) /\ Local(f) # ArrayBlock(a)
           /\ Local(f)[1] \notin Arrays /\ Local(f)[1] \notin ImportArrays
<1>1. "local" \notin Arrays /\ "local" \notin ImportArrays
  BY DEF Arrays, ImportArrays, FlatArrays
<1>2. Local(f)[1] = "local" /\ \A g : Local(f) = Local(g) <=> f = g
  BY BlockFacts DEF Local
<1> QED BY <1>1, <1>2, BlockFacts, ArrayBlockFacts

LEMMA FreshLocal ==
    ASSUME NEW st, Sound(st), NEW f, Local(f) \notin st.loc.held
    PROVE  Local(f) \notin st.h.live
<1>1. ~InModule(st.m, Local(f)) /\ ~InLocal(st.loc, Local(f))
  BY LocalFacts DEF InModule, InLocal
<1> QED BY <1>1 DEF Sound

LEMMA LocalsBack ==
    ASSUME NEW l, IsLocals(l), l.held = {}, SameArrays(l, NoLocals)
    PROVE  l = NoLocals
<1>1. /\ NoLocals = [held |-> NoLocals.held, cnt |-> NoLocals.cnt, ptr |-> NoLocals.ptr, cap |-> NoLocals.cap,
                    own |-> NoLocals.own, ent |-> NoLocals.ent]
      /\ NoLocals.held = {}
  BY DEF NoLocals
<1>2. l = [held |-> l.held, cnt |-> l.cnt, ptr |-> l.ptr, cap |-> l.cap, own |-> l.own, ent |-> l.ent]
  BY DEF IsLocals
<1> HIDE DEF NoLocals
<1> QED BY <1>1, <1>2 DEF SameArrays

LEMMA SameArraysTrans ==
    ASSUME NEW l1, NEW l2, NEW l3, SameArrays(l1, l2), SameArrays(l2, l3)
    PROVE  SameArrays(l1, l3)
BY DEF SameArrays

LEMMA ReadRunSound ==
    ASSUME NEW r, NEW m, NEW a, NEW i, NEW e, ReadRun(r, m, a, i, e)
    PROVE  Sound(r.now) /\ IsLocals(r.now.loc) /\ a \in Arrays
BY ReadingFacts DEF ReadRun, IsState

LEMMA ItemRead ==
    ASSUME NEW r, NEW m, NEW i, NEW e, ReadRun(r, m, "element_segments", i, e), r.now.loc = NoLocals,
           Block("element_segments", i, "func_indices") \notin r.now.h.live,
           Block("element_segments", i, "offsets") \notin r.now.h.live,
           Block("element_segments", i, "bytecode") \notin r.now.h.live,
           NEW q, q = ItemRun(r, i, e)
    PROVE  ReadRun(q, m, "element_segments", i, e) /\ q.now.loc = NoLocals
<1>1. PICK a, D : a = "element_segments" /\ D = IF e.item.k = "index" THEN {e.item.i} ELSE DeclaredBy(e.item)
  OBVIOUS
<1>2. \/ q = r
      \/ q = Declare(r, D)
      \/ q = Declare(r ++ ForEntry(Block("element_segments", i, "func_indices")), D)
      \/ q = Declare(r ++ ForEntry(Block("element_segments", i, "offsets")), D) ++ ForLocal(Local("parsed_expr"))
             ++ ForEntry(Block("element_segments", i, "bytecode")) ++ Drop(Local("parsed_expr"))
  <2>1. PICK q1, q2, q3, q4 :
          /\ q1 = r /\ q2 = Declare(r, D)
          /\ q3 = Declare(r ++ ForEntry(Block("element_segments", i, "func_indices")), D)
          /\ q4 = Declare(r ++ ForEntry(Block("element_segments", i, "offsets")), D) ++ ForLocal(Local("parsed_expr"))
             ++ ForEntry(Block("element_segments", i, "bytecode")) ++ Drop(Local("parsed_expr"))
    OBVIOUS
  <2>2. q = CASE e.item.k = "none" -> q1
              [] e.item.k # "none" /\ e.mode = "declarative" -> q2
              [] e.item.k = "index" /\ e.mode # "declarative" -> q3
              [] OTHER -> q4
    BY <1>1, <2>1 DEF ItemRun
  <2>3. q = q1 \/ q = q2 \/ q = q3 \/ q = q4
    BY <2>2
  <2> QED BY <2>1, <2>3
<1>3. NoLocals.held = {}
  BY NoLocalsFacts
<1>4. ArrayBlock("declared_funcs") \notin r.now.loc.held /\ D \subseteq DeclaredIn("element_segments", e)
  BY <1>1, <1>3 DEF DeclaredIn
<1>5. CASE q = r
  BY <1>5
<1>6. CASE q = Declare(r, D)
  BY <1>4, <1>6, ReadDeclare
<1>7. CASE q = Declare(r ++ ForEntry(Block("element_segments", i, "func_indices")), D)
  <2>1. PICK p : p = r ++ ForEntry(Block("element_segments", i, "func_indices"))
    OBVIOUS
  <2>2. ReadRun(p, m, "element_segments", i, e) /\ p.now.loc = NoLocals
    BY <2>1, RunEntry
  <2>3. ArrayBlock("declared_funcs") \notin p.now.loc.held /\ q = Declare(p, D)
    BY <2>1, <2>2, <1>3, <1>7
  <2> QED BY <1>4, <2>2, <2>3, ReadDeclare
<1>8. CASE q = Declare(r ++ ForEntry(Block("element_segments", i, "offsets")), D) ++ ForLocal(Local("parsed_expr"))
             ++ ForEntry(Block("element_segments", i, "bytecode")) ++ Drop(Local("parsed_expr"))
  <2>1. PICK p, d, l, b, x : /\ x = Local("parsed_expr")
                          /\ p = r ++ ForEntry(Block("element_segments", i, "offsets")) /\ d = Declare(p, D)
                          /\ l = d ++ ForLocal(x)
                          /\ b = l ++ ForEntry(Block("element_segments", i, "bytecode"))
    OBVIOUS
  <2>2. q = b ++ Drop(x)
    BY <2>1, <1>8
  <2>a. p = r ++ ForEntry(Block("element_segments", i, "offsets"))
    BY <2>1
  <2>3. /\ ReadRun(p, m, "element_segments", i, e) /\ p.now.loc = NoLocals
        /\ HeapMore(p.now.h, r.now.h, Block("element_segments", i, "offsets"))
    BY <2>a, RunEntry
  <2>4. Block("element_segments", i, "bytecode") \notin p.now.h.live
    BY <2>3, BlockFacts DEF HeapMore
  <2>5. ArrayBlock("declared_funcs") \notin p.now.loc.held /\ d = Declare(p, D)
    BY <2>1, <2>3, <1>3
  <2>6. /\ ReadRun(d, m, "element_segments", i, e) /\ d.now.loc = NoLocals
        /\ \A c : c \in d.now.h.live => (c \in p.now.h.live \/ c = ArrayBlock("declared_funcs"))
    BY <1>4, <2>3, <2>5, ReadDeclare
  <2>7. Block("element_segments", i, "bytecode") \notin d.now.h.live
    <3>1. Block("element_segments", i, "bytecode") # ArrayBlock("declared_funcs")
      BY DEF Block, ArrayBlock
    <3> QED BY <2>4, <2>6, <3>1
  <2>8. x \notin d.now.h.live /\ l = d ++ ForLocal(x) /\ x # Block("element_segments", i, "bytecode")
    <3>1. Sound(d.now) /\ Local("parsed_expr") \notin d.now.loc.held
      BY <2>6, <1>3, ReadRunSound
    <3>2. Local("parsed_expr") \notin d.now.h.live
      BY <3>1, FreshLocal
    <3>3. Local("parsed_expr") # Block("element_segments", i, "bytecode")
      BY <2>6, ReadRunSound, LocalFacts
    <3> QED BY <2>1, <3>2, <3>3
  <2>9. /\ ReadRun(l, m, "element_segments", i, e) /\ l.now.loc.held = d.now.loc.held \cup {x}
        /\ SameArrays(l.now.loc, d.now.loc) /\ HeapMore(l.now.h, d.now.h, x)
    BY <2>6, <2>8, RunLocal
  <2>10. Block("element_segments", i, "bytecode") \notin l.now.h.live
    BY <2>7, <2>8, <2>9 DEF HeapMore
  <2>b. b = l ++ ForEntry(Block("element_segments", i, "bytecode"))
    BY <2>1
  <2>11. ReadRun(b, m, "element_segments", i, e) /\ b.now.loc = l.now.loc
    BY <2>b, <2>9, <2>10, RunEntry
  <2>12. x \in b.now.loc.held
    BY <2>9, <2>11
  <2>13. /\ ReadRun(q, m, "element_segments", i, e) /\ q.now.loc.held = b.now.loc.held \ {x}
         /\ SameArrays(q.now.loc, b.now.loc)
    BY <2>2, <2>11, <2>12, RunDrop
  <2>14. q.now.loc.held = {} /\ SameArrays(q.now.loc, NoLocals)
    <3>1. SameArrays(b.now.loc, NoLocals)
      BY <2>6, <2>9, <2>11
    <3>2. SameArrays(q.now.loc, NoLocals)
      BY <3>1, <2>13, SameArraysTrans
    <3> QED BY <3>2, <2>6, <2>9, <2>11, <2>13, <1>3
  <2>15. IsLocals(q.now.loc)
    BY <2>13, ReadRunSound
  <2> QED BY <2>13, <2>14, <2>15, LocalsBack
<1> QED BY <1>2, <1>5, <1>6, <1>7, <1>8

LEMMA ElementRead ==
    ASSUME NEW e, NEW i, i = mod.cnt["element_segments"] + 1, CanRead(St, "element_segments", i), loc = NoLocals
    PROVE  HasRead(ElementRun(e), St, "element_segments", e, loc)
<1>1. PICK b : b = Start(St) ++ Begin("element_segments", i, e, 1)
  OBVIOUS
<1>2. PICK w : w = IF e.mode = "active" THEN b ++ ForEntry(Block("element_segments", i, "offset_expr")) ELSE b
  OBVIOUS
<1>3. ElementRun(e) = ItemRun(w, i, e)
  BY <1>1, <1>2 DEF ElementRun, Counted, When
<1>4. CanRead(St, "element_segments", i) /\ b = Start(St) ++ Begin("element_segments", i, e, 1) /\ St.loc = loc /\ St.m = mod
  BY <1>1, StFields
<1>5. ReadRun(b, mod, "element_segments", i, e) /\ b.now.loc = loc /\ FreshEntry(b.now, "element_segments", i)
  BY <1>4, RunBegin
<1>6. /\ Block("element_segments", i, "offset_expr") \notin b.now.h.live
      /\ Block("element_segments", i, "func_indices") \notin b.now.h.live
      /\ Block("element_segments", i, "offsets") \notin b.now.h.live
      /\ Block("element_segments", i, "bytecode") \notin b.now.h.live
  BY <1>5 DEF FreshEntry
<1>7. /\ ReadRun(w, mod, "element_segments", i, e) /\ w.now.loc = loc
      /\ Block("element_segments", i, "func_indices") \notin w.now.h.live
      /\ Block("element_segments", i, "offsets") \notin w.now.h.live
      /\ Block("element_segments", i, "bytecode") \notin w.now.h.live
  <2>1. PICK q : q = b ++ ForEntry(Block("element_segments", i, "offset_expr"))
    OBVIOUS
  <2>2. /\ ReadRun(q, mod, "element_segments", i, e) /\ q.now.loc = loc
        /\ HeapMore(q.now.h, b.now.h, Block("element_segments", i, "offset_expr"))
    BY <2>1, <1>5, <1>6, RunEntry
  <2>3. /\ Block("element_segments", i, "func_indices") # Block("element_segments", i, "offset_expr")
        /\ Block("element_segments", i, "offsets") # Block("element_segments", i, "offset_expr")
        /\ Block("element_segments", i, "bytecode") # Block("element_segments", i, "offset_expr")
    BY BlockFacts
  <2>4. /\ Block("element_segments", i, "func_indices") \notin q.now.h.live
        /\ Block("element_segments", i, "offsets") \notin q.now.h.live
        /\ Block("element_segments", i, "bytecode") \notin q.now.h.live
    BY <2>2, <2>3, <1>6 DEF HeapMore
  <2> QED BY <1>2, <1>5, <1>6, <2>1, <2>2, <2>4
<1>8. PICK q : q = ItemRun(w, i, e)
  OBVIOUS
<1>9. ReadRun(q, mod, "element_segments", i, e) /\ q.now.loc = loc
  <2>1. w.now.loc = NoLocals
    BY <1>7
  <2> QED BY <1>7, <1>8, <2>1, ItemRead
<1> QED BY <1>3, <1>8, <1>9, StFields DEF HasRead

LEMMA CodeRead ==
    ASSUME NEW c, NEW i, i = mod.cnt["code_bodies"] + 1, CanRead(St, "code_bodies", i), CodeLocals(loc)
    PROVE  ReadRun(CodeRun(c), mod, "code_bodies", i, c) /\ CodeLocals(CodeRun(c).now.loc)
<1>1. PICK b, p, ref, x, y : /\ b = Start(St) ++ Begin("code_bodies", i, c, 1)
                             /\ p = b ++ ForEntry(Block("code_bodies", i, "local_runs"))
                             /\ ref = Block("code_bodies", i, "ref_nodes")
                             /\ x = Local("inits") /\ y = Local("instrs")
  OBVIOUS
<1>2. PICK w : w = IF x \notin loc.held THEN p ++ ForLocal(x) ELSE p
  OBVIOUS
<1>3. PICK q1, q2, q3, q4 : /\ q1 = w ++ ForLocal(y) /\ q2 = q1 ++ ForLocal(ref) /\ q3 = q2 ++ Take(ref)
                            /\ q4 = q3 ++ ForEntry(Block("code_bodies", i, "bytecode"))
  OBVIOUS
<1>4. CodeRun(c) = q4 ++ Drop(y)
  BY <1>1, <1>2, <1>3 DEF CodeRun, Counted, When
<1>5. CanRead(St, "code_bodies", i) /\ b = Start(St) ++ Begin("code_bodies", i, c, 1) /\ St.loc = loc /\ St.m = mod
  BY <1>1, StFields
<1>6. ReadRun(b, mod, "code_bodies", i, c) /\ b.now.loc = loc /\ FreshEntry(b.now, "code_bodies", i)
  BY <1>5, RunBegin
<1>7. /\ Block("code_bodies", i, "local_runs") \notin b.now.h.live
      /\ ref \notin b.now.h.live
      /\ Block("code_bodies", i, "bytecode") \notin b.now.h.live
  BY <1>1, <1>6 DEF FreshEntry
<1>8. /\ x # y /\ x # ref /\ y # ref /\ x # Block("code_bodies", i, "bytecode") /\ y # Block("code_bodies", i, "bytecode")
      /\ x # Block("code_bodies", i, "local_runs")
      /\ ref # Block("code_bodies", i, "bytecode") /\ ref # Block("code_bodies", i, "local_runs")
      /\ Block("code_bodies", i, "bytecode") # Block("code_bodies", i, "local_runs")
  BY <1>1, <1>6, ReadRunSound, LocalFacts, BlockFacts
<1>9. /\ ReadRun(p, mod, "code_bodies", i, c) /\ p.now.loc = loc
      /\ ref \notin p.now.h.live /\ Block("code_bodies", i, "bytecode") \notin p.now.h.live
  <2>1. p = b ++ ForEntry(Block("code_bodies", i, "local_runs"))
    BY <1>1
  <2>2. /\ ReadRun(p, mod, "code_bodies", i, c) /\ p.now.loc = loc
        /\ HeapMore(p.now.h, b.now.h, Block("code_bodies", i, "local_runs"))
    BY <2>1, <1>6, <1>7, RunEntry
  <2> QED BY <2>2, <1>7, <1>8 DEF HeapMore
<1>10. /\ ReadRun(w, mod, "code_bodies", i, c) /\ w.now.loc.held = {x} /\ SameArrays(w.now.loc, NoLocals)
       /\ ref \notin w.now.h.live /\ Block("code_bodies", i, "bytecode") \notin w.now.h.live
  <2>1. CASE x \in loc.held
    BY <2>1, <1>1, <1>2, <1>9 DEF CodeLocals
  <2>2. CASE x \notin loc.held
    <3>1. loc.held = {} /\ w = p ++ ForLocal(x)
      BY <2>2, <1>1, <1>2 DEF CodeLocals
    <3>2. x \notin p.now.h.live
      <4>1. Local("inits") \notin p.now.loc.held /\ Sound(p.now)
        BY <3>1, <1>9, ReadRunSound
      <4>2. Local("inits") \notin p.now.h.live
        BY <4>1, FreshLocal
      <4> QED BY <4>2, <1>1
    <3>3. /\ ReadRun(w, mod, "code_bodies", i, c) /\ w.now.loc.held = p.now.loc.held \cup {x}
          /\ SameArrays(w.now.loc, p.now.loc) /\ HeapMore(w.now.h, p.now.h, x)
      BY <3>1, <3>2, <1>9, RunLocal
    <3>4. SameArrays(w.now.loc, NoLocals)
      BY <3>3, <1>9 DEF CodeLocals, SameArrays
    <3> QED BY <3>1, <3>3, <3>4, <1>8, <1>9 DEF HeapMore
  <2> QED BY <2>1, <2>2
<1>11. /\ ReadRun(q1, mod, "code_bodies", i, c) /\ q1.now.loc.held = {x, y} /\ SameArrays(q1.now.loc, NoLocals)
       /\ ref \notin q1.now.h.live /\ Block("code_bodies", i, "bytecode") \notin q1.now.h.live
  <2>1. y \notin w.now.h.live
    <3>1. Local("instrs") \notin w.now.loc.held /\ Sound(w.now)
      BY <1>1, <1>8, <1>10, ReadRunSound
    <3>2. Local("instrs") \notin w.now.h.live
      BY <3>1, FreshLocal
    <3> QED BY <3>2, <1>1
  <2>2. q1 = w ++ ForLocal(y)
    BY <1>3
  <2>3. /\ ReadRun(q1, mod, "code_bodies", i, c) /\ q1.now.loc.held = w.now.loc.held \cup {y}
        /\ SameArrays(q1.now.loc, w.now.loc) /\ HeapMore(q1.now.h, w.now.h, y)
    BY <2>1, <2>2, <1>10, RunLocal
  <2>4. SameArrays(q1.now.loc, NoLocals)
    BY <2>3, <1>10, SameArraysTrans
  <2> QED BY <2>3, <2>4, <1>8, <1>10 DEF HeapMore
<1>12. /\ ReadRun(q2, mod, "code_bodies", i, c) /\ q2.now.loc.held = {x, y, ref} /\ SameArrays(q2.now.loc, NoLocals)
       /\ Block("code_bodies", i, "bytecode") \notin q2.now.h.live
  <2>2. q2 = q1 ++ ForLocal(ref)
    BY <1>3
  <2>3. /\ ReadRun(q2, mod, "code_bodies", i, c) /\ q2.now.loc.held = q1.now.loc.held \cup {ref}
        /\ SameArrays(q2.now.loc, q1.now.loc) /\ HeapMore(q2.now.h, q1.now.h, ref)
    BY <2>2, <1>11, RunLocal
  <2>4. SameArrays(q2.now.loc, NoLocals)
    BY <2>3, <1>11, SameArraysTrans
  <2> QED BY <2>3, <2>4, <1>8, <1>11 DEF HeapMore
<1>13. /\ ReadRun(q3, mod, "code_bodies", i, c) /\ q3.now.loc.held = {x, y} /\ SameArrays(q3.now.loc, NoLocals)
       /\ Block("code_bodies", i, "bytecode") \notin q3.now.h.live
  <2>1. q3 = q2 ++ Take(Block("code_bodies", i, "ref_nodes")) /\ Block("code_bodies", i, "ref_nodes") \in q2.now.loc.held
    BY <1>1, <1>3, <1>12
  <2>2. /\ ReadRun(q3, mod, "code_bodies", i, c)
        /\ q3.now.loc.held = q2.now.loc.held \ {Block("code_bodies", i, "ref_nodes")}
        /\ SameArrays(q3.now.loc, q2.now.loc) /\ q3.now.h = q2.now.h
    BY <2>1, <1>12, RunTake
  <2>3. SameArrays(q3.now.loc, NoLocals)
    BY <2>2, <1>12, SameArraysTrans
  <2> QED BY <2>2, <2>3, <1>1, <1>8, <1>12
<1>14. ReadRun(q4, mod, "code_bodies", i, c) /\ q4.now.loc = q3.now.loc
  <2>1. q4 = q3 ++ ForEntry(Block("code_bodies", i, "bytecode"))
    BY <1>3
  <2> QED BY <2>1, <1>13, RunEntry
<1>15. PICK q5 : q5 = q4 ++ Drop(y)
  OBVIOUS
<1>16. /\ ReadRun(q5, mod, "code_bodies", i, c) /\ q5.now.loc.held = q4.now.loc.held \ {y}
       /\ SameArrays(q5.now.loc, q4.now.loc)
  <2>1. y \in q4.now.loc.held
    BY <1>13, <1>14
  <2> QED BY <2>1, <1>14, <1>15, RunDrop
<1>17. q5.now.loc.held = {x} /\ SameArrays(q5.now.loc, NoLocals)
  <2>1. SameArrays(q4.now.loc, NoLocals)
    BY <1>13, <1>14
  <2>2. SameArrays(q5.now.loc, NoLocals)
    BY <2>1, <1>16, SameArraysTrans
  <2> QED BY <2>2, <1>8, <1>13, <1>14, <1>16
<1> QED BY <1>1, <1>4, <1>15, <1>16, <1>17 DEF CodeLocals

-----------------------------------------------------------------------------
(* The sections and their arrays                                             *)

EntrySections == {"table", "global", "export", "element", "code", "data"}

\* Arrays that belong to no section of their own.
OtherArrays == ImportArrays \cup {"type_defs", "typeidx_to_repr", "canonical_map", "repr_infos", "declared_funcs",
                                  "export_order", "functions"}

LEMMA SectionFacts ==
    /\ DOMAIN ArrayOf = {"type", "import", "function", "table", "memory", "tag", "global", "export", "element",
                         "code", "data"}
    /\ ArrayOf["type"] = "types" /\ ArrayOf["import"] = "imports" /\ ArrayOf["function"] = "function_type_indices"
    /\ ArrayOf["table"] = "tables" /\ ArrayOf["memory"] = "memories" /\ ArrayOf["tag"] = "tags"
    /\ ArrayOf["global"] = "globals" /\ ArrayOf["export"] = "exports" /\ ArrayOf["element"] = "element_segments"
    /\ ArrayOf["code"] = "code_bodies" /\ ArrayOf["data"] = "data_segments"
BY DEF ArrayOf

LEMMA OrderFacts ==
    /\ Order["type"] = 1 /\ Order["import"] = 2 /\ Order["function"] = 3 /\ Order["table"] = 4
    /\ Order["memory"] = 5 /\ Order["tag"] = 6 /\ Order["global"] = 7 /\ Order["export"] = 8 /\ Order["start"] = 9
    /\ Order["element"] = 10 /\ Order["datacount"] = 11 /\ Order["code"] = 12 /\ Order["data"] = 13
BY DEF Order

LEMMA SectionArrays ==
    ASSUME NEW s \in DOMAIN ArrayOf
    PROVE  /\ ArrayOf[s] \in Arrays /\ ArrayOf[s] \notin OtherArrays /\ Order[s] \in 1..13
           /\ \A t \in DOMAIN ArrayOf : (ArrayOf[t] = ArrayOf[s] \/ Order[t] = Order[s]) => t = s
<1>1. ArrayOf[s] \in Arrays /\ ArrayOf[s] \notin OtherArrays
  BY SectionFacts DEF OtherArrays, Arrays, ImportArrays, FlatArrays
<1>2. Order[s] \in 1..13
  BY SectionFacts, OrderFacts
<1>3. ASSUME NEW t \in DOMAIN ArrayOf, ArrayOf[t] = ArrayOf[s] PROVE t = s
  BY <1>3, SectionFacts
<1>4. ASSUME NEW t \in DOMAIN ArrayOf, Order[t] = Order[s] PROVE t = s
  BY <1>4, SectionFacts, OrderFacts
<1> QED BY <1>1, <1>2, <1>3, <1>4

LEMMA EntrySectionFacts ==
    ASSUME NEW c \in EntrySections
    PROVE  /\ c \in DOMAIN ArrayOf /\ ArrayOf[c] \in EntryArrays /\ Order[c] >= 4
           /\ c # "none" /\ c # "type" /\ c # "import" /\ c # "function" /\ c # "memory" /\ c # "tag"
           /\ (ArrayOf[c] = "exports" <=> c = "export")
BY SectionFacts, OrderFacts DEF EntrySections, EntryArrays

LEMMA OtherArraysFacts ==
    /\ OtherArrays \subseteq Arrays /\ Metadata \subseteq OtherArrays /\ ImportArrays \subseteq OtherArrays
    /\ Growing \subseteq Arrays /\ "types" \in Arrays /\ "function_type_indices" \in Arrays /\ "exports" \in Arrays
    /\ "func_imports" \in Arrays /\ "types" \notin OtherArrays /\ "exports" \notin OtherArrays
    /\ "function_type_indices" \notin OtherArrays
BY DEF OtherArrays, Metadata, Growing, Arrays, ImportArrays, FlatArrays

\* One entry of a section is read: what holds between two entries holds again.
LEMMA EntryShape ==
    ASSUME NEW m, IsModule(m), NEW m2, NEW c \in EntrySections, NEW n \in Nat, n > 0, NEW k, NEW l,
           ParseOK(m, l, c, n, k), NEW a, a = ArrayOf[c], NEW i, NEW e, CountedIn(m2, m, a, i, e), IsNext(m, a, i),
           NEW l2, LocalsOK(l2, c), (c = "export" /\ e.kind = "func") => e.i \in Nat /\ e.i < Limit(m, "func")
    PROVE  ParseOK(m2, l2, c, n - 1, k)
<1>1. /\ c \in DOMAIN ArrayOf /\ a \in EntryArrays /\ Order[c] >= 4 /\ c # "none" /\ c # "type" /\ c # "import"
      /\ c # "function" /\ c # "memory" /\ c # "tag" /\ (a = "exports" <=> c = "export") /\ a \in Arrays /\ a \notin OtherArrays
  BY EntrySectionFacts, SectionArrays
<1>2. /\ a \in Arrays /\ a \notin FlatArrays /\ a \notin ImportArrays /\ a # "functions" /\ a # "types"
      /\ a # "type_defs" /\ a # "declared_funcs" /\ a # "function_type_indices" /\ a # "repr_infos"
  BY <1>1, EntryArrayFacts
<1>3. m.cnt \in [Arrays -> Nat] /\ m.cap \in [Arrays -> Nat] /\ m.ptr[a] # {}
  <2>1. m.cnt \in [Arrays -> Nat] /\ m.cap \in [Arrays -> Nat] /\ (m.ptr[a] = {} => m.cap[a] = 0)
    BY <1>2 DEF IsModule, Laid
  <2>2. m.cnt[a] \in Nat /\ m.cap[a] \in Nat
    BY <1>2, <2>1
  <2>3. m.cap[a] # 0
    BY <2>2 DEF IsNext
  <2> QED BY <2>1, <2>3
<1>4. /\ \A d \in Arrays : m2.cnt[d] = IF d = a THEN i ELSE m.cnt[d]
      /\ \A d \in Arrays : d # "declared_funcs" => m2.ptr[d] = m.ptr[d] /\ m2.cap[d] = m.cap[d]
      /\ \A d \in Arrays : d # "declared_funcs" => m2.ent[d] = IF d = a THEN Put(m.ent[a], i, e) ELSE m.ent[d]
      /\ m2.types_cap = m.types_cap /\ DeclaredFit(m2)
  BY DEF CountedIn, Entered, RestIn
<1>5. i = m.cnt[a] + 1 /\ i \in Nat
  BY <1>2, <1>3 DEF IsNext
<1>6. k = Order[c] /\ Fit(m) /\ Ahead(m, c, k) /\ Room(m, c, n) /\ ExportsBelow(m, Limit(m, "func"))
      /\ (k < 8 \/ c = "export" \/ OrderFits(m))
  BY <1>1 DEF ParseOK
<1>7. Limit(m2, "func") = Limit(m, "func")
  BY <1>2, <1>4, OtherArraysFacts DEF Limit, ImportsOf, DefinedIn, ImportArrays
<1>8. Fit(m2)
  <2>1. Counted0(m2)
    <3>1. ASSUME NEW d \in Growing, m2.ptr[d] = {} PROVE FreedEntries(m2)[d] = 0
      <4>1. d \in Arrays /\ d # "declared_funcs"
        BY OtherArraysFacts DEF Growing, ImportArrays
      <4>2. d # a /\ m.ptr[d] = {}
        BY <1>3, <1>4, <3>1, <4>1
      <4>3. Freed(m, d) = 0
        BY <1>6, <4>2 DEF Fit, Counted0, Freed
      <4>4. Freed(m2, d) = Freed(m, d)
        BY <1>2, <1>4, <4>1, <4>2, FreedFacts, OtherArraysFacts
      <4> QED BY <4>3, <4>4 DEF Freed
    <3> QED BY <3>1 DEF Counted0
  <2>2. TypesFit(m2)
    <3>1. "types" \in Arrays /\ "type_defs" \in Arrays /\ "typeidx_to_repr" \in Arrays /\ "canonical_map" \in Arrays
      BY DEF Arrays, FlatArrays
    <3>2. TypesFit(m)
      BY <1>6 DEF Fit
    <3> QED BY <1>2, <1>4, <3>1, <3>2 DEF TypesFit
  <2>3. ReprsFit(m2)
    BY <1>4, <1>6 DEF Fit, ReprsFit, Arrays
  <2> QED BY <1>4, <2>1, <2>2, <2>3 DEF Fit
<1>9. Ahead(m2, c, k)
  <2>1. ASSUME NEW s \in DOMAIN ArrayOf, k < Order[s]
        PROVE  m2.ptr[ArrayOf[s]] = {} /\ (s # "data" => m2.cnt[ArrayOf[s]] = 0)
    <3>1. ArrayOf[s] # a /\ ArrayOf[s] \in Arrays /\ ArrayOf[s] # "declared_funcs"
      <4>1. s # c
        BY <1>1, <1>6, <2>1, SectionArrays
      <4> QED BY <1>1, <4>1, SectionArrays DEF OtherArrays
    <3>2. m.ptr[ArrayOf[s]] = {} /\ (s # "data" => m.cnt[ArrayOf[s]] = 0)
      BY <1>6, <2>1 DEF Ahead
    <3> QED BY <1>4, <3>1, <3>2
  <2>2. ~(k < 1) /\ ~(k < 2) /\ ~(k < 4) /\ c # "type" /\ c # "import"
    BY <1>1, <1>6, SectionArrays
  <2>3. (k < 8 \/ c = "export") => m2.ptr["export_order"] = {}
    BY <1>4, <1>6 DEF Ahead, Arrays, FlatArrays
  <2>4. NoArray(m2, "functions")
    BY <1>2, <1>4, <1>6 DEF Ahead, NoArray, Arrays
  <2> QED BY <2>1, <2>2, <2>3, <2>4 DEF Ahead
<1>10. Room(m2, c, n - 1)
  <2>1. m.cap[a] = m.cnt[a] + n
    BY <1>6 DEF Room, EntrySections
  <2>2. m2.cap[a] = m2.cnt[a] + (n - 1)
    BY <1>2, <1>3, <1>4, <1>5, <2>1
  <2> QED BY <1>1, <2>2 DEF Room
<1>11. ExportsBelow(m2, Limit(m2, "func"))
  <2>1. SUFFICES ASSUME NEW j \in 1..m2.cnt["exports"], m2.ent["exports"][j].kind = "func"
                 PROVE  m2.ent["exports"][j].i \in Nat /\ m2.ent["exports"][j].i < Limit(m, "func")
    BY <1>7 DEF ExportsBelow
  <2>2. CASE a # "exports"
    <3>1. m2.ent["exports"] = m.ent["exports"] /\ m2.cnt["exports"] = m.cnt["exports"]
      BY <1>4, <2>2, OtherArraysFacts
    <3> QED BY <1>6, <2>1, <3>1 DEF ExportsBelow
  <2>3. CASE a = "exports"
    <3>1. m2.ent["exports"] = Put(m.ent["exports"], i, e) /\ m2.cnt["exports"] = i /\ DOMAIN m.ent["exports"] = 1..m.cap["exports"]
          /\ i <= m.cap["exports"]
      BY <1>2, <1>4, <2>3, OtherArraysFacts DEF IsModule, Laid, IsNext
    <3>a. m.cap["exports"] \in Nat /\ m.cnt["exports"] \in Nat /\ i \in Nat
      BY <1>3, <1>5, OtherArraysFacts
    <3>b. i = m.cnt["exports"] + 1
      BY <1>5, <2>3
    <3>c. j \in 1..i
      BY <2>1, <3>1
    <3>2. j \in 1..m.cap["exports"]
      BY <3>1, <3>a, <3>c
    <3>3. CASE j = i
      <4>1. m2.ent["exports"][j] = e
        BY <3>1, <3>2, <3>3 DEF Put
      <4>2. c = "export"
        BY <1>1, <2>3
      <4>3. e.kind = "func"
        BY <2>1, <4>1
      <4> QED BY <4>1, <4>2, <4>3
    <3>4. CASE j # i
      <4>1. m2.ent["exports"][j] = m.ent["exports"][j]
        BY <3>1, <3>2, <3>4 DEF Put
      <4>2. j \in 1..m.cnt["exports"]
        BY <3>a, <3>b, <3>c, <3>4
      <4> QED BY <1>6, <2>1, <4>1, <4>2 DEF ExportsBelow
    <3> QED BY <3>3, <3>4
  <2> QED BY <2>2, <2>3
<1>12. k < 8 \/ c = "export" \/ OrderFits(m2)
  BY <1>4, <1>6 DEF OrderFits, Arrays, FlatArrays
<1> QED BY <1>1, <1>6, <1>8, <1>9, <1>10, <1>11, <1>12 DEF ParseOK

-----------------------------------------------------------------------------
(* Steps of the module's life                                                *)

LEMMA NowState ==
    ASSUME NEW st, IsState(st), Now(st)
    PROVE  St' = st /\ mod' = st.m /\ loc' = st.loc /\ heap' = st.h
BY DEF Now, St, IsState

LEMMA ParsingStep ==
    ASSUME IInv, NEW st, Sound(st), Now(st), phase' = "parsing", cur' \in DOMAIN ArrayOf \cup {"none"},
           todo' \in Nat, last' \in 0..13, spent' \in Nat, ParseOK(st.m, st.loc, cur', todo', last')
    PROVE  IInv'
<1>1. St' = st /\ mod' = st.m /\ loc' = st.loc
  BY NowState DEF Sound
<1>2. Sound(St')
  BY <1>1
<1>3. ParseOK(mod', loc', cur', todo', last')
  BY <1>1
<1> QED BY <1>2, <1>3 DEF IInv

LEMMA ReadyStep ==
    ASSUME IInv, NEW st, Sound(st), Now(st), phase' = "ready", cur' = "none",
           todo' \in Nat, last' \in 0..13, spent' \in Nat, ReadyOK(st.m, st.loc)
    PROVE  IInv'
<1>1. St' = st /\ mod' = st.m /\ loc' = st.loc
  BY NowState DEF Sound
<1>2. Sound(St')
  BY <1>1
<1>3. ReadyOK(mod', loc')
  BY <1>1
<1> QED BY <1>2, <1>3 DEF IInv

LEMMA AbortStep ==
    ASSUME IInv, NEW st, Abort(st), NEW u, u = FreeModule(st), Sound(u), u.m = EmptyModule, u.loc = NoLocals
    PROVE  IInv'
<1>1. mod' = u.m /\ loc' = u.loc /\ heap' = u.h /\ phase' = "failed" /\ cur' = "none" /\ todo' = 0 /\ last' = 0
      /\ spent' = spent
  BY DEF Abort
<1>2. Now(u)
  BY <1>1 DEF Now
<1>3. Sound(St')
  BY <1>2, NowState DEF Sound
<1> QED BY <1>1, <1>3 DEF IInv

LEMMA AbortNow ==
    ASSUME IInv, NEW st, Sound(st), Abort(st), \A b : b \notin st.loc.held /\ ~InLocal(st.loc, b)
    PROVE  IInv'
<1>1. PICK u : u = FreeModule(st)
  OBVIOUS
<1>2. Sound(u) /\ u.m = EmptyModule /\ u.loc = NoLocals
  BY <1>1, FreeModuleSound
<1> QED BY <1>1, <1>2, AbortStep

LEMMA AbortCleanup ==
    ASSUME IInv, NEW st, Sound(st), NEW s, s = "export" => st.m.ptr["functions"] = {}, Abort(Cleanup(s, st))
    PROVE  IInv'
<1>1. PICK u, w : w = Cleanup(s, st) /\ u = FreeModule(w)
  OBVIOUS
<1>2. u = FreeModule(Cleanup(s, st)) /\ Abort(w)
  BY <1>1
<1>3. Sound(u) /\ u.m = EmptyModule /\ u.loc = NoLocals
  BY <1>2, AbortReleases
<1>4. u = FreeModule(w)
  BY <1>1
<1> QED BY <1>2, <1>3, <1>4, AbortStep

LEMMA ReadIInv ==
    ASSUME IInv, phase = "parsing", NEW s, cur = s, todo > 0, NEW r, SafeRead(r), NEW ok, Read(s, r, ok),
           ok => ParseOK(r.now.m, r.now.loc, s, todo - 1, last)
    PROVE  IInv'
<1>1. CASE ok /\ Now(r.now) /\ todo' = todo - 1 /\ spent' = spent + 1 /\ UNCHANGED <<phase, cur, last>>
  <2>1. Sound(r.now)
    BY DEF SafeRead, Stops
  <2>2. phase' = "parsing" /\ cur' = s /\ last' = last /\ todo' = todo - 1 /\ spent' = spent + 1
    BY <1>1
  <2>3. cur' \in DOMAIN ArrayOf \cup {"none"} /\ todo' \in Nat /\ last' \in 0..13 /\ spent' \in Nat
    BY <2>2 DEF IInv
  <2>4. ParseOK(r.now.m, r.now.loc, cur', todo', last')
    BY <1>1, <2>2
  <2> QED BY <1>1, <2>1, <2>2, <2>3, <2>4, ParsingStep
<1>2. CASE \E st \in Stops(r) : Abort(Cleanup(s, st))
  <2>1. PICK st \in Stops(r) : Abort(Cleanup(s, st))
    BY <1>2
  <2>2. Sound(st) /\ st.m.ptr["functions"] = {}
    BY DEF SafeRead
  <2> QED BY <2>1, <2>2, AbortCleanup
<1> QED BY <1>1, <1>2 DEF Read

LEMMA CanReadSt ==
    ASSUME IInv, NEW c \in EntrySections, Parsing(c), todo > 0, NEW a, a = ArrayOf[c], NEW i, i = mod.cnt[a] + 1
    PROVE  /\ CanRead(St, a, i) /\ IsNext(mod, a, i) /\ IsModule(mod) /\ ParseOK(mod, loc, c, todo, last)
           /\ todo \in Nat
<1>1. /\ Sound(St) /\ ParseOK(mod, loc, c, todo, last) /\ todo \in Nat
  BY DEF IInv, Parsing
<1>2. IsModule(mod)
  BY <1>1, StFields DEF Sound, IsState
<1>3. a \in EntryArrays
  BY EntrySectionFacts
<1>4. /\ a \in Arrays /\ a # "declared_funcs"
  BY <1>3, EntryArrayFacts
<1>5. mod.cnt[a] \in Nat /\ mod.cap[a] \in Nat
  BY <1>2, <1>4 DEF IsModule, Laid
<1>6. mod.cap[a] = mod.cnt[a] + todo
  BY <1>1 DEF ParseOK, Room, EntrySections
<1>7. IsNext(mod, a, i)
  BY <1>1, <1>5, <1>6 DEF IsNext
<1>8. mod.ptr["functions"] = {} /\ DeclaredFit(mod)
  BY <1>1 DEF ParseOK, Fit, Ahead, NoArray
<1>9. \A b : b \in loc.held => b = Local("inits")
  <2>1. c # "import"
    BY EntrySectionFacts
  <2>2. CASE c = "code"
    BY <1>1, <2>2 DEF ParseOK, LocalsOK, CodeLocals
  <2>3. CASE c # "code"
    <3>1. loc = NoLocals
      BY <1>1, <2>1, <2>3 DEF ParseOK, LocalsOK
    <3> QED BY <3>1, NoLocalsFacts
  <2> QED BY <2>2, <2>3
<1>10. (\A f : Block(a, i, f) \notin loc.held) /\ ArrayBlock("declared_funcs") \notin loc.held
  <2>1. "declared_funcs" \in Arrays
    BY DEF Arrays, FlatArrays
  <2> QED BY <1>4, <1>9, <2>1, LocalFacts
<1>11. CanRead(St, a, i)
  BY <1>1, <1>3, <1>7, <1>8, <1>10, StFields DEF CanRead
<1> QED BY <1>1, <1>2, <1>7, <1>11

LEMMA EntryIInv ==
    ASSUME IInv, NEW c \in EntrySections, Parsing(c), todo > 0, NEW a, a = ArrayOf[c], NEW i, i = mod.cnt[a] + 1,
           NEW r, NEW e, ReadRun(r, mod, a, i, e), LocalsOK(r.now.loc, c), NEW ok, Read(c, r, ok),
           (ok /\ c = "export" /\ e.kind = "func") => e.i \in Nat /\ e.i < Limit(mod, "func")
    PROVE  IInv'
<1>1. IsNext(mod, a, i) /\ IsModule(mod) /\ ParseOK(mod, loc, c, todo, last) /\ todo \in Nat
  BY CanReadSt
<1>2. SafeRead(r) /\ CountedIn(r.now.m, mod, a, i, e)
  BY DEF ReadRun, Reading
<1>3. ASSUME ok PROVE ParseOK(r.now.m, r.now.loc, c, todo - 1, last)
  <2>1. PICK m, l, m2, l2, n, k : m = mod /\ l = loc /\ m2 = r.now.m /\ l2 = r.now.loc /\ n = todo /\ k = last
    OBVIOUS
  <2>2. /\ IsModule(m) /\ ParseOK(m, l, c, n, k) /\ IsNext(m, a, i) /\ CountedIn(m2, m, a, i, e) /\ LocalsOK(l2, c)
        /\ n \in Nat /\ n > 0
    BY <1>1, <1>2, <2>1
  <2>3. (c = "export" /\ e.kind = "func") => e.i \in Nat /\ e.i < Limit(m, "func")
    BY <1>3, <2>1
  <2>4. ParseOK(m2, l2, c, n - 1, k)
    BY <2>2, <2>3, EntryShape
  <2> QED BY <2>1, <2>4
<1> QED BY <1>2, <1>3, ReadIInv DEF Parsing

LEMMA LocalsOKNone ==
    ASSUME NEW l, NEW c, c # "import", c # "code"
    PROVE  LocalsOK(l, c) <=> l = NoLocals
BY DEF LocalsOK

LEMMA ParsingLocals ==
    ASSUME IInv, NEW c, Parsing(c), c # "import", c # "code"
    PROVE  loc = NoLocals
BY LocalsOKNone DEF IInv, Parsing, ParseOK

LEMMA TableStep ==
    ASSUME IInv, ParseTable
    PROVE  IInv'
<1>1. PICK x, i, ok : Read("table", TableRun(x), ok) /\ i = mod.cnt["tables"] + 1
  BY DEF ParseTable
<1>2. Parsing("table") /\ todo > 0 /\ "table" \in EntrySections /\ "tables" = ArrayOf["table"] /\ i = mod.cnt["tables"] + 1
  BY <1>1, SectionFacts DEF ParseTable, EntrySections
<1>3. CanRead(St, "tables", i)
  BY <1>2, CanReadSt
<1>4. HasRead(TableRun(x), St, "tables", TableEntry(x), loc)
  BY <1>2, <1>3, TableRead
<1>5. ReadRun(TableRun(x), mod, "tables", i, TableEntry(x)) /\ TableRun(x).now.loc = NoLocals
  BY <1>2, <1>4, StFields, ParsingLocals DEF HasRead
<1>6. LocalsOK(TableRun(x).now.loc, "table")
  BY <1>5, LocalsOKNone
<1> QED BY <1>1, <1>2, <1>5, <1>6, EntryIInv

LEMMA GlobalStep ==
    ASSUME IInv, ParseGlobal
    PROVE  IInv'
<1>1. PICK x, mut, i, ok : Read("global", GlobalRun(x, mut), ok) /\ i = mod.cnt["globals"] + 1
  BY DEF ParseGlobal
<1>2. Parsing("global") /\ todo > 0 /\ "global" \in EntrySections /\ "globals" = ArrayOf["global"] /\ i = mod.cnt["globals"] + 1
  BY <1>1, SectionFacts DEF ParseGlobal, EntrySections
<1>3. CanRead(St, "globals", i)
  BY <1>2, CanReadSt
<1>4. HasRead(GlobalRun(x, mut), St, "globals", GlobalEntry(x, mut), loc)
  BY <1>2, <1>3, GlobalRead
<1>5. ReadRun(GlobalRun(x, mut), mod, "globals", i, GlobalEntry(x, mut)) /\ GlobalRun(x, mut).now.loc = NoLocals
  BY <1>2, <1>4, StFields, ParsingLocals DEF HasRead
<1>6. LocalsOK(GlobalRun(x, mut).now.loc, "global")
  BY <1>5, LocalsOKNone
<1> QED BY <1>1, <1>2, <1>5, <1>6, EntryIInv

LEMMA ExportStep ==
    ASSUME IInv, ParseExport
    PROVE  IInv'
<1>1. PICK name \in Names, kind \in Kinds, x \in Index : Read("export", ExportRun(name, kind, x), x < Limit(mod, kind))
  BY DEF ParseExport
<1>a. PICK ok : ok = (x < Limit(mod, kind))
  OBVIOUS
<1>b. Read("export", ExportRun(name, kind, x), ok)
  BY <1>1, <1>a
<1>c. PICK i : i = mod.cnt["exports"] + 1
  OBVIOUS
<1>2. Parsing("export") /\ todo > 0 /\ "export" \in EntrySections /\ "exports" = ArrayOf["export"] /\ i = mod.cnt["exports"] + 1
  BY <1>c, SectionFacts DEF ParseExport, EntrySections
<1>3. CanRead(St, "exports", i)
  BY <1>2, CanReadSt
<1>4. HasRead(ExportRun(name, kind, x), St, "exports", Export(name, kind, x), loc)
  BY <1>2, <1>3, ExportRead
<1>5. /\ ReadRun(ExportRun(name, kind, x), mod, "exports", i, Export(name, kind, x))
      /\ ExportRun(name, kind, x).now.loc = NoLocals
  BY <1>2, <1>4, StFields, ParsingLocals DEF HasRead
<1>6. LocalsOK(ExportRun(name, kind, x).now.loc, "export")
  BY <1>5, LocalsOKNone
<1>7. PICK e : e = Export(name, kind, x)
  OBVIOUS
<1>8. (ok /\ e.kind = "func") => e.i \in Nat /\ e.i < Limit(mod, "func")
  <2>1. e.i = x /\ e.kind = kind
    BY <1>7 DEF Export
  <2>2. x \in Nat
    BY ModuleLifeAssumption DEF Index
  <2>3. ASSUME ok, e.kind = "func" PROVE e.i < Limit(mod, "func")
    BY <1>a, <2>1, <2>3
  <2> QED BY <2>1, <2>2, <2>3
<1>9. ReadRun(ExportRun(name, kind, x), mod, "exports", i, e)
  BY <1>5, <1>7
<1> QED BY <1>b, <1>2, <1>6, <1>8, <1>9, EntryIInv

LEMMA ElementStep ==
    ASSUME IInv, ParseElement
    PROVE  IInv'
<1>1. PICK e, i, ok : Read("element", ElementRun(e), ok) /\ i = mod.cnt["element_segments"] + 1
  BY DEF ParseElement
<1>2. /\ Parsing("element") /\ todo > 0 /\ "element" \in EntrySections /\ "element_segments" = ArrayOf["element"]
      /\ i = mod.cnt["element_segments"] + 1 /\ loc = NoLocals
  BY <1>1, SectionFacts, ParsingLocals DEF ParseElement, EntrySections
<1>3. CanRead(St, "element_segments", i)
  BY <1>2, CanReadSt
<1>4. HasRead(ElementRun(e), St, "element_segments", e, loc)
  BY <1>2, <1>3, ElementRead
<1>5. ReadRun(ElementRun(e), mod, "element_segments", i, e) /\ ElementRun(e).now.loc = NoLocals
  BY <1>2, <1>4, StFields DEF HasRead
<1>6. LocalsOK(ElementRun(e).now.loc, "element")
  BY <1>5, LocalsOKNone
<1> QED BY <1>1, <1>2, <1>5, <1>6, EntryIInv

LEMMA DataStep ==
    ASSUME IInv, ParseData
    PROVE  IInv'
<1>1. PICK e, i, ok : Read("data", DataRun(e), ok) /\ i = mod.cnt["data_segments"] + 1
  BY DEF ParseData
<1>2. /\ Parsing("data") /\ todo > 0 /\ "data" \in EntrySections /\ "data_segments" = ArrayOf["data"]
      /\ i = mod.cnt["data_segments"] + 1
  BY <1>1, SectionFacts DEF ParseData, EntrySections
<1>3. CanRead(St, "data_segments", i)
  BY <1>2, CanReadSt
<1>4. HasRead(DataRun(e), St, "data_segments", e, loc)
  BY <1>2, <1>3, DataRead
<1>5. ReadRun(DataRun(e), mod, "data_segments", i, e) /\ DataRun(e).now.loc = NoLocals
  BY <1>2, <1>4, StFields, ParsingLocals DEF HasRead
<1>6. LocalsOK(DataRun(e).now.loc, "data")
  BY <1>5, LocalsOKNone
<1> QED BY <1>1, <1>2, <1>5, <1>6, EntryIInv

\* Only fields that are no arrays differ.
SameShape(m2, m) == IsModule(m2) /\ SameArrays(m2, m) /\ m2.types_cap = m.types_cap

LEMMA FitSame ==
    ASSUME NEW m, NEW m2, SameShape(m2, m), Fit(m)
    PROVE  Fit(m2) /\ Limit(m2, "func") = Limit(m, "func")
<1>1. m2.cnt = m.cnt /\ m2.ptr = m.ptr /\ m2.cap = m.cap /\ m2.types_cap = m.types_cap
  BY DEF SameShape, SameArrays
<1>2. FreedEntries(m2) = FreedEntries(m)
  BY <1>1 DEF FreedEntries
<1>3. Limit(m2, "func") = Limit(m, "func")
  BY <1>1 DEF Limit
<1> QED BY <1>1, <1>2, <1>3 DEF Fit, Counted0, TypesFit, ReprsFit, DeclaredFit

LEMMA ParseOKSame ==
    ASSUME NEW m, NEW m2, SameShape(m2, m), NEW l, NEW c, NEW n, NEW k, ParseOK(m, l, c, n, k)
    PROVE  ParseOK(m2, l, c, n, k)
<1>1. m2.cnt = m.cnt /\ m2.ptr = m.ptr /\ m2.cap = m.cap /\ m2.ent = m.ent
  BY DEF SameShape, SameArrays
<1>2. Fit(m2) /\ Limit(m2, "func") = Limit(m, "func")
  BY FitSame DEF ParseOK
<1>3. Ahead(m2, c, k)
  BY <1>1 DEF ParseOK, Ahead, NoArray
<1>4. Room(m2, c, n)
  BY <1>1 DEF ParseOK, Room
<1>5. ExportsBelow(m2, Limit(m2, "func"))
  BY <1>1, <1>2 DEF ParseOK, ExportsBelow
<1>6. k < 8 \/ c = "export" \/ OrderFits(m2)
  BY <1>1 DEF ParseOK, OrderFits
<1> QED BY <1>2, <1>3, <1>4, <1>5, <1>6 DEF ParseOK

LEMMA SoundSameShape ==
    ASSUME NEW st, Sound(st), NEW t, NEW m2, t = [m |-> m2, loc |-> st.loc, h |-> st.h], SameShape(m2, st.m)
    PROVE  Sound(t)
<1>1. t.m = m2 /\ t.loc = st.loc /\ t.h = st.h
  OBVIOUS
<1>2. IsState(t)
  BY <1>1 DEF Sound, IsState, SameShape
<1>3. KeptModule(m2) /\ \A b : InModule(m2, b) <=> InModule(st.m, b)
  BY SameModule DEF Sound, SameShape
<1> QED BY <1>1, <1>2, <1>3, SoundSame

LEMMA CodeStep ==
    ASSUME IInv, ParseCode
    PROVE  IInv'
<1>1. PICK e \in BodyUses :
         \/ /\ Now([CodeRun(e).now EXCEPT !.m.min_data_segment_count_required = Requires(mod, e)])
            /\ todo' = todo - 1 /\ spent' = spent + 1 /\ UNCHANGED <<phase, cur, last>>
         \/ \E st \in Stops(CodeRun(e)) : Abort(Cleanup("code", st))
  BY DEF ParseCode
<1>2. PICK i, r : i = mod.cnt["code_bodies"] + 1 /\ r = CodeRun(e)
  OBVIOUS
<1>3. /\ Parsing("code") /\ todo > 0 /\ "code" \in EntrySections /\ "code_bodies" = ArrayOf["code"]
      /\ i = mod.cnt["code_bodies"] + 1
  BY <1>2, SectionFacts DEF ParseCode, EntrySections
<1>4. CanRead(St, "code_bodies", i) /\ IsNext(mod, "code_bodies", i) /\ IsModule(mod) /\ ParseOK(mod, loc, "code", todo, last) /\ todo \in Nat
  BY <1>3, CanReadSt
<1>5. CodeLocals(loc)
  BY <1>4 DEF ParseOK, LocalsOK
<1>6. ReadRun(r, mod, "code_bodies", i, e) /\ CodeLocals(r.now.loc)
  BY <1>2, <1>4, <1>5, CodeRead
<1>7. SafeRead(r) /\ CountedIn(r.now.m, mod, "code_bodies", i, e) /\ LocalsOK(r.now.loc, "code")
  BY <1>6 DEF ReadRun, Reading, LocalsOK
<1>8. CASE /\ Now([r.now EXCEPT !.m.min_data_segment_count_required = Requires(mod, e)])
           /\ todo' = todo - 1 /\ spent' = spent + 1 /\ UNCHANGED <<phase, cur, last>>
  <2>1. PICK t, m2, q : /\ t = [r.now EXCEPT !.m.min_data_segment_count_required = Requires(mod, e)]
                        /\ q = r.now
                        /\ m2 = [q.m EXCEPT !.min_data_segment_count_required = Requires(mod, e)]
    OBVIOUS
  <2>2. Sound(q) /\ IsState(q) /\ IsModule(q.m)
    BY <1>7, <2>1 DEF SafeRead, Stops, Sound, IsState
  <2>3. t = [m |-> m2, loc |-> q.loc, h |-> q.h]
    BY <2>1, <2>2 DEF IsState
  <2>4. SameShape(m2, q.m)
    <3>1. /\ SameArrays(m2, q.m) /\ m2.types_cap = q.m.types_cap
          /\ m2 = [cnt |-> m2.cnt, ptr |-> m2.ptr, cap |-> m2.cap, own |-> m2.own, ent |-> m2.ent,
                   types_cap |-> m2.types_cap, declared |-> m2.declared, start |-> m2.start,
                   has_data_count_section |-> m2.has_data_count_section,
                   min_data_segment_count_required |-> m2.min_data_segment_count_required]
      BY <2>1, <2>2 DEF IsModule, SameArrays
    <3>2. Laid(m2, Arrays)
      BY <2>2, <3>1, LaidSame DEF IsModule, SameArrays
    <3>3. m2.types_cap \in Nat
      BY <2>2, <3>1 DEF IsModule
    <3> QED BY <3>1, <3>2, <3>3 DEF SameShape, IsModule
  <2>5. Sound(t)
    BY <2>2, <2>3, <2>4, SoundSameShape
  <2>6. ParseOK(q.m, q.loc, "code", todo - 1, last)
    <3>1. PICK m, l, m3, l2, n, k : m = mod /\ l = loc /\ m3 = q.m /\ l2 = q.loc /\ n = todo /\ k = last
      OBVIOUS
    <3>2. /\ IsModule(m) /\ ParseOK(m, l, "code", n, k) /\ IsNext(m, "code_bodies", i) /\ n \in Nat /\ n > 0
          /\ CountedIn(m3, m, "code_bodies", i, e) /\ LocalsOK(l2, "code")
      BY <1>3, <1>4, <1>7, <2>1, <3>1
    <3>3. ParseOK(m3, l2, "code", n - 1, k)
      BY <1>3, <3>2, EntryShape
    <3> QED BY <3>1, <3>3
  <2>7. ParseOK(t.m, t.loc, "code", todo - 1, last)
    BY <2>3, <2>4, <2>6, ParseOKSame
  <2>8. phase' = "parsing" /\ cur' = "code" /\ todo' = todo - 1 /\ last' = last /\ spent' = spent + 1 /\ Now(t)
    BY <1>3, <1>8, <2>1 DEF Parsing
  <2>9. cur' \in DOMAIN ArrayOf \cup {"none"} /\ todo' \in Nat /\ last' \in 0..13 /\ spent' \in Nat
    BY <1>3, <1>4, <2>8, SectionFacts DEF IInv
  <2>10. ParseOK(t.m, t.loc, cur', todo', last')
    BY <2>7, <2>8
  <2> QED BY <2>5, <2>8, <2>9, <2>10, ParsingStep
<1>9. CASE \E st \in Stops(r) : Abort(Cleanup("code", st))
  <2>1. PICK st \in Stops(r) : Abort(Cleanup("code", st))
    BY <1>9
  <2>2. Sound(st)
    BY <1>7 DEF SafeRead
  <2> QED BY <2>1, <2>2, AbortCleanup
<1> QED BY <1>1, <1>2, <1>8, <1>9

\* The same counts, pointers and capacities, and the same exports.
Like(m2, m) ==
    /\ \A d \in Arrays : m2.cnt[d] = m.cnt[d] /\ m2.ptr[d] = m.ptr[d] /\ m2.cap[d] = m.cap[d]
    /\ m2.ent["exports"] = m.ent["exports"] /\ m2.types_cap = m.types_cap

LEMMA FitLike ==
    ASSUME NEW m, NEW m2, Like(m2, m), Fit(m)
    PROVE  Fit(m2) /\ Limit(m2, "func") = Limit(m, "func")
<1>1. Limit(m2, "func") = Limit(m, "func")
  BY OtherArraysFacts DEF Limit, Like, ImportsOf, DefinedIn
<1>2. Counted0(m2)
  <2>1. ASSUME NEW d \in Growing, m2.ptr[d] = {} PROVE FreedEntries(m2)[d] = 0
    <3>1. d \in Arrays
      BY OtherArraysFacts
    <3>2. m.ptr[d] = {}
      BY <2>1, <3>1 DEF Like
    <3>3. Freed(m, d) = 0
      BY <3>2 DEF Fit, Counted0, Freed
    <3>4. Freed(m2, d) = Freed(m, d)
      BY <3>1, FreedFacts, OtherArraysFacts DEF Like
    <3> QED BY <3>3, <3>4 DEF Freed
  <2> QED BY <2>1 DEF Counted0
<1>3. TypesFit(m2)
  <2>1. "types" \in Arrays /\ "type_defs" \in Arrays /\ "typeidx_to_repr" \in Arrays /\ "canonical_map" \in Arrays
    BY DEF Arrays, FlatArrays
  <2> QED BY <2>1 DEF Fit, TypesFit, Like
<1>4. ReprsFit(m2)
  BY DEF Fit, ReprsFit, Like, Arrays
<1>5. DeclaredFit(m2)
  BY <1>1 DEF Fit, DeclaredFit, Like, Arrays, FlatArrays
<1> QED BY <1>1, <1>2, <1>3, <1>4, <1>5 DEF Fit

LEMMA ParseOKLike ==
    ASSUME NEW m, NEW m2, Like(m2, m), NEW l, NEW c \in DOMAIN ArrayOf \cup {"none"}, NEW n, NEW k, ParseOK(m, l, c, n, k),
           NEW n2, Room(m, c, n2)
    PROVE  ParseOK(m2, l, c, n2, k)
<1>1. Fit(m2) /\ Limit(m2, "func") = Limit(m, "func")
  BY FitLike DEF ParseOK
<1>2. Ahead(m2, c, k)
  <2>1. ASSUME NEW s \in DOMAIN ArrayOf, k < Order[s]
        PROVE  m2.ptr[ArrayOf[s]] = {} /\ (s # "data" => m2.cnt[ArrayOf[s]] = 0)
    <3>1. ArrayOf[s] \in Arrays
      BY SectionArrays
    <3> QED BY <2>1, <3>1 DEF ParseOK, Ahead, Like
  <2>2. \A a \in OtherArrays : m2.ptr[a] = m.ptr[a] /\ m2.cnt[a] = m.cnt[a]
    BY OtherArraysFacts DEF Like
  <2>3. "type_defs" \in OtherArrays /\ "declared_funcs" \in OtherArrays /\ "export_order" \in OtherArrays
        /\ "functions" \in OtherArrays
    BY DEF OtherArrays
  <2> QED BY <2>1, <2>2, <2>3, OtherArraysFacts DEF ParseOK, Ahead, NoArray
<1>3. Room(m2, c, n2)
  <2>1. c # "none" => ArrayOf[c] \in Arrays
    BY SectionArrays
  <2> QED BY <2>1 DEF Room, Like
<1>4. ExportsBelow(m2, Limit(m2, "func"))
  BY <1>1, OtherArraysFacts DEF ParseOK, ExportsBelow, Like
<1>5. k < 8 \/ c = "export" \/ OrderFits(m2)
  BY DEF ParseOK, OrderFits, Like, Arrays, FlatArrays
<1> QED BY <1>1, <1>2, <1>3, <1>4, <1>5 DEF ParseOK

PlainSections == {"function", "memory", "tag"}

LEMMA PlainStep ==
    ASSUME IInv, NEW s \in PlainSections, Parsing(s), todo > 0, NEW e, NEW ok, Read(s, Plain(s, e), ok)
    PROVE  IInv'
<1>1. PICK a, i, r : a = ArrayOf[s] /\ i = mod.cap[a] - todo + 1 /\ r = Start(St) ++ Begin(a, i, e, 0)
  OBVIOUS
<1>2. Read(s, r, ok)
  BY <1>1 DEF Plain
<1>3. a \in FlatArrays /\ a \in Arrays /\ a # "functions" /\ a # "exports" /\ a \notin ImportArrays /\ a # "type_defs" /\ s \in DOMAIN ArrayOf
      /\ s # "import" /\ s # "code"
  BY <1>1, SectionFacts DEF PlainSections, FlatArrays, ImportArrays, Arrays
<1>4. Sound(St) /\ todo \in Nat /\ ParseOK(mod, loc, s, todo, last) /\ IsModule(mod) /\ IsState(St)
  BY StFields DEF IInv, Parsing, Sound, IsState
<1>5. mod.cap[a] \in Nat /\ mod.cnt \in [Arrays -> Nat] /\ DOMAIN mod.ent = Arrays
  BY <1>3, <1>4 DEF IsModule, Laid
<1>6. todo <= mod.cap[a]
  BY <1>1, <1>4 DEF ParseOK, Room, PlainSections
<1>7. i \in 1..mod.cap[a]
  BY <1>1, <1>4, <1>5, <1>6
<1>8. PICK t : t = Step(St, Begin(a, i, e, 0))
  OBVIOUS
<1>9. r.now = t /\ Stops(r) = {St, t}
  BY <1>1, <1>8, RunFacts, StartFacts
<1>10. Sound(t)
  <2>1. CanBegin(mod, a, i, 0)
    BY <1>3, <1>7 DEF CanBegin
  <2>2. CanBegin(St.m, a, i, 0)
    BY <2>1, StFields
  <2> QED BY <1>4, <1>8, <2>2, BeginSound
<1>11. /\ t.loc = loc /\ t.m.cnt = Bump(mod.cnt, a, 0) /\ t.m.ptr = mod.ptr /\ t.m.cap = mod.cap
       /\ t.m.ent = Put(mod.ent, a, Put(mod.ent[a], i, e)) /\ t.m.types_cap = mod.types_cap
  <2>1. i \in 1..St.m.cap[a] /\ 0 \in {0, 1}
    BY <1>7, StFields
  <2>2. /\ t.loc = St.loc /\ t.m.cnt = Bump(St.m.cnt, a, 0) /\ t.m.ptr = St.m.ptr /\ t.m.cap = St.m.cap
        /\ t.m.ent = Put(St.m.ent, a, Put(St.m.ent[a], i, e)) /\ SameRest(t.m, St.m)
    BY <1>3, <1>4, <1>8, <2>1, BeginFields
  <2> QED BY <2>2, StFields DEF SameRest
<1>12. Like(t.m, mod)
  <2>1. \A d \in Arrays : t.m.cnt[d] = mod.cnt[d]
    BY <1>3, <1>5, <1>11 DEF Bump
  <2>2. t.m.ent["exports"] = mod.ent["exports"]
    BY <1>3, <1>5, <1>11, OtherArraysFacts DEF Put
  <2> QED BY <1>11, <2>1, <2>2 DEF Like
<1>13. Room(mod, s, todo - 1)
  <2>1. a = ArrayOf[s]
    BY <1>1
  <2>2. todo - 1 <= mod.cap[a]
    BY <1>4, <1>5, <1>6
  <2>3. s \notin {"table", "global", "export", "element", "code"} /\ s # "data"
    BY DEF PlainSections
  <2> QED BY <2>1, <2>2, <2>3 DEF Room
<1>14. ParseOK(t.m, loc, s, todo - 1, last)
  <2>1. s \in DOMAIN ArrayOf \cup {"none"}
    BY <1>3
  <2>2. PICK m, l, n, n2, k : m = mod /\ l = loc /\ n = todo /\ n2 = todo - 1 /\ k = last
    OBVIOUS
  <2>3. Like(t.m, m) /\ ParseOK(m, l, s, n, k) /\ Room(m, s, n2)
    BY <1>4, <1>12, <1>13, <2>2
  <2>4. ParseOK(t.m, l, s, n2, k)
    BY <2>1, <2>3, ParseOKLike
  <2> QED BY <2>2, <2>4
<1>15. SafeRead(r)
  <2>1. mod.ptr["functions"] = {}
    BY <1>4 DEF ParseOK, Ahead, NoArray
  <2> QED BY <1>4, <1>9, <1>10, <1>11, <2>1, StFields DEF SafeRead
<1>16. ParseOK(r.now.m, r.now.loc, s, todo - 1, last)
  BY <1>9, <1>11, <1>14
<1> QED BY <1>2, <1>15, <1>16, ReadIInv DEF Parsing

LEMMA FunctionStep ==
    ASSUME IInv, ParseFunction \/ ParseMemory \/ ParseTag
    PROVE  IInv'
<1>1. CASE ParseFunction
  <2>1. PICK e, ok : Read("function", Plain("function", e), ok)
    BY <1>1 DEF ParseFunction
  <2>2. "function" \in PlainSections /\ Parsing("function") /\ todo > 0
    BY <1>1 DEF ParseFunction, PlainSections
  <2> QED BY <2>1, <2>2, PlainStep
<1>2. CASE ParseMemory
  <2>1. PICK e, ok : Read("memory", Plain("memory", e), ok)
    BY <1>2 DEF ParseMemory
  <2>2. "memory" \in PlainSections /\ Parsing("memory") /\ todo > 0
    BY <1>2 DEF ParseMemory, PlainSections
  <2> QED BY <2>1, <2>2, PlainStep
<1>3. CASE ParseTag
  <2>1. PICK e, ok : Read("tag", Plain("tag", e), ok)
    BY <1>3 DEF ParseTag
  <2>2. "tag" \in PlainSections /\ Parsing("tag") /\ todo > 0
    BY <1>3 DEF ParseTag, PlainSections
  <2> QED BY <2>1, <2>2, PlainStep
<1> QED BY <1>1, <1>2, <1>3

LEMMA ImportKind ==
    ASSUME NEW e \in ImportEntries
    PROVE  ImportsOf[e.k] \in ImportArrays
<1>1. e.k \in Kinds
  BY DEF ImportEntries, Kinds
<1> QED BY <1>1 DEF ImportsOf, ImportArrays, Kinds

ImportFrom(st, a, e) ==
    LET i == st.loc.cnt[a] + 1
        cap == Grown(st.loc.cap[a], i)
        named == Start(st) ++ ForLocal(Block(a, i, "module")) ++ ForLocal(Block(a, i, "field"))
    IN  When(named, cap # st.loc.cap[a], ResizeImports(a, cap))
        ++ Store(a, i, {Block(a, i, "module"), Block(a, i, "field")}, e)

LEMMA ImportRead ==
    ASSUME NEW st, Sound(st), NEW a \in ImportArrays, st.m.ptr[a] = {}, LocalsOK(st.loc, "import"),
           st.m.ptr["functions"] = {}, NEW e, NEW r, r = ImportFrom(st, a, e)
    PROVE  SafeRead(r) /\ r.now.m = st.m /\ LocalsOK(r.now.loc, "import")
<1>0. SUFFICES ASSUME NEW i, i = st.loc.cnt[a] + 1, NEW cap, cap = Grown(st.loc.cap[a], i),
                      NEW x, x = Block(a, i, "module"), NEW y, y = Block(a, i, "field"), NEW o, o = {x, y},
                      r = When(Start(st) ++ ForLocal(x) ++ ForLocal(y), cap # st.loc.cap[a], ResizeImports(a, cap))
                          ++ Store(a, i, o, e)
               PROVE  SafeRead(r) /\ r.now.m = st.m /\ LocalsOK(r.now.loc, "import")
  BY DEF ImportFrom
<1>1. /\ IsState(st) /\ IsLocals(st.loc) /\ KeptLocal(st.loc) /\ st.loc.held = {}
      /\ \A d \in ImportArrays : st.loc.ptr[d] = {} => st.loc.cnt[d] = 0
  BY DEF Sound, IsState, LocalsOK
<1>2. st.loc.cnt[a] \in Nat /\ st.loc.cap[a] \in Nat /\ i \in Nat /\ i # 0 /\ st.loc.cnt[a] < i
  <2>1. st.loc.cnt \in [ImportArrays -> Nat] /\ st.loc.cap \in [ImportArrays -> Nat]
    BY <1>1 DEF IsLocals, Laid
  <2>2. st.loc.cnt[a] \in Nat /\ st.loc.cap[a] \in Nat
    BY <2>1
  <2> QED BY <1>0, <2>2
<1>3. cap \in Nat /\ cap >= i /\ cap >= st.loc.cap[a]
  BY <1>0, <1>2, GrownFacts
<1>4. x \notin st.h.live /\ y \notin st.h.live /\ ArrayBlock(a) # x /\ ArrayBlock(a) # y /\ x # y
      /\ x[1] = a /\ y[1] = a /\ x[2] = i /\ y[2] = i
  <2>1. x[1] = a /\ y[1] = a /\ x[2] = i /\ y[2] = i /\ x # y
    BY <1>0, BlockFacts
  <2>2. ArrayBlock(a)[2] = 0
    BY ArrayBlockFacts
  <2>3. ArrayBlock(a) # x /\ ArrayBlock(a) # y
    BY <1>2, <2>1, <2>2
  <2>4. i \notin 1..st.loc.cnt[a]
    BY <1>2
  <2>5. ~InModule(st.m, x) /\ ~InModule(st.m, y)
    BY <2>1 DEF InModule
  <2>6. ~InLocal(st.loc, x) /\ ~InLocal(st.loc, y)
    BY <2>1, <2>3, <2>4 DEF InLocal
  <2> QED BY <1>1, <2>1, <2>3, <2>5, <2>6 DEF Sound
<1>5. PICK s1, s2, r1, r2, r3, s3, s4 :
        /\ s1 = Step(st, ForLocal(x)) /\ s2 = Step(s1, ForLocal(y))
        /\ r1 = Start(st) ++ ForLocal(x) /\ r2 = r1 ++ ForLocal(y)
        /\ r3 = When(r2, cap # st.loc.cap[a], ResizeImports(a, cap)) /\ s3 = r3.now /\ s4 = Step(s3, Store(a, i, o, e))
  OBVIOUS
<1>6. /\ Sound(s1) /\ s1.loc.held = {x} /\ SameArrays(s1.loc, st.loc) /\ s1.m = st.m /\ HeapMore(s1.h, st.h, x)
  <2>1. s1 = Step(st, ForLocal(x))
    BY <1>5
  <2>2. s1.loc.held = st.loc.held \cup {x} /\ SameArrays(s1.loc, st.loc) /\ s1.m = st.m /\ HeapMore(s1.h, st.h, x)
    BY <1>1, <2>1, LocalFields
  <2>3. Sound(s1)
    BY <1>4, <2>1, LocalSound
  <2> QED BY <1>1, <2>2, <2>3
<1>7. /\ Sound(s2) /\ s2.loc.held = {x, y} /\ SameArrays(s2.loc, st.loc) /\ s2.m = st.m
  <2>1. s2 = Step(s1, ForLocal(y))
    BY <1>5
  <2>2. y \notin s1.h.live
    BY <1>4, <1>6 DEF HeapMore
  <2>3. s2.loc.held = s1.loc.held \cup {y} /\ SameArrays(s2.loc, s1.loc) /\ s2.m = s1.m
    BY <1>6, <2>1, LocalFields DEF Sound
  <2>4. Sound(s2)
    BY <1>6, <2>1, <2>2, LocalSound
  <2>5. SameArrays(s2.loc, st.loc)
    BY <1>6, <2>3, SameArraysTrans
  <2> QED BY <1>6, <2>3, <2>4, <2>5
<1>8. r2.now = s2 /\ Stops(r2) = {st, s1, s2}
  BY <1>5, RunFacts, StartFacts
<1>9. /\ SafeRead(r2) /\ Sound(s2)
  BY <1>6, <1>7, <1>8 DEF SafeRead
<1>10. /\ SafeRead(r3) /\ Sound(s3) /\ s3.m = st.m /\ s3.loc.held = {x, y} /\ s3.loc.cnt = st.loc.cnt /\ s3.loc.ptr[a] # {}
       /\ i <= s3.loc.cap[a] /\ \A d \in ImportArrays : d # a => s3.loc.ptr[d] = st.loc.ptr[d]
  <2>1. CASE cap # st.loc.cap[a]
    <3>1. r3 = r2 ++ ResizeImports(a, cap)
      BY <1>5, <2>1 DEF When
    <3>2. s3 = Step(s2, ResizeImports(a, cap)) /\ Stops(r3) = Stops(r2) \cup {s3}
      <4>1. s3 = r3.now
        BY <1>5
      <4> QED BY <1>8, <3>1, <4>1 DEF ++, Stops
    <3>3. s2.loc.cnt[a] <= cap /\ (s2.loc.ptr[a] = {} => s2.loc.cnt[a] = 0 /\ ArrayBlock(a) \notin s2.h.live)
      <4>1. s2.loc.cnt = st.loc.cnt /\ s2.loc.ptr = st.loc.ptr
        BY <1>7 DEF SameArrays
      <4>2. s2.loc.cnt[a] <= cap
        BY <1>2, <1>3, <4>1
      <4>3. ASSUME s2.loc.ptr[a] = {} PROVE ArrayBlock(a) \notin s2.h.live
        <5>1. ArrayBlock(a)[1] = a
          BY ArrayBlockFacts
        <5>2. ~InModule(s2.m, ArrayBlock(a)) /\ ~InLocal(s2.loc, ArrayBlock(a))
          BY <1>7, <4>3, <5>1 DEF InModule, InLocal
        <5>3. ArrayBlock(a) \notin s2.loc.held
          BY <1>4, <1>7
        <5> QED BY <1>7, <5>2, <5>3 DEF Sound
      <4> QED BY <1>1, <4>1, <4>2, <4>3
    <3>4. Sound(s3)
      BY <1>3, <1>7, <3>2, <3>3, ResizeImportsSound
    <3>5. /\ s3.m = s2.m /\ s3.loc.held = s2.loc.held /\ s3.loc.cnt = s2.loc.cnt
          /\ s3.loc.ptr = Put(s2.loc.ptr, a, Pointer(a)) /\ s3.loc.cap = Put(s2.loc.cap, a, cap)
      BY <1>3, <1>7, <3>2, ResizeImportsFields DEF Sound
    <3>6. s2.loc.ptr = st.loc.ptr /\ s2.loc.cnt = st.loc.cnt /\ DOMAIN s2.loc.ptr = ImportArrays /\ DOMAIN s2.loc.cap = ImportArrays
      <4>1. IsLocals(s2.loc)
        BY <1>7 DEF Sound, IsState
      <4> QED BY <1>7, <4>1 DEF SameArrays, IsLocals, Laid
    <3>7. s3.loc.ptr[a] = Pointer(a) /\ s3.loc.cap[a] = cap /\ \A d \in ImportArrays : d # a => s3.loc.ptr[d] = st.loc.ptr[d]
      BY <3>5, <3>6 DEF Put
    <3>8. Pointer(a) # {}
      BY DEF Pointer
    <3>9. SafeRead(r3)
      BY <1>7, <1>9, <3>2, <3>4, <3>5 DEF SafeRead
    <3>10. i <= s3.loc.cap[a]
      BY <1>2, <1>3, <3>7
    <3> QED BY <1>7, <3>4, <3>5, <3>6, <3>7, <3>8, <3>9, <3>10
  <2>2. CASE cap = st.loc.cap[a]
    <3>1. r3 = r2 /\ s3 = s2
      BY <1>5, <1>8, <2>2 DEF When
    <3>2. s2.loc.cnt = st.loc.cnt /\ s2.loc.ptr = st.loc.ptr /\ s2.loc.cap = st.loc.cap
      BY <1>7 DEF SameArrays
    <3>3. st.loc.cap[a] # 0 /\ i <= st.loc.cap[a]
      BY <1>2, <1>3, <2>2
    <3>4. st.loc.ptr[a] # {}
      BY <1>1, <3>3 DEF IsLocals, Laid
    <3> QED BY <1>7, <1>9, <3>1, <3>2, <3>3, <3>4
  <2> QED BY <2>1, <2>2
<1>11. s4 = Step(s3, Store(a, i, o, e)) /\ r.now = s4 /\ Stops(r) = Stops(r3) \cup {s4}
  <2>1. r = r3 ++ Store(a, i, o, e)
    BY <1>0, <1>5
  <2>2. s3 = r3.now /\ s4 = Step(s3, Store(a, i, o, e))
    BY <1>5
  <2>3. PICK g : g = Store(a, i, o, e)
    OBVIOUS
  <2>4. PICK q : q = r3 ++ g
    OBVIOUS
  <2>5. q.now = Step(r3.now, g) /\ Stops(q) = Stops(r3) \cup {Step(r3.now, g)}
    BY <2>4, RunFacts
  <2>6. r = q
    BY <2>1, <2>3, <2>4
  <2>7. s3 = r3.now /\ s4 = Step(s3, g)
    BY <2>2, <2>3
  <2>8. q.now = s4 /\ Stops(q) = Stops(r3) \cup {s4}
    BY <2>5, <2>7
  <2> QED BY <2>2, <2>6, <2>8
<1>12. Sound(s4) /\ s4.m = s3.m /\ s4.loc.held = s3.loc.held \ o /\ s4.loc.cnt = Succ(s3.loc.cnt, a) /\ s4.loc.ptr = s3.loc.ptr
  <2>1. s4 = Step(s3, Store(a, i, o, e))
    BY <1>11
  <2>2. s4.m = s3.m /\ s4.loc.held = s3.loc.held \ o /\ s4.loc.cnt = Succ(s3.loc.cnt, a) /\ s4.loc.ptr = s3.loc.ptr
    BY <1>10, <2>1, StoreFields DEF Sound
  <2>3. /\ (\A b \in o : b[1] = a /\ b[2] = i) /\ o \subseteq s3.loc.held
    BY <1>0, <1>4, <1>10
  <2>4. s3.loc.cnt[a] < i /\ i <= s3.loc.cnt[a] + 1
    BY <1>0, <1>2, <1>10
  <2>5. Sound(s4)
    <3>1. PICK j, oo : j = i /\ oo = o
      OBVIOUS
    <3>2. /\ (\A b \in oo : b[1] = a /\ b[2] = j) /\ oo \subseteq s3.loc.held /\ s3.loc.cnt[a] < j /\ j <= s3.loc.cnt[a] + 1
          /\ j <= s3.loc.cap[a] /\ j \in Nat /\ s4 = Step(s3, Store(a, j, oo, e))
      BY <1>2, <1>10, <2>1, <2>3, <2>4, <3>1
    <3> QED BY <1>10, <3>2, StoreSound
  <2> QED BY <2>2, <2>5
<1>13. LocalsOK(s4.loc, "import")
  <2>1. s4.loc.held = {}
    BY <1>0, <1>10, <1>12
  <2>2. ASSUME NEW d \in ImportArrays, s4.loc.ptr[d] = {} PROVE s4.loc.cnt[d] = 0
    <3>1. d # a
      BY <1>10, <1>12, <2>2
    <3>2. st.loc.cnt \in [ImportArrays -> Nat]
      BY <1>1 DEF IsLocals, Laid
    <3>3. s4.loc.cnt[d] = st.loc.cnt[d]
      BY <1>10, <1>12, <3>1, <3>2 DEF Succ
    <3> QED BY <1>1, <1>10, <1>12, <2>2, <3>1, <3>3
  <2> QED BY <2>1, <2>2 DEF LocalsOK
<1>14. SafeRead(r)
  BY <1>10, <1>11, <1>12 DEF SafeRead
<1> QED BY <1>10, <1>11, <1>12, <1>13, <1>14

LEMMA ImportStep ==
    ASSUME IInv, ParseImport
    PROVE  IInv'
<1>1. PICK e \in ImportEntries : Read("import", ImportRun(e), ImportOK(mod, e))
  BY DEF ParseImport
<1>2. PICK ok : ok = ImportOK(mod, e)
  OBVIOUS
<1>3. PICK a, r : a = ImportsOf[e.k] /\ r = ImportFrom(St, a, e)
  OBVIOUS
<1>4. ImportRun(e) = r
  BY <1>3, StFields DEF ImportRun, ImportFrom
<1>5. Read("import", r, ok)
  BY <1>1, <1>2, <1>4
<1>6. a \in ImportArrays
  BY <1>3, ImportKind
<1>7. Parsing("import") /\ todo > 0 /\ Sound(St) /\ ParseOK(mod, loc, "import", todo, last) /\ todo \in Nat
  BY DEF ParseImport, IInv, Parsing
<1>8. mod.ptr[a] = {} /\ mod.ptr["functions"] = {} /\ LocalsOK(loc, "import")
  BY <1>6, <1>7 DEF ParseOK, Ahead, NoArray
<1>9. SafeRead(r) /\ r.now.m = mod /\ LocalsOK(r.now.loc, "import")
  <2>1. PICK st : st = St
    OBVIOUS
  <2>2. Sound(st) /\ st.m.ptr[a] = {} /\ LocalsOK(st.loc, "import") /\ st.m.ptr["functions"] = {} /\ st.m = mod
    BY <1>7, <1>8, <2>1, StFields
  <2>3. r = ImportFrom(st, a, e)
    BY <1>3, <2>1
  <2>4. SafeRead(r) /\ r.now.m = st.m /\ LocalsOK(r.now.loc, "import")
    BY <1>6, <2>2, <2>3, ImportRead
  <2> QED BY <2>2, <2>4
<1>10. ParseOK(r.now.m, r.now.loc, "import", todo - 1, last)
  <2>1. Room(mod, "import", todo - 1)
    BY DEF Room
  <2> QED BY <1>7, <1>9, <2>1 DEF ParseOK
<1> QED BY <1>5, <1>7, <1>9, <1>10, ReadIInv DEF Parsing

-----------------------------------------------------------------------------
(* Runs that only touch the arrays of the types                              *)

TypeFields == TypeArrays \cup {"repr_infos"}

TypesFrame(m2, m) ==
    /\ \A d \in Arrays : (d # "types" /\ d # "repr_infos") => m2.cnt[d] = m.cnt[d]
    /\ \A d \in Arrays : d \notin TypeFields => m2.ptr[d] = m.ptr[d] /\ m2.cap[d] = m.cap[d] /\ m2.ent[d] = m.ent[d]
    /\ TypesFit(m2) /\ ReprsFit(m2)
    /\ \A d \in {"types", "type_defs", "repr_infos"} : m2.ptr[d] = {} => Freed(m2, d) = 0

LEMMA TypeFieldsFacts ==
    /\ TypeFields \subseteq Arrays /\ "types" \in Arrays /\ "type_defs" \in Arrays /\ "typeidx_to_repr" \in Arrays
    /\ "canonical_map" \in Arrays /\ "repr_infos" \in Arrays /\ "exports" \in Arrays /\ "export_order" \in Arrays
    /\ "functions" \in Arrays /\ "declared_funcs" \in Arrays
    /\ "typeidx_to_repr" \in FlatArrays /\ "canonical_map" \in FlatArrays /\ "types" \notin FlatArrays
    /\ "type_defs" \notin FlatArrays /\ "repr_infos" \notin FlatArrays
    /\ "exports" \notin TypeFields /\ "export_order" \notin TypeFields /\ "functions" \notin TypeFields
    /\ "declared_funcs" \notin TypeFields
    /\ TypeFields \cap ImportArrays = {}
    /\ \A s \in DOMAIN ArrayOf : s # "type" => ArrayOf[s] \notin TypeFields
<1>1. \A s \in DOMAIN ArrayOf : s # "type" => ArrayOf[s] \notin TypeFields
  BY SectionFacts DEF TypeFields, TypeArrays
<1> QED BY <1>1 DEF TypeFields, TypeArrays, Arrays, FlatArrays, ImportArrays

LEMMA FrameStart ==
    ASSUME NEW m, Fit(m)
    PROVE  TypesFrame(m, m)
<1>1. {"types", "type_defs", "repr_infos"} \subseteq Growing
  BY DEF Growing
<1>2. \A d \in Growing : m.ptr[d] = {} => Freed(m, d) = 0
  BY DEF Fit, Counted0, Freed
<1> QED BY <1>1, <1>2 DEF TypesFrame, Fit

LEMMA FrameFit ==
    ASSUME NEW m, Fit(m), NEW m2, TypesFrame(m2, m)
    PROVE  /\ Fit(m2) /\ Limit(m2, "func") = Limit(m, "func") /\ m2.ptr["functions"] = m.ptr["functions"]
           /\ (OrderFits(m) => OrderFits(m2)) /\ Functions(m2) = Functions(m)
           /\ \A x : ExportsBelow(m, x) => ExportsBelow(m2, x)
<1>1. Limit(m2, "func") = Limit(m, "func")
  <2>1. "func_imports" \in Arrays /\ "function_type_indices" \in Arrays
    BY OtherArraysFacts
  <2> QED BY <2>1 DEF TypesFrame, Limit, ImportsOf, DefinedIn
<1>2. Counted0(m2)
  <2>1. ASSUME NEW d \in Growing, m2.ptr[d] = {} PROVE Freed(m2, d) = 0
    <3>1. CASE d \in {"types", "type_defs", "repr_infos"}
      BY <2>1, <3>1 DEF TypesFrame
    <3>2. CASE d \notin {"types", "type_defs", "repr_infos"}
      <4>1. d \in Arrays /\ d \notin TypeFields
        BY <3>2, OtherArraysFacts DEF Growing, TypeFields, TypeArrays, ImportArrays
      <4>2. m.ptr[d] = {} /\ m2.cnt[d] = m.cnt[d]
        BY <2>1, <3>2, <4>1 DEF TypesFrame
      <4>3. Freed(m, d) = 0
        BY <4>2 DEF Fit, Counted0, Freed
      <4> QED BY <3>2, <4>1, <4>2, <4>3, FreedFacts
    <3> QED BY <3>1, <3>2
  <2> QED BY <2>1 DEF Counted0, Freed
<1>3. DeclaredFit(m2)
  BY <1>1, TypeFieldsFacts DEF Fit, DeclaredFit, TypesFrame
<1>4. Fit(m2)
  BY <1>2, <1>3 DEF Fit, TypesFrame
<1>5. OrderFits(m) => OrderFits(m2)
  BY TypeFieldsFacts DEF OrderFits, TypesFrame
<1>6. Functions(m2) = Functions(m)
  BY OtherArraysFacts, TypeFieldsFacts DEF Functions, TypesFrame
<1>7. m2.cnt["exports"] = m.cnt["exports"] /\ m2.ent["exports"] = m.ent["exports"] /\ m2.ptr["functions"] = m.ptr["functions"]
  BY TypeFieldsFacts DEF TypesFrame
<1>8. \A x : ExportsBelow(m, x) => ExportsBelow(m2, x)
  BY <1>7 DEF ExportsBelow
<1> QED BY <1>1, <1>4, <1>5, <1>6, <1>7, <1>8

\* The array d of t has been reallocated with capacity n.
Resizes(u, t, d, n) ==
    /\ u.loc = t.loc /\ u.m.cnt = t.m.cnt /\ u.m.types_cap = t.m.types_cap
    /\ u.m.ptr[d] # {} /\ u.m.cap[d] = n
    /\ \A c \in Arrays : c # d => u.m.ptr[c] = t.m.ptr[c] /\ u.m.cap[c] = t.m.cap[c] /\ u.m.ent[c] = t.m.ent[c]
    /\ HeapMore(u.h, t.h, ArrayBlock(d))

LEMMA ResizesFields ==
    ASSUME NEW t, IsState(t), NEW d \in Arrays, NEW n \in Nat, NEW u, u = Step(t, Resize(d, n))
    PROVE  Resizes(u, t, d, n)
<1>1. DOMAIN t.m.ptr = Arrays /\ DOMAIN t.m.cap = Arrays /\ DOMAIN t.m.ent = Arrays
  BY DEF IsState, IsModule, Laid
<1>2. /\ u.loc = t.loc /\ HeapMore(u.h, t.h, ArrayBlock(d)) /\ u.m.cnt = t.m.cnt
      /\ u.m.ptr = Put(t.m.ptr, d, Pointer(d)) /\ u.m.cap = Put(t.m.cap, d, n) /\ SameRest(u.m, t.m)
  BY ResizeFields
<1>3. PICK v : u.m.ent = Put(t.m.ent, d, v)
  BY ResizeFields
<1>4. Pointer(d) # {}
  BY DEF Pointer
<1>5. u.m.ptr[d] = Pointer(d) /\ u.m.cap[d] = n
  BY <1>1, <1>2 DEF Put
<1>6. \A c \in Arrays : c # d => u.m.ptr[c] = t.m.ptr[c] /\ u.m.cap[c] = t.m.cap[c] /\ u.m.ent[c] = t.m.ent[c]
  BY <1>1, <1>2, <1>3 DEF Put
<1> QED BY <1>2, <1>4, <1>5, <1>6 DEF Resizes, SameRest

\* A run of which every stop is sound and has only touched the types.
TypesRun(r, m) == \A t \in Stops(r) : Sound(t) /\ TypesFrame(t.m, m)

LEMMA TypesRunStep ==
    ASSUME NEW r, NEW m, TypesRun(r, m), NEW g, NEW q, q = r ++ g, NEW u, u = q.now, Sound(u), TypesFrame(u.m, m)
    PROVE  TypesRun(q, m)
<1>1. Stops(q) = Stops(r) \cup {u}
  BY RunFacts
<1> QED BY <1>1 DEF TypesRun

LEMMA TypesResize ==
    ASSUME NEW r, NEW m, TypesRun(r, m), NEW d \in TypeArrays, NEW n \in Nat, r.now.m.types_cap <= n,
           ArrayBlock(d) \notin r.now.loc.held, NEW q, q = r ++ Resize(d, n)
    PROVE  TypesRun(q, m) /\ Resizes(q.now, r.now, d, n)
<1>1. PICK t, u : t = r.now /\ u = q.now
  OBVIOUS
<1>2. u = Step(t, Resize(d, n)) /\ t \in Stops(r)
  BY <1>1, RunFacts
<1>3. Sound(t) /\ TypesFrame(t.m, m) /\ IsState(t) /\ IsModule(t.m) /\ t.m.types_cap <= n /\ ArrayBlock(d) \notin t.loc.held
  BY <1>1, <1>2 DEF TypesRun, Sound, IsState
<1>4. d \in Arrays /\ d \in TypeFields /\ d \notin ImportArrays /\ d # "functions" /\ d # "repr_infos"
  BY TypeFieldsFacts DEF TypeFields, TypeArrays
<1>5. Resizes(u, t, d, n)
  BY <1>2, <1>3, <1>4, ResizesFields
<1>6. t.m.cnt["types"] \in Nat /\ t.m.types_cap \in Nat /\ t.m.cnt["types"] <= t.m.types_cap
  BY <1>3, TypeFieldsFacts DEF IsModule, Laid, TypesFrame, TypesFit
<1>7. Sound(u)
  <2>1. Freed(t.m, d) \in {0, t.m.cnt["types"]}
    BY <1>4, FreedFacts DEF TypeArrays, FlatArrays
  <2>2. Freed(t.m, d) <= n
    BY <1>3, <1>6, <2>1
  <2>3. t.m.ptr[d] = {} => Freed(t.m, d) = 0
    <3>1. CASE d \in {"types", "type_defs"}
      BY <1>3, <3>1 DEF TypesFrame
    <3>2. CASE d \notin {"types", "type_defs"}
      BY <1>4, <3>2, FreedFacts, TypeFieldsFacts DEF TypeArrays
    <3> QED BY <3>1, <3>2
  <2>4. t.m.ptr[d] = {} => ArrayBlock(d) \notin t.h.live
    BY <1>3, <1>4, FreshArray
  <2> QED BY <1>2, <1>3, <1>4, <2>2, <2>3, <2>4, ResizeSound
<1>8. TypesFrame(u.m, m)
  <2>1. /\ u.m.cnt = t.m.cnt /\ u.m.types_cap = t.m.types_cap /\ u.m.ptr[d] # {} /\ u.m.cap[d] = n
        /\ \A c \in Arrays : c # d => u.m.ptr[c] = t.m.ptr[c] /\ u.m.cap[c] = t.m.cap[c] /\ u.m.ent[c] = t.m.ent[c]
    BY <1>5 DEF Resizes
  <2>2. TypesFit(u.m)
    <3>1. u.m.cnt["types"] <= u.m.types_cap
      BY <1>6, <2>1
    <3>2. \A c \in Arrays : t.m.types_cap <= t.m.cap[c] => u.m.types_cap <= u.m.cap[c]
      BY <1>3, <2>1
    <3>3. t.m.types_cap <= t.m.cap["types"] /\ t.m.types_cap <= t.m.cap["type_defs"]
      BY <1>3 DEF TypesFrame, TypesFit
    <3>4. ASSUME NEW c \in {"typeidx_to_repr", "canonical_map"}, u.m.ptr[c] # {} PROVE u.m.types_cap <= u.m.cap[c]
      <4>1. c \in Arrays
        BY TypeFieldsFacts
      <4>2. CASE c = d
        BY <1>3, <2>1, <4>2
      <4>3. CASE c # d
        BY <1>3, <2>1, <3>4, <4>1, <4>3 DEF TypesFrame, TypesFit
      <4> QED BY <4>2, <4>3
    <3> QED BY <3>1, <3>2, <3>3, <3>4, TypeFieldsFacts DEF TypesFit
  <2>3. ReprsFit(u.m)
    BY <1>3, <1>4, <2>1, TypeFieldsFacts DEF TypesFrame, ReprsFit
  <2>4. ASSUME NEW c \in {"types", "type_defs", "repr_infos"}, u.m.ptr[c] = {} PROVE Freed(u.m, c) = 0
    <3>1. c \in Arrays /\ c # d
      BY <2>1, <2>4, TypeFieldsFacts
    <3>2. Freed(t.m, c) = 0
      BY <1>3, <2>1, <2>4, <3>1 DEF TypesFrame
    <3> QED BY <2>1, <3>1, <3>2, FreedFacts
  <2>5. \A c \in Arrays : (c # "types" /\ c # "repr_infos") => u.m.cnt[c] = m.cnt[c]
    BY <1>3, <2>1 DEF TypesFrame
  <2>6. \A c \in Arrays : c \notin TypeFields => u.m.ptr[c] = m.ptr[c] /\ u.m.cap[c] = m.cap[c] /\ u.m.ent[c] = m.ent[c]
    BY <1>3, <1>4, <2>1 DEF TypesFrame
  <2> QED BY <2>2, <2>3, <2>4, <2>5, <2>6 DEF TypesFrame
<1>9. TypesRun(q, m)
  BY <1>1, <1>7, <1>8, TypesRunStep
<1> QED BY <1>1, <1>5, <1>9

\* The type arrays of u have room for n types; those of t that were NULL and are not always there still are.
Ensured(u, t, n) ==
    /\ u.loc = t.loc /\ u.m.cnt = t.m.cnt /\ u.m.types_cap \in Nat /\ n <= u.m.types_cap
    /\ \A c \in Metadata : u.m.ptr[c] = {} <=> t.m.ptr[c] = {}
    /\ \A b : b \in u.h.live => (b \in t.h.live \/ \E d \in TypeArrays : b = ArrayBlock(d))

\* A run that has grown some of the type arrays of t, without committing their capacity.
Grows(p, t, m) ==
    /\ TypesRun(p, m) /\ p.now.loc = t.loc /\ p.now.m.cnt = t.m.cnt /\ p.now.m.types_cap = t.m.types_cap
    /\ \A c \in Metadata : p.now.m.ptr[c] = {} <=> t.m.ptr[c] = {}
    /\ \A b : b \in p.now.h.live => (b \in t.h.live \/ \E d \in TypeArrays : b = ArrayBlock(d))

\* Array d may be reallocated with capacity n.
CanGrow(t, d, n) ==
    /\ d \in TypeArrays /\ n \in Nat /\ t.m.types_cap <= n /\ (d \in Metadata => t.m.ptr[d] # {})
    /\ ArrayBlock(d) \notin t.loc.held

\* Array d of w has capacity n, and the others are those of p.
HasGrown(w, p, d, n) ==
    w.m.cap[d] = n /\ \A c \in TypeArrays : c # d => w.m.cap[c] = p.m.cap[c]

LEMMA GrowsMore ==
    ASSUME NEW p, NEW t, NEW m, Grows(p, t, m), NEW d, NEW n, CanGrow(t, d, n), NEW w, w = p ++ Resize(d, n)
    PROVE  Grows(w, t, m) /\ HasGrown(w.now, p.now, d, n)
<1>1. p.now.m.types_cap <= n /\ ArrayBlock(d) \notin p.now.loc.held /\ TypesRun(p, m) /\ d \in TypeArrays /\ n \in Nat
  BY DEF Grows, CanGrow
<1>2. TypesRun(w, m) /\ Resizes(w.now, p.now, d, n)
  BY <1>1, TypesResize
<1>3. /\ w.now.loc = p.now.loc /\ w.now.m.cnt = p.now.m.cnt /\ w.now.m.types_cap = p.now.m.types_cap
      /\ w.now.m.ptr[d] # {} /\ w.now.m.cap[d] = n
      /\ \A c \in Arrays : c # d => w.now.m.ptr[c] = p.now.m.ptr[c] /\ w.now.m.cap[c] = p.now.m.cap[c]
      /\ HeapMore(w.now.h, p.now.h, ArrayBlock(d))
  BY <1>2 DEF Resizes
<1>4. TypeArrays \subseteq Arrays /\ Metadata \subseteq Arrays
  BY TypeFieldsFacts, OtherArraysFacts DEF TypeFields
<1>5. \A c \in Metadata : w.now.m.ptr[c] = {} <=> t.m.ptr[c] = {}
  BY <1>3, <1>4 DEF Grows, CanGrow
<1>6. \A b : b \in w.now.h.live => (b \in t.h.live \/ \E c \in TypeArrays : b = ArrayBlock(c))
  BY <1>1, <1>3 DEF HeapMore, Grows
<1>7. w.now.loc = t.loc /\ w.now.m.cnt = t.m.cnt /\ w.now.m.types_cap = t.m.types_cap
  BY <1>3 DEF Grows
<1>8. Grows(w, t, m)
  BY <1>2, <1>5, <1>6, <1>7 DEF Grows
<1>9. HasGrown(w.now, p.now, d, n)
  BY <1>3, <1>4 DEF HasGrown
<1> QED BY <1>8, <1>9

LEMMA TypesEnsured ==
    ASSUME NEW r, NEW m, TypesRun(r, m), NEW n \in Nat, \A d \in TypeArrays : ArrayBlock(d) \notin r.now.loc.held,
           NEW q, q = EnsureTypes(r, n)
    PROVE  TypesRun(q, m) /\ Ensured(q.now, r.now, n)
<1>1. PICK t, cap : t = r.now /\ cap = Grown(t.m.types_cap, n)
  OBVIOUS
<1>2. t \in Stops(r)
  BY <1>1, RunFacts
<1>3. Sound(t) /\ TypesFrame(t.m, m) /\ IsModule(t.m) /\ t.m.types_cap \in Nat /\ \A d \in TypeArrays : ArrayBlock(d) \notin t.loc.held
  BY <1>1, <1>2 DEF TypesRun, Sound, IsState, IsModule
<1>4. cap \in Nat /\ n <= cap /\ t.m.types_cap <= cap
  BY <1>1, <1>3, GrownFacts
<1>5. CASE cap = t.m.types_cap
  <2>1. q = r
    BY <1>1, <1>5 DEF EnsureTypes
  <2>2. Ensured(t, t, n)
    BY <1>3, <1>4, <1>5 DEF Ensured
  <2> QED BY <1>1, <2>1, <2>2
<1>6. CASE cap # t.m.types_cap
  <2>1. PICK r1, r2, r3, r4 :
          /\ r1 = r ++ Resize("types", cap) /\ r2 = r1 ++ Resize("type_defs", cap)
          /\ r3 = IF t.m.ptr["typeidx_to_repr"] # {} THEN r2 ++ Resize("typeidx_to_repr", cap) ELSE r2
          /\ r4 = IF t.m.ptr["canonical_map"] # {} THEN r3 ++ Resize("canonical_map", cap) ELSE r3
    OBVIOUS
  <2>2. q = r4 ++ CommitTypesCap(cap)
    BY <1>1, <1>6, <2>1 DEF EnsureTypes, When
  <2>4. Grows(r, t, m)
    BY <1>1 DEF Grows
  <2>5. /\ "types" \in TypeArrays /\ "type_defs" \in TypeArrays /\ "typeidx_to_repr" \in TypeArrays /\ "canonical_map" \in TypeArrays
        /\ "types" \notin Metadata /\ "type_defs" \notin Metadata
    BY DEF TypeArrays, Metadata
  <2>6. Grows(r1, t, m) /\ r1.now.m.cap["types"] = cap
    <3>1. CanGrow(t, "types", cap)
      BY <1>3, <1>4, <2>5 DEF CanGrow
    <3>2. Grows(r1, t, m) /\ HasGrown(r1.now, r.now, "types", cap)
      BY <2>1, <2>4, <3>1, GrowsMore
    <3> QED BY <3>2 DEF HasGrown
  <2>7. Grows(r2, t, m) /\ r2.now.m.cap["types"] = cap /\ r2.now.m.cap["type_defs"] = cap
    <3>1. CanGrow(t, "type_defs", cap)
      BY <1>3, <1>4, <2>5 DEF CanGrow
    <3>2. Grows(r2, t, m) /\ HasGrown(r2.now, r1.now, "type_defs", cap)
      BY <2>1, <2>6, <3>1, GrowsMore
    <3> QED BY <2>5, <2>6, <3>2 DEF HasGrown
  <2>8. /\ Grows(r3, t, m) /\ r3.now.m.cap["types"] = cap /\ r3.now.m.cap["type_defs"] = cap
        /\ t.m.ptr["typeidx_to_repr"] # {} => r3.now.m.cap["typeidx_to_repr"] = cap
    <3>1. CASE t.m.ptr["typeidx_to_repr"] # {}
      <4>1. r3 = r2 ++ Resize("typeidx_to_repr", cap)
        BY <2>1, <3>1
      <4>2. CanGrow(t, "typeidx_to_repr", cap)
        BY <1>3, <1>4, <2>5, <3>1 DEF CanGrow
      <4>3. Grows(r3, t, m) /\ HasGrown(r3.now, r2.now, "typeidx_to_repr", cap)
        BY <2>7, <4>1, <4>2, GrowsMore
      <4> QED BY <2>5, <2>7, <4>3 DEF HasGrown
    <3>2. CASE t.m.ptr["typeidx_to_repr"] = {}
      BY <2>1, <2>7, <3>2
    <3> QED BY <3>1, <3>2
  <2>9. /\ Grows(r4, t, m) /\ r4.now.m.cap["types"] = cap /\ r4.now.m.cap["type_defs"] = cap
        /\ (t.m.ptr["typeidx_to_repr"] # {} => r4.now.m.cap["typeidx_to_repr"] = cap)
        /\ t.m.ptr["canonical_map"] # {} => r4.now.m.cap["canonical_map"] = cap
    <3>1. CASE t.m.ptr["canonical_map"] # {}
      <4>1. r4 = r3 ++ Resize("canonical_map", cap)
        BY <2>1, <3>1
      <4>2. CanGrow(t, "canonical_map", cap)
        BY <1>3, <1>4, <2>5, <3>1 DEF CanGrow
      <4>3. Grows(r4, t, m) /\ HasGrown(r4.now, r3.now, "canonical_map", cap)
        BY <2>8, <4>1, <4>2, GrowsMore
      <4> QED BY <2>5, <2>8, <4>3 DEF HasGrown
    <3>2. CASE t.m.ptr["canonical_map"] = {}
      BY <2>1, <2>8, <3>2
    <3> QED BY <3>1, <3>2
  <2>10. PICK s, u : s = r4.now /\ u = q.now
    OBVIOUS
  <2>11. u = Step(s, CommitTypesCap(cap)) /\ s \in Stops(r4)
    BY <2>2, <2>10, RunFacts
  <2>12. Sound(s) /\ TypesFrame(s.m, m) /\ IsState(s)
    BY <2>9, <2>11 DEF Grows, TypesRun, Sound
  <2>13. Sound(u)
    BY <1>4, <2>11, <2>12, TypesCapSound
  <2>14. u.loc = s.loc /\ u.h = s.h /\ SameArrays(u.m, s.m) /\ u.m.types_cap = cap
    BY <1>4, <2>11, <2>12, TypesCapFields
  <2>15. u.m.cnt = s.m.cnt /\ u.m.ptr = s.m.ptr /\ u.m.cap = s.m.cap /\ u.m.ent = s.m.ent
    BY <2>14 DEF SameArrays
  <2>16. /\ s.loc = t.loc /\ s.m.cnt = t.m.cnt /\ s.m.types_cap = t.m.types_cap
         /\ \A c \in Metadata : s.m.ptr[c] = {} <=> t.m.ptr[c] = {}
         /\ \A b : b \in s.h.live => (b \in t.h.live \/ \E d \in TypeArrays : b = ArrayBlock(d))
    BY <2>9, <2>10 DEF Grows
  <2>17. TypesFit(u.m)
    <3>1. s.m.cnt["types"] <= t.m.types_cap /\ s.m.cnt["types"] \in Nat
      BY <2>12, <2>16, TypeFieldsFacts DEF TypesFrame, TypesFit, IsState, IsModule, Laid
    <3>2. u.m.cnt["types"] <= u.m.types_cap
      BY <1>3, <1>4, <2>14, <2>15, <3>1
    <3>3. /\ u.m.cap["types"] = cap /\ u.m.cap["type_defs"] = cap
          /\ (t.m.ptr["typeidx_to_repr"] # {} => u.m.cap["typeidx_to_repr"] = cap)
          /\ t.m.ptr["canonical_map"] # {} => u.m.cap["canonical_map"] = cap
      BY <2>9, <2>10, <2>15
    <3>4. \A c \in {"typeidx_to_repr", "canonical_map"} : u.m.ptr[c] # {} => t.m.ptr[c] # {}
      BY <2>15, <2>16 DEF Metadata
    <3> QED BY <1>4, <2>14, <3>2, <3>3, <3>4 DEF TypesFit
  <2>18. TypesFrame(u.m, m)
    <3>1. \A d \in Arrays : Freed(u.m, d) = Freed(s.m, d)
      BY <2>15 DEF Freed, FreedEntries
    <3>2. ReprsFit(u.m)
      BY <2>12, <2>15 DEF TypesFrame, ReprsFit
    <3>3. \A d \in {"types", "type_defs", "repr_infos"} : u.m.ptr[d] = {} => Freed(u.m, d) = 0
      BY <2>12, <2>15, <3>1, TypeFieldsFacts DEF TypesFrame
    <3> QED BY <2>12, <2>15, <2>17, <3>2, <3>3 DEF TypesFrame
  <2>19. TypesRun(q, m)
    <3>1. TypesRun(r4, m)
      BY <2>9 DEF Grows
    <3>2. u = q.now
      BY <2>10
    <3> QED BY <2>2, <2>13, <2>18, <3>1, <3>2, TypesRunStep
  <2>20. Ensured(u, t, n)
    BY <1>4, <2>14, <2>15, <2>16 DEF Ensured
  <2> QED BY <1>1, <2>10, <2>19, <2>20
<1> QED BY <1>5, <1>6

\* The counts, pointers and capacities of m2 are those of m.
SameSizes(m2, m) ==
    m2.cnt = m.cnt /\ m2.ptr = m.ptr /\ m2.cap = m.cap /\ m2.types_cap = m.types_cap

LEMMA FrameSame ==
    ASSUME NEW m, NEW m1, TypesFrame(m1, m), NEW m2, SameSizes(m2, m1),
           \A d \in Arrays : d \notin TypeFields => m2.ent[d] = m1.ent[d]
    PROVE  TypesFrame(m2, m)
<1>1. \A d \in Arrays : Freed(m2, d) = Freed(m1, d)
  BY DEF SameSizes, Freed, FreedEntries
<1>2. TypesFit(m2) /\ ReprsFit(m2)
  BY DEF SameSizes, TypesFrame, TypesFit, ReprsFit
<1>3. \A d \in {"types", "type_defs", "repr_infos"} : m2.ptr[d] = {} => Freed(m2, d) = 0
  BY <1>1, TypeFieldsFacts DEF SameSizes, TypesFrame
<1> QED BY <1>2, <1>3 DEF SameSizes, TypesFrame

LEMMA TypesNow ==
    ASSUME NEW r, NEW m, TypesRun(r, m)
    PROVE  Sound(r.now) /\ IsState(r.now) /\ IsModule(r.now.m) /\ TypesFrame(r.now.m, m)
BY RunFacts DEF TypesRun, Sound, IsState

LEMMA TypesLocal ==
    ASSUME NEW r, NEW m, TypesRun(r, m), NEW b, b \notin r.now.h.live, NEW q, q = r ++ ForLocal(b)
    PROVE  /\ TypesRun(q, m) /\ q.now.m = r.now.m /\ q.now.loc.held = r.now.loc.held \cup {b}
           /\ SameArrays(q.now.loc, r.now.loc) /\ HeapMore(q.now.h, r.now.h, b)
<1>1. PICK t, u : t = r.now /\ u = q.now
  OBVIOUS
<1>2. u = Step(t, ForLocal(b)) /\ Sound(t) /\ IsState(t) /\ TypesFrame(t.m, m) /\ b \notin t.h.live
  BY <1>1, RunFacts, TypesNow
<1>3. Sound(u)
  BY <1>2, LocalSound
<1>4. u.loc.held = t.loc.held \cup {b} /\ SameArrays(u.loc, t.loc) /\ u.m = t.m /\ HeapMore(u.h, t.h, b)
  BY <1>2, LocalFields
<1>5. TypesFrame(u.m, m)
  BY <1>2, <1>4
<1>6. TypesRun(q, m)
  BY <1>1, <1>3, <1>5, TypesRunStep
<1> QED BY <1>1, <1>4, <1>6

LEMMA TypesDrop ==
    ASSUME NEW r, NEW m, TypesRun(r, m), NEW b, b \in r.now.loc.held, NEW q, q = r ++ Drop(b)
    PROVE  /\ TypesRun(q, m) /\ q.now.m = r.now.m /\ q.now.loc.held = r.now.loc.held \ {b}
           /\ SameArrays(q.now.loc, r.now.loc) /\ q.now.h.live = r.now.h.live \ {b}
<1>1. PICK t, u : t = r.now /\ u = q.now
  OBVIOUS
<1>2. u = Step(t, Drop(b)) /\ Sound(t) /\ IsState(t) /\ TypesFrame(t.m, m) /\ b \in t.loc.held
  BY <1>1, RunFacts, TypesNow
<1>3. Sound(u)
  BY <1>2, DropSound
<1>4. u.loc.held = t.loc.held \ {b} /\ SameArrays(u.loc, t.loc) /\ u.m = t.m /\ u.h.live = t.h.live \ {b}
  BY <1>2, DropFields
<1>5. TypesFrame(u.m, m)
  BY <1>2, <1>4
<1>6. TypesRun(q, m)
  BY <1>1, <1>3, <1>5, TypesRunStep
<1> QED BY <1>1, <1>4, <1>6

LEMMA TypesEntry ==
    ASSUME NEW r, NEW m, TypesRun(r, m), NEW a \in TypeFields, r.now.m.ptr[a] # {}, NEW i \in 1..Freed(r.now.m, a),
           NEW f, Block(a, i, f) \notin r.now.h.live, NEW q, q = r ++ ForEntry(Block(a, i, f))
    PROVE  /\ TypesRun(q, m) /\ SameSizes(q.now.m, r.now.m) /\ q.now.loc = r.now.loc
           /\ HeapMore(q.now.h, r.now.h, Block(a, i, f))
<1>1. PICK t, u : t = r.now /\ u = q.now
  OBVIOUS
<1>2. PICK b : b = Block(a, i, f)
  OBVIOUS
<1>3. u = Step(t, ForEntry(b)) /\ Sound(t) /\ IsState(t) /\ TypesFrame(t.m, m) /\ b \notin t.h.live
  BY <1>1, <1>2, RunFacts, TypesNow
<1>4. a \in Arrays /\ a # "exports" /\ b[1] = a
  BY <1>2, TypeFieldsFacts, BlockFacts
<1>5. Sound(u)
  <2>1. u = Step(t, ForEntry(Block(a, i, f))) /\ Block(a, i, f) \notin t.h.live /\ t.m.ptr[a] # {} /\ i \in 1..Freed(t.m, a)
    BY <1>1, <1>2, <1>3
  <2> QED BY <1>3, <1>4, <2>1, EntrySound
<1>6. /\ u.loc = t.loc /\ HeapMore(u.h, t.h, b) /\ u.m.cnt = t.m.cnt /\ u.m.ptr = t.m.ptr /\ u.m.cap = t.m.cap
      /\ u.m.ent = t.m.ent /\ SameRest(u.m, t.m)
  BY <1>3, <1>4, EntryFields
<1>7. SameSizes(u.m, t.m)
  BY <1>6 DEF SameSizes, SameRest
<1>8. TypesFrame(u.m, m)
  BY <1>3, <1>6, <1>7, FrameSame
<1>9. TypesRun(q, m)
  BY <1>1, <1>5, <1>8, TypesRunStep
<1> QED BY <1>1, <1>2, <1>6, <1>7, <1>9

LEMMA TypesTake ==
    ASSUME NEW r, NEW m, TypesRun(r, m), NEW a \in TypeFields, r.now.m.ptr[a] # {}, NEW i \in 1..Freed(r.now.m, a),
           NEW f, Block(a, i, f) \in r.now.loc.held, NEW q, q = r ++ Take(Block(a, i, f))
    PROVE  /\ TypesRun(q, m) /\ SameSizes(q.now.m, r.now.m) /\ q.now.loc.held = r.now.loc.held \ {Block(a, i, f)}
           /\ SameArrays(q.now.loc, r.now.loc) /\ q.now.h = r.now.h
<1>1. PICK t, u : t = r.now /\ u = q.now
  OBVIOUS
<1>2. PICK b : b = Block(a, i, f)
  OBVIOUS
<1>3. u = Step(t, Take(b)) /\ Sound(t) /\ IsState(t) /\ TypesFrame(t.m, m) /\ b \in t.loc.held
  BY <1>1, <1>2, RunFacts, TypesNow
<1>4. a \in Arrays /\ a # "exports" /\ b[1] = a
  BY <1>2, TypeFieldsFacts, BlockFacts
<1>5. Sound(u)
  <2>1. u = Step(t, Take(Block(a, i, f))) /\ Block(a, i, f) \in t.loc.held /\ t.m.ptr[a] # {} /\ i \in 1..Freed(t.m, a)
    BY <1>1, <1>2, <1>3
  <2> QED BY <1>3, <1>4, <2>1, TakeSound
<1>6. /\ u.loc.held = t.loc.held \ {b} /\ SameArrays(u.loc, t.loc) /\ u.h = t.h
      /\ u.m.cnt = t.m.cnt /\ u.m.ptr = t.m.ptr /\ u.m.cap = t.m.cap
      /\ u.m.ent = t.m.ent /\ SameRest(u.m, t.m)
  BY <1>3, <1>4, TakeFields
<1>7. SameSizes(u.m, t.m)
  BY <1>6 DEF SameSizes, SameRest
<1>8. TypesFrame(u.m, m)
  BY <1>3, <1>6, <1>7, FrameSame
<1>9. TypesRun(q, m)
  BY <1>1, <1>5, <1>8, TypesRunStep
<1> QED BY <1>1, <1>2, <1>6, <1>7, <1>9

\* The block b of an entry of a, held by a local variable of t.
HeldFor(t, a, b) ==
    /\ a \in TypeFields /\ t.m.ptr[a] # {} /\ b \in t.loc.held
    /\ \E i \in 1..Freed(t.m, a) : \E f : b = Block(a, i, f)

Gave(u, t, b) ==
    /\ SameSizes(u.m, t.m) /\ u.loc.held = t.loc.held \ {b} /\ SameArrays(u.loc, t.loc) /\ u.h = t.h

LEMMA TypesGave ==
    ASSUME NEW r, NEW m, TypesRun(r, m), NEW a, NEW b, HeldFor(r.now, a, b), NEW q, q = r ++ Take(b)
    PROVE  TypesRun(q, m) /\ Gave(q.now, r.now, b)
<1>1. PICK i, f : i \in 1..Freed(r.now.m, a) /\ b = Block(a, i, f)
  BY DEF HeldFor
<1>2. a \in TypeFields /\ r.now.m.ptr[a] # {} /\ Block(a, i, f) \in r.now.loc.held
  BY <1>1 DEF HeldFor
<1>3. PICK p : p = r ++ Take(Block(a, i, f))
  OBVIOUS
<1>4. /\ TypesRun(p, m) /\ SameSizes(p.now.m, r.now.m) /\ p.now.loc.held = r.now.loc.held \ {Block(a, i, f)}
      /\ SameArrays(p.now.loc, r.now.loc) /\ p.now.h = r.now.h
  BY <1>1, <1>2, <1>3, TypesTake
<1>5. p = q
  BY <1>1, <1>3
<1> QED BY <1>1, <1>4, <1>5 DEF Gave


\* Entry i of array a of u, which was not counted in t, is zero.
Begun(u, t, a, i) ==
    /\ u.loc = t.loc /\ u.h = t.h /\ u.m.ptr = t.m.ptr /\ u.m.cap = t.m.cap /\ u.m.types_cap = t.m.types_cap
    /\ u.m.own[a][i] = {} /\ \A d \in Arrays : d # a => u.m.own[d] = t.m.own[d]

LEMMA BegunFields ==
    ASSUME NEW t, IsState(t), NEW a \in Arrays, NEW i \in 1..t.m.cap[a], NEW e, NEW c \in {0, 1},
           NEW u, u = Step(t, Begin(a, i, e, c))
    PROVE  /\ Begun(u, t, a, i) /\ u.m.cnt = Bump(t.m.cnt, a, c)
           /\ \A d \in Arrays : d # a => u.m.ent[d] = t.m.ent[d]
<1>1. /\ u.loc = t.loc /\ u.h = t.h /\ u.m.cnt = Bump(t.m.cnt, a, c)
      /\ u.m.ptr = t.m.ptr /\ u.m.cap = t.m.cap /\ SameRest(u.m, t.m)
      /\ u.m.own = Put(t.m.own, a, Put(t.m.own[a], i, {}))
      /\ u.m.ent = Put(t.m.ent, a, Put(t.m.ent[a], i, e))
  BY BeginFields
<1>2. DOMAIN t.m.own = Arrays /\ DOMAIN t.m.ent = Arrays /\ DOMAIN t.m.own[a] = 1..t.m.cap[a]
  BY DEF IsState, IsModule, Laid
<1>3. u.m.own[a][i] = {} /\ \A d \in Arrays : d # a => u.m.own[d] = t.m.own[d]
  BY <1>1, <1>2 DEF Put
<1>4. \A d \in Arrays : d # a => u.m.ent[d] = t.m.ent[d]
  BY <1>1, <1>2 DEF Put
<1> QED BY <1>1, <1>3, <1>4 DEF Begun, SameRest

LEMMA BumpFacts ==
    ASSUME NEW f, f \in [Arrays -> Nat], NEW a \in Arrays, NEW c \in {0, 1}
    PROVE  /\ Bump(f, a, c) \in [Arrays -> Nat] /\ Bump(f, a, c)[a] = f[a] + c
           /\ \A d \in Arrays : d # a => Bump(f, a, c)[d] = f[d]
           /\ (c = 0 => Bump(f, a, c) = f)
BY DEF Bump

LEMMA TypesBegin ==
    ASSUME NEW r, NEW m, TypesRun(r, m), NEW a \in TypeFields, NEW i, CanBegin(r.now.m, a, i, 0), NEW e,
           NEW q, q = r ++ Begin(a, i, e, 0)
    PROVE  TypesRun(q, m) /\ Begun(q.now, r.now, a, i) /\ q.now.m.cnt = r.now.m.cnt
<1>1. PICK t, u : t = r.now /\ u = q.now
  OBVIOUS
<1>2. u = Step(t, Begin(a, i, e, 0)) /\ Sound(t) /\ IsState(t) /\ TypesFrame(t.m, m) /\ CanBegin(t.m, a, i, 0)
  BY <1>1, RunFacts, TypesNow
<1>3. Sound(u)
  BY <1>2, BeginSound
<1>4. a \in Arrays /\ i \in 1..t.m.cap[a]
  BY <1>2 DEF CanBegin
<1>5. /\ Begun(u, t, a, i) /\ u.m.cnt = Bump(t.m.cnt, a, 0)
      /\ \A d \in Arrays : d # a => u.m.ent[d] = t.m.ent[d]
  BY <1>2, <1>4, BegunFields
<1>6. u.m.cnt = t.m.cnt
  BY <1>2, <1>4, <1>5, BumpFacts DEF IsState, IsModule, Laid
<1>7. SameSizes(u.m, t.m)
  BY <1>5, <1>6 DEF SameSizes, Begun
<1>8. TypesFrame(u.m, m)
  BY <1>2, <1>5, <1>7, FrameSame
<1>9. TypesRun(q, m)
  BY <1>1, <1>3, <1>8, TypesRunStep
<1> QED BY <1>1, <1>5, <1>6, <1>9

\* The next entry of the types or of the repr_infos may be counted,
CanCount(m, a, i) ==
    a \in {"types", "repr_infos"} /\ CanBegin(m, a, i, 1) /\ (a = "types" => i <= m.types_cap)

\* and has been.
Counts(u, t, a, i) ==
    /\ Begun(u, t, a, i) /\ u.m.cnt[a] = i
    /\ \A d \in Arrays : d # a => u.m.cnt[d] = t.m.cnt[d]

LEMMA TypesCount ==
    ASSUME NEW r, NEW m, TypesRun(r, m), NEW a, NEW i, CanCount(r.now.m, a, i), NEW e,
           NEW q, q = r ++ Begin(a, i, e, 1)
    PROVE  TypesRun(q, m) /\ Counts(q.now, r.now, a, i)
<1>1. PICK t, u : t = r.now /\ u = q.now
  OBVIOUS
<1>2. /\ u = Step(t, Begin(a, i, e, 1)) /\ Sound(t) /\ IsState(t) /\ TypesFrame(t.m, m) /\ CanBegin(t.m, a, i, 1)
      /\ (a = "types" => i <= t.m.types_cap) /\ a \in {"types", "repr_infos"}
  BY <1>1, RunFacts, TypesNow DEF CanCount
<1>3. Sound(u)
  BY <1>2, BeginSound
<1>4. a \in Arrays /\ i \in 1..t.m.cap[a] /\ i = t.m.cnt[a] + 1
  BY <1>2 DEF CanBegin
<1>5. /\ Begun(u, t, a, i) /\ u.m.cnt = Bump(t.m.cnt, a, 1)
      /\ \A d \in Arrays : d # a => u.m.ent[d] = t.m.ent[d]
  BY <1>2, <1>4, BegunFields
<1>6. /\ u.m.cnt \in [Arrays -> Nat] /\ u.m.cnt[a] = i /\ \A d \in Arrays : d # a => u.m.cnt[d] = t.m.cnt[d]
  <2>1. t.m.cnt \in [Arrays -> Nat]
    BY <1>2 DEF IsState, IsModule, Laid
  <2>2. PICK f, g : f = t.m.cnt /\ g = u.m.cnt
    OBVIOUS
  <2>3. g = Bump(f, a, 1) /\ f \in [Arrays -> Nat] /\ i = f[a] + 1 /\ a \in Arrays
    BY <1>4, <1>5, <2>1, <2>2
  <2>4. g \in [Arrays -> Nat] /\ g[a] = i /\ \A d \in Arrays : d # a => g[d] = f[d]
    BY <2>3 DEF Bump
  <2> QED BY <2>2, <2>4
<1>7. u.m.ptr = t.m.ptr /\ u.m.cap = t.m.cap /\ u.m.types_cap = t.m.types_cap
  BY <1>5 DEF Begun
<1>8. t.m.cap[a] \in Nat /\ t.m.cap["type_defs"] \in Nat /\ t.m.types_cap \in Nat /\ i \in Nat /\ i > 0
      /\ (t.m.ptr[a] = {} => t.m.cap[a] = 0) /\ (t.m.ptr["type_defs"] = {} => t.m.cap["type_defs"] = 0)
  <2>1. Laid(t.m, Arrays) /\ t.m.types_cap \in Nat
    BY <1>2 DEF IsState, IsModule
  <2>2. t.m.cap \in [Arrays -> Nat] /\ \A d \in Arrays : t.m.ptr[d] = {} => t.m.cap[d] = 0
    BY <2>1 DEF Laid
  <2>3. t.m.cap[a] \in Nat /\ t.m.cap["type_defs"] \in Nat
    BY <1>4, <2>2, TypeFieldsFacts
  <2> QED BY <1>4, <2>1, <2>2, <2>3, TypeFieldsFacts
<1>9. t.m.ptr[a] # {} /\ (a = "types" => t.m.ptr["type_defs"] # {} /\ i <= t.m.types_cap)
  BY <1>2, <1>4, <1>8 DEF TypesFrame, TypesFit
<1>10. TypesFit(u.m) /\ ReprsFit(u.m)
  BY <1>2, <1>6, <1>7, <1>9, TypeFieldsFacts DEF TypesFrame, TypesFit, ReprsFit
<1>11. \A d \in {"types", "type_defs", "repr_infos"} : u.m.ptr[d] = {} => Freed(u.m, d) = 0
  <2>1. SUFFICES ASSUME NEW d \in {"types", "type_defs", "repr_infos"}, u.m.ptr[d] = {}
                 PROVE  Freed(u.m, d) = 0
    OBVIOUS
  <2>2. d # a /\ (a = "types" => d # "type_defs") /\ Freed(t.m, d) = 0
    BY <1>2, <1>7, <1>9, <2>1 DEF TypesFrame
  <2>3. d \in Arrays /\ d \notin FlatArrays
    BY <2>1, TypeFieldsFacts
  <2> QED BY <1>6, <2>1, <2>2, <2>3, FreedFacts, TypeFieldsFacts
<1>12. TypesFrame(u.m, m)
  <2>1. a = "types" \/ a = "repr_infos"
    BY <1>2
  <2>2. \A d \in Arrays : (d # "types" /\ d # "repr_infos") => u.m.cnt[d] = m.cnt[d]
    BY <1>2, <1>6, <2>1 DEF TypesFrame
  <2>3. \A d \in Arrays : d \notin TypeFields => u.m.ptr[d] = m.ptr[d] /\ u.m.cap[d] = m.cap[d] /\ u.m.ent[d] = m.ent[d]
    BY <1>2, <1>5, <1>7, <2>1 DEF TypesFrame, TypeFields, TypeArrays
  <2> QED BY <1>10, <1>11, <2>2, <2>3 DEF TypesFrame
<1>13. TypesRun(q, m)
  BY <1>1, <1>3, <1>12, TypesRunStep
<1> QED BY <1>1, <1>5, <1>6, <1>13 DEF Counts

\* Type i has been added to the types of t, and owns nothing yet.
Added(u, t, i) ==
    /\ u.loc = t.loc /\ u.h = t.h /\ u.m.ptr = t.m.ptr /\ u.m.cap = t.m.cap /\ u.m.types_cap = t.m.types_cap
    /\ u.m.cnt["types"] = i /\ (\A d \in Arrays : d # "types" => u.m.cnt[d] = t.m.cnt[d])
    /\ u.m.own["types"][i] = {} /\ u.m.own["type_defs"][i] = {}
    /\ i \in Nat /\ i > 0 /\ i <= t.m.types_cap
    /\ \A d \in {"types", "type_defs"} : u.m.ptr[d] # {} /\ Freed(u.m, d) = i

LEMMA TypeAdded ==
    ASSUME NEW r, NEW m, TypesRun(r, m), NEW i, i = r.now.m.cnt["types"] + 1, i <= r.now.m.types_cap, NEW e,
           NEW q, q = BeginType(r, i, e)
    PROVE  TypesRun(q, m) /\ Added(q.now, r.now, i)
<1>1. PICK t, D, r1 : t = r.now /\ D = [k |-> "def"] /\ r1 = r ++ Begin("type_defs", i, D, 0)
  OBVIOUS
<1>2. q = r1 ++ Begin("types", i, e, 1)
  BY <1>1 DEF BeginType
<1>3. /\ i = t.m.cnt["types"] + 1 /\ i <= t.m.types_cap /\ Sound(t) /\ IsState(t) /\ IsModule(t.m) /\ TypesFrame(t.m, m)
      /\ t.m.cnt["types"] \in Nat /\ t.m.types_cap \in Nat /\ t.m.cap["types"] \in Nat /\ t.m.cap["type_defs"] \in Nat
      /\ (t.m.ptr["types"] = {} => t.m.cap["types"] = 0) /\ (t.m.ptr["type_defs"] = {} => t.m.cap["type_defs"] = 0)
  <2>1. Sound(t) /\ IsState(t) /\ IsModule(t.m) /\ TypesFrame(t.m, m)
    BY <1>1, TypesNow
  <2>2. /\ t.m.types_cap \in Nat /\ t.m.cnt \in [Arrays -> Nat] /\ t.m.cap \in [Arrays -> Nat]
        /\ \A d \in Arrays : t.m.ptr[d] = {} => t.m.cap[d] = 0
    BY <2>1 DEF IsModule, Laid
  <2> QED BY <1>1, <2>1, <2>2, TypeFieldsFacts
<1>4. /\ i \in Nat /\ i > 0 /\ i <= t.m.cap["types"] /\ i <= t.m.cap["type_defs"]
      /\ t.m.ptr["types"] # {} /\ t.m.ptr["type_defs"] # {}
  BY <1>3 DEF TypesFrame, TypesFit
<1>5. CanBegin(t.m, "type_defs", i, 0)
  <2>1. Freed(t.m, "type_defs") = t.m.cnt["types"]
    BY FreedFacts, TypeFieldsFacts
  <2>2. "type_defs" \notin ImportArrays
    BY TypeFieldsFacts DEF TypeFields, TypeArrays
  <2> QED BY <1>3, <1>4, <2>1, <2>2, TypeFieldsFacts DEF CanBegin
<1>6. TypesRun(r1, m) /\ Begun(r1.now, t, "type_defs", i) /\ r1.now.m.cnt = t.m.cnt
  <2>1. "type_defs" \in TypeFields
    BY DEF TypeFields, TypeArrays
  <2> QED BY <1>1, <1>5, <2>1, TypesBegin
<1>7. PICK s, u : s = r1.now /\ u = q.now
  OBVIOUS
<1>8. /\ s.loc = t.loc /\ s.h = t.h /\ s.m.ptr = t.m.ptr /\ s.m.cap = t.m.cap /\ s.m.types_cap = t.m.types_cap
      /\ s.m.own["type_defs"][i] = {} /\ s.m.cnt = t.m.cnt
  BY <1>6, <1>7 DEF Begun
<1>9. CanBegin(s.m, "types", i, 1)
  <2>1. Freed(s.m, "types") = s.m.cnt["types"]
    BY FreedFacts, TypeFieldsFacts
  <2>2. "types" \notin ImportArrays
    BY TypeFieldsFacts DEF TypeFields, TypeArrays
  <2>3. i = s.m.cnt["types"] + 1 /\ i > s.m.cnt["types"] /\ i \in 1..s.m.cap["types"] /\ i <= s.m.cap["type_defs"]
    <3>1. s.m.cnt["types"] = t.m.cnt["types"] /\ s.m.cap["types"] = t.m.cap["types"]
          /\ s.m.cap["type_defs"] = t.m.cap["type_defs"]
      BY <1>8
    <3>2. i = t.m.cnt["types"] + 1 /\ i > t.m.cnt["types"] /\ i \in 1..t.m.cap["types"] /\ i <= t.m.cap["type_defs"]
      BY <1>3, <1>4
    <3> QED BY <3>1, <3>2
  <2> QED BY <1>8, <2>1, <2>2, <2>3, TypeFieldsFacts DEF CanBegin
<1>10. /\ TypesRun(q, m) /\ Begun(u, s, "types", i) /\ u.m.cnt["types"] = i
       /\ \A d \in Arrays : d # "types" => u.m.cnt[d] = s.m.cnt[d]
  <2>1. CanCount(r1.now.m, "types", i)
    BY <1>3, <1>7, <1>8, <1>9 DEF CanCount
  <2>2. TypesRun(q, m) /\ Counts(q.now, r1.now, "types", i)
    BY <1>2, <1>6, <2>1, TypesCount
  <2> QED BY <1>7, <2>2 DEF Counts
<1>11. /\ u.loc = t.loc /\ u.h = t.h /\ u.m.ptr = t.m.ptr /\ u.m.cap = t.m.cap /\ u.m.types_cap = t.m.types_cap
       /\ u.m.own["types"][i] = {} /\ u.m.own["type_defs"][i] = {}
  BY <1>8, <1>10, TypeFieldsFacts DEF Begun
<1>12. \A d \in {"types", "type_defs"} : u.m.ptr[d] # {} /\ Freed(u.m, d) = i
  <2>1. u.m.ptr["types"] # {} /\ u.m.ptr["type_defs"] # {}
    BY <1>4, <1>11
  <2>2. Freed(u.m, "types") = u.m.cnt["types"] /\ Freed(u.m, "type_defs") = u.m.cnt["types"]
    BY FreedFacts, TypeFieldsFacts
  <2>3. Freed(u.m, "types") = i /\ Freed(u.m, "type_defs") = i
    BY <1>10, <2>2
  <2> QED BY <2>1, <2>3
<1>13. Added(u, t, i)
  BY <1>3, <1>4, <1>8, <1>10, <1>11, <1>12 DEF Added
<1> QED BY <1>1, <1>7, <1>10, <1>13

LEMMA PartsFacts ==
    ASSUME NEW i, NEW e
    PROVE  \E a, f, g :
               a \in {"types", "type_defs"} /\ f # g /\ Parts(i, e)[1] = Block(a, i, f) /\ Parts(i, e)[2] = Block(a, i, g)
<1>1. CASE e.k = "func"
  BY <1>1 DEF Parts
<1>2. CASE e.k # "func"
  BY <1>2 DEF Parts
<1> QED BY <1>1, <1>2

TypeFrom(st, e) ==
    LET i == st.m.cnt["types"] + 1
        begun == BeginType(EnsureTypes(Start(st), i), i, e)
    IN  IF HasParts(e) THEN begun ++ ForEntry(Parts(i, e)[1]) ++ ForEntry(Parts(i, e)[2]) ELSE begun

LEMMA TypesStart ==
    ASSUME NEW st, Sound(st), Fit(st.m), NEW r, r = Start(st)
    PROVE  TypesRun(r, st.m)
BY FrameStart, StartFacts DEF TypesRun

LEMMA NoHeld ==
    ASSUME NEW st, st.loc = NoLocals
    PROVE  \A b : b \notin st.loc.held /\ ~InLocal(st.loc, b)
BY NoLocalsFacts

\* A run of the type section leaves the metadata alone.
TypeRead(q, st) ==
    /\ TypesRun(q, st.m) /\ q.now.loc = st.loc
    /\ \A c \in Metadata : (q.now.m.ptr[c] = {} <=> st.m.ptr[c] = {}) /\ q.now.m.cnt[c] = st.m.cnt[c]

LEMMA TypeFromRead ==
    ASSUME NEW st, Sound(st), Fit(st.m), st.loc = NoLocals, NEW e, NEW q, q = TypeFrom(st, e)
    PROVE  TypeRead(q, st)
<1>1. PICK i, r0, r1 : i = st.m.cnt["types"] + 1 /\ r0 = Start(st) /\ r1 = EnsureTypes(r0, i)
  OBVIOUS
<1>2. PICK r2 : r2 = BeginType(r1, i, e)
  OBVIOUS
<1>3. q = IF HasParts(e) THEN r2 ++ ForEntry(Parts(i, e)[1]) ++ ForEntry(Parts(i, e)[2]) ELSE r2
  BY <1>1, <1>2 DEF TypeFrom
<1>4. i \in Nat
  <2>1. st.m.cnt \in [Arrays -> Nat]
    BY DEF Sound, IsState, IsModule, Laid
  <2> QED BY <1>1, <2>1, TypeFieldsFacts
<1>5. TypesRun(r0, st.m) /\ r0.now = st
  BY <1>1, TypesStart, StartFacts
<1>6. \A d \in TypeArrays : ArrayBlock(d) \notin r0.now.loc.held
  BY <1>5, NoHeld
<1>7. TypesRun(r1, st.m) /\ Ensured(r1.now, st, i)
  BY <1>1, <1>4, <1>5, <1>6, TypesEnsured
<1>8. i = r1.now.m.cnt["types"] + 1 /\ i <= r1.now.m.types_cap
  BY <1>1, <1>7 DEF Ensured
<1>9. TypesRun(r2, st.m) /\ Added(r2.now, r1.now, i)
  BY <1>2, <1>7, <1>8, TypeAdded
<1>10. r2.now.loc = NoLocals /\ \A c \in Metadata : (r2.now.m.ptr[c] = {} <=> st.m.ptr[c] = {}) /\ r2.now.m.cnt[c] = st.m.cnt[c]
  <2>1. \A c \in Metadata : c \in Arrays /\ c # "types"
    BY OtherArraysFacts
  <2> QED BY <1>7, <1>9, <2>1 DEF Ensured, Added
<1>11. CASE ~HasParts(e)
  BY <1>3, <1>9, <1>10, <1>11 DEF TypeRead
<1>12. CASE HasParts(e)
  <2>1. PICK a, f, g : a \in {"types", "type_defs"} /\ f # g /\ Parts(i, e)[1] = Block(a, i, f) /\ Parts(i, e)[2] = Block(a, i, g)
    BY PartsFacts
  <2>2. PICK r3 : r3 = r2 ++ ForEntry(Block(a, i, f))
    OBVIOUS
  <2>3. q = r3 ++ ForEntry(Block(a, i, g))
    BY <1>3, <1>12, <2>1, <2>2
  <2>4. /\ a \in TypeFields /\ a \in Arrays /\ a \notin ImportArrays /\ r2.now.m.ptr[a] # {} /\ Freed(r2.now.m, a) = i
        /\ r2.now.m.own[a][i] = {} /\ i # 0 /\ i \in 1..i
    <3>1. a \in TypeFields /\ a \in Arrays /\ a \notin ImportArrays
      BY <2>1, TypeFieldsFacts DEF TypeFields, TypeArrays
    <3>2. PICK u : u = r2.now
      OBVIOUS
    <3>3. u.m.own["types"][i] = {} /\ u.m.own["type_defs"][i] = {} /\ i \in Nat /\ i > 0
          /\ \A d \in {"types", "type_defs"} : u.m.ptr[d] # {} /\ Freed(u.m, d) = i
      BY <1>9, <3>2 DEF Added
    <3>4. u.m.own[a][i] = {} /\ u.m.ptr[a] # {} /\ Freed(u.m, a) = i
      BY <2>1, <3>3
    <3>5. i # 0 /\ i \in 1..i
      BY <3>3
    <3> QED BY <3>1, <3>2, <3>4, <3>5
  <2>5. Block(a, i, f) \notin r2.now.h.live /\ Block(a, i, g) \notin r2.now.h.live
    <3>1. PICK t : t = r2.now
      OBVIOUS
    <3>2. Sound(t) /\ t.m.own[a][i] = {} /\ \A x : Block(a, i, x) \notin t.loc.held
      BY <1>9, <1>10, <2>4, <3>1, NoHeld, TypesNow
    <3>3. FreshEntry(t, a, i)
      BY <2>4, <3>2, FreshOf
    <3> QED BY <3>1, <3>3 DEF FreshEntry
  <2>6. /\ TypesRun(r3, st.m) /\ SameSizes(r3.now.m, r2.now.m) /\ r3.now.loc = r2.now.loc
        /\ HeapMore(r3.now.h, r2.now.h, Block(a, i, f))
    BY <1>9, <2>2, <2>4, <2>5, TypesEntry
  <2>7. Block(a, i, g) \notin r3.now.h.live
    BY <2>1, <2>5, <2>6, BlockFacts DEF HeapMore
  <2>8. r3.now.m.ptr[a] # {} /\ i \in 1..Freed(r3.now.m, a)
    BY <2>4, <2>6 DEF SameSizes, Freed, FreedEntries
  <2>9. /\ TypesRun(q, st.m) /\ SameSizes(q.now.m, r3.now.m) /\ q.now.loc = r3.now.loc
    BY <2>3, <2>4, <2>6, <2>7, <2>8, TypesEntry
  <2> QED BY <1>10, <2>6, <2>9 DEF TypeRead, SameSizes
<1> QED BY <1>11, <1>12

LEMMA TypesSafe ==
    ASSUME NEW r, NEW m, TypesRun(r, m), m.ptr["functions"] = {}
    PROVE  SafeRead(r)
BY TypeFieldsFacts DEF TypesRun, SafeRead, TypesFrame

\* The frame of the types keeps the sections that are ahead.
LEMMA FrameAhead ==
    ASSUME NEW m, NEW m2, TypesFrame(m2, m), NEW c, NEW k \in Nat, k >= 1, Ahead(m, c, k),
           c = "type" => \A a \in Metadata : NoArray(m2, a)
    PROVE  Ahead(m2, c, k)
<1>1. \A s \in DOMAIN ArrayOf : k < Order[s] => m2.ptr[ArrayOf[s]] = {} /\ (s # "data" => m2.cnt[ArrayOf[s]] = 0)
  <2>1. SUFFICES ASSUME NEW s \in DOMAIN ArrayOf, k < Order[s]
                 PROVE  m2.ptr[ArrayOf[s]] = {} /\ (s # "data" => m2.cnt[ArrayOf[s]] = 0)
    OBVIOUS
  <2>2. s # "type"
    BY <2>1, OrderFacts
  <2>3. ArrayOf[s] \in Arrays /\ ArrayOf[s] \notin TypeFields
    BY <2>2, SectionArrays, TypeFieldsFacts
  <2>4. ArrayOf[s] # "types" /\ ArrayOf[s] # "repr_infos"
    BY <2>3 DEF TypeFields, TypeArrays
  <2> QED BY <2>1, <2>3, <2>4 DEF Ahead, TypesFrame
<1>2. \A a \in Arrays : a \notin TypeFields => m2.ptr[a] = m.ptr[a] /\ m2.cnt[a] = m.cnt[a]
  BY DEF TypesFrame, TypeFields, TypeArrays
<1>3. (k < 2 \/ c = "import") => \A a \in ImportArrays : NoArray(m2, a)
  BY <1>2, TypeFieldsFacts, OtherArraysFacts DEF Ahead, NoArray
<1>4. /\ (k < 4 => m2.ptr["declared_funcs"] = {}) /\ ((k < 8 \/ c = "export") => m2.ptr["export_order"] = {})
      /\ NoArray(m2, "functions")
  BY <1>2, TypeFieldsFacts DEF Ahead, NoArray
<1> QED BY <1>1, <1>3, <1>4 DEF Ahead

LEMMA TypeStep ==
    ASSUME IInv, ParseType
    PROVE  IInv'
<1>1. PICK e \in TypeEntries : Read("type", TypeRun(e), TRUE)
  BY DEF ParseType
<1>2. phase = "parsing" /\ cur = "type" /\ todo > 0 /\ todo \in Nat /\ Sound(St)
  BY DEF ParseType, Parsing, IInv
<1>3. PICK m, l, n, k : m = mod /\ l = loc /\ n = todo /\ k = last
  OBVIOUS
<1>4. ParseOK(m, l, "type", n, k)
  BY <1>2, <1>3 DEF IInv
<1>5. PICK st, q, ok : st = St /\ q = TypeRun(e) /\ ok = TRUE
  OBVIOUS
<1>6. st.m = m /\ st.loc = l /\ q = TypeFrom(st, e)
  BY <1>3, <1>5, StFields DEF TypeRun, TypeFrom
<1>7. Fit(st.m) /\ st.loc = NoLocals /\ m.ptr["functions"] = {} /\ k = 1 /\ Ahead(m, "type", k)
  BY <1>4, <1>6, OrderFacts DEF ParseOK, LocalsOK, Ahead, NoArray
<1>8. TypeRead(q, st)
  BY <1>2, <1>5, <1>6, <1>7, TypeFromRead
<1>9. SafeRead(q)
  BY <1>6, <1>7, <1>8, TypesSafe DEF TypeRead
<1>10. PICK m2, l2 : m2 = q.now.m /\ l2 = q.now.loc
  OBVIOUS
<1>11. TypesFrame(m2, m) /\ l2 = NoLocals /\ \A c \in Metadata : NoArray(m2, c)
  BY <1>6, <1>7, <1>8, <1>10, TypesNow DEF TypeRead, Ahead, NoArray
<1>12. ParseOK(m2, l2, "type", n - 1, k)
  <2>1. Fit(m2) /\ Limit(m2, "func") = Limit(m, "func") /\ ExportsBelow(m2, Limit(m, "func"))
    BY <1>4, <1>11, FrameFit DEF ParseOK
  <2>2. Ahead(m2, "type", k)
    BY <1>7, <1>11, FrameAhead
  <2>3. Room(m2, "type", n - 1) /\ LocalsOK(l2, "type")
    BY <1>11, LocalsOKNone DEF Room
  <2> QED BY <1>4, <1>7, <2>1, <2>2, <2>3, OrderFacts DEF ParseOK
<1>13. Read("type", q, ok) /\ (ok => ParseOK(q.now.m, q.now.loc, "type", todo - 1, last))
  BY <1>1, <1>3, <1>5, <1>10, <1>12
<1> QED BY <1>2, <1>9, <1>13, ReadIInv

LEMMA Pow2Facts ==
    /\ IsPow2(1)
    /\ \A n \in Nat : IsPow2(n) => IsPow2(2 * n)
<1>1. IsPow2(1)
  BY Pow2Def DEF IsPow2
<1>2. ASSUME NEW n \in Nat, IsPow2(n) PROVE IsPow2(2 * n)
  <2>1. PICK k \in 0..n : Pow2[k] = n
    BY <1>2 DEF IsPow2
  <2>2. k \in Nat /\ n > k /\ Pow2[k + 1] = 2 * n
    BY <2>1, Pow2Def
  <2>3. k + 1 \in 0..(2 * n)
    BY <2>2
  <2> QED BY <2>2, <2>3 DEF IsPow2
<1> QED BY <1>1, <1>2

LEMMA ReprResize ==
    ASSUME NEW r, NEW m, TypesRun(r, m), NEW n \in Nat, IsPow2(n), r.now.m.cnt["repr_infos"] <= n,
           ArrayBlock("repr_infos") \notin r.now.loc.held, NEW q, q = r ++ Resize("repr_infos", n)
    PROVE  TypesRun(q, m) /\ Resizes(q.now, r.now, "repr_infos", n)
<1>0. PICK d : d = "repr_infos"
  OBVIOUS
<1>1. PICK t, u : t = r.now /\ u = q.now
  OBVIOUS
<1>2. u = Step(t, Resize(d, n))
  BY <1>0, <1>1, RunFacts
<1>3. Sound(t) /\ TypesFrame(t.m, m) /\ IsState(t) /\ IsModule(t.m) /\ t.m.cnt[d] <= n /\ ArrayBlock(d) \notin t.loc.held
  BY <1>0, <1>1, TypesNow
<1>4. d \in Arrays /\ d \in TypeFields /\ d \notin ImportArrays /\ d # "functions" /\ Freed(t.m, d) = t.m.cnt[d]
  BY <1>0, FreedFacts, TypeFieldsFacts DEF TypeFields
<1>5. Resizes(u, t, d, n)
  BY <1>2, <1>3, <1>4, ResizesFields
<1>6. Sound(u)
  <2>1. t.m.ptr[d] = {} => Freed(t.m, d) = 0
    BY <1>0, <1>3 DEF TypesFrame
  <2>2. t.m.ptr[d] = {} => ArrayBlock(d) \notin t.h.live
    BY <1>3, <1>4, FreshArray
  <2> QED BY <1>2, <1>3, <1>4, <2>1, <2>2, ResizeSound
<1>7. /\ u.m.cnt = t.m.cnt /\ u.m.types_cap = t.m.types_cap /\ u.m.ptr[d] # {} /\ u.m.cap[d] = n
      /\ \A c \in Arrays : c # d => u.m.ptr[c] = t.m.ptr[c] /\ u.m.cap[c] = t.m.cap[c] /\ u.m.ent[c] = t.m.ent[c]
  BY <1>5 DEF Resizes
<1>8. TypesFrame(u.m, m)
  <2>1. d # "types" /\ d # "type_defs" /\ d # "typeidx_to_repr" /\ d # "canonical_map"
    BY <1>0
  <2>2. TypesFit(u.m)
    BY <1>3, <1>7, <2>1, TypeFieldsFacts DEF TypesFrame, TypesFit
  <2>3. ReprsFit(u.m)
    BY <1>0, <1>7 DEF ReprsFit
  <2>4. ASSUME NEW c \in {"types", "type_defs", "repr_infos"}, u.m.ptr[c] = {} PROVE Freed(u.m, c) = 0
    <3>1. c \in Arrays /\ c # d
      BY <1>7, <2>4, TypeFieldsFacts
    <3>2. Freed(t.m, c) = 0
      BY <1>3, <1>7, <2>4, <3>1 DEF TypesFrame
    <3> QED BY <1>7, <3>1, <3>2, FreedFacts
  <2>5. \A c \in Arrays : (c # "types" /\ c # "repr_infos") => u.m.cnt[c] = m.cnt[c]
    BY <1>3, <1>7 DEF TypesFrame
  <2>6. \A c \in Arrays : c \notin TypeFields => u.m.ptr[c] = m.ptr[c] /\ u.m.cap[c] = m.cap[c] /\ u.m.ent[c] = m.ent[c]
    BY <1>3, <1>4, <1>7 DEF TypesFrame
  <2> QED BY <2>2, <2>3, <2>4, <2>5, <2>6 DEF TypesFrame
<1>9. TypesRun(q, m)
  BY <1>1, <1>6, <1>8, TypesRunStep
<1> QED BY <1>0, <1>1, <1>5, <1>9

\* A run at every stop of which there are n types.
RunAt(r, n) == \A t \in Stops(r) : t.m.cnt["types"] = n

LEMMA RunAtStep ==
    ASSUME NEW r, NEW n, RunAt(r, n), NEW g, NEW q, q = r ++ g, q.now.m.cnt["types"] = r.now.m.cnt["types"]
    PROVE  RunAt(q, n)
<1>1. Stops(q) = Stops(r) \cup {q.now} /\ r.now \in Stops(r)
  BY RunFacts
<1> QED BY <1>1 DEF RunAt

\* A run over a module of n types that only touches the types, its handler holding nothing now.
LaysOut(r, m, n) == TypesRun(r, m) /\ RunAt(r, n) /\ r.now.loc = NoLocals

ReprRoom(r, n) == When(r, n = 0 \/ IsPow2(n), Resize("repr_infos", IF n = 0 THEN 1 ELSE 2 * n))

\* The run r may make room for a layout, the number n of them so far;
NeedsRoom(r, m, c, n) ==
    TypesRun(r, m) /\ RunAt(r, c) /\ ArrayBlock("repr_infos") \notin r.now.loc.held /\ n = r.now.m.cnt["repr_infos"]

\* and q is r once it has.
Roomed(q, r, m, c, n) ==
    /\ TypesRun(q, m) /\ RunAt(q, c) /\ q.now.loc = r.now.loc /\ q.now.m.cnt = r.now.m.cnt
    /\ n \in Nat /\ n + 1 <= q.now.m.cap["repr_infos"] /\ q.now.m.cap["repr_infos"] \in Nat
    /\ \A b : b \in q.now.h.live => (b \in r.now.h.live \/ b = ArrayBlock("repr_infos"))

LEMMA ReprRoomed ==
    ASSUME NEW r, NEW m, NEW c, NEW n, NeedsRoom(r, m, c, n), NEW q, q = ReprRoom(r, n)
    PROVE  Roomed(q, r, m, c, n)
<1>1. PICK t : t = r.now
  OBVIOUS
<1>0. TypesRun(r, m) /\ RunAt(r, c) /\ ArrayBlock("repr_infos") \notin r.now.loc.held /\ n = r.now.m.cnt["repr_infos"]
  BY DEF NeedsRoom
<1>2. /\ Sound(t) /\ IsModule(t.m) /\ TypesFrame(t.m, m) /\ n = t.m.cnt["repr_infos"]
  BY <1>0, <1>1, TypesNow
<1>3. /\ n \in Nat /\ t.m.cap["repr_infos"] \in Nat
      /\ (t.m.ptr["repr_infos"] = {} => t.m.cap["repr_infos"] = 0 /\ n = 0)
      /\ (t.m.ptr["repr_infos"] # {} => n <= t.m.cap["repr_infos"])
  <2>1. t.m.cnt \in [Arrays -> Nat] /\ t.m.cap \in [Arrays -> Nat] /\ \A a \in Arrays : t.m.ptr[a] = {} => t.m.cap[a] = 0
    BY <1>2 DEF IsModule, Laid
  <2>2. Freed(t.m, "repr_infos") = t.m.cnt["repr_infos"]
    BY FreedFacts, TypeFieldsFacts
  <2>3. KeptModule(t.m)
    BY <1>2 DEF Sound
  <2> QED BY <1>2, <2>1, <2>2, <2>3, TypeFieldsFacts DEF KeptModule, TypesFrame
<1>4. CASE ~(n = 0 \/ IsPow2(n))
  <2>1. q = r
    BY <1>4 DEF When, ReprRoom
  <2>2. t.m.cap["repr_infos"] > 0 /\ IsPow2(t.m.cap["repr_infos"])
    BY <1>2, <1>3, <1>4 DEF TypesFrame, ReprsFit
  <2>3. n + 1 <= t.m.cap["repr_infos"]
    BY <1>3, <1>4, <2>2
  <2> QED BY <1>0, <1>1, <1>3, <2>1, <2>3 DEF Roomed
<1>5. CASE n = 0 \/ IsPow2(n)
  <2>1. PICK w : w = IF n = 0 THEN 1 ELSE 2 * n
    OBVIOUS
  <2>2. w \in Nat /\ n <= w /\ n + 1 <= w /\ IsPow2(w)
    BY <1>3, <1>5, <2>1, Pow2Facts
  <2>3. q = r ++ Resize("repr_infos", w)
    BY <1>5, <2>1 DEF When, ReprRoom
  <2>4. r.now.m.cnt["repr_infos"] <= w
    BY <1>1, <1>2, <2>2
  <2>5. TypesRun(q, m) /\ Resizes(q.now, r.now, "repr_infos", w)
    BY <1>0, <2>2, <2>3, <2>4, ReprResize
  <2>6. q.now.loc = r.now.loc /\ q.now.m.cnt = r.now.m.cnt /\ q.now.m.cap["repr_infos"] = w
        /\ HeapMore(q.now.h, r.now.h, ArrayBlock("repr_infos"))
    BY <2>5 DEF Resizes
  <2>7. RunAt(q, c)
    BY <1>0, <2>3, <2>6, RunAtStep
  <2> QED BY <1>3, <2>2, <2>5, <2>6, <2>7 DEF HeapMore, Roomed
<1> QED BY <1>4, <1>5

LEMMA ReprRead ==
    ASSUME NEW r, NEW m, NEW c, LaysOut(r, m, c), NEW q, q = ReprRun(r)
    PROVE  LaysOut(q, m, c)
<1>1. PICK n, copy, info, E : /\ n = r.now.m.cnt["repr_infos"] /\ copy = Block("repr_infos", n + 1, "copy")
                              /\ info = Local("info") /\ E = [k |-> "repr"]
  OBVIOUS
<1>2. PICK r1, r2 : /\ r1 = r ++ ForLocal(info)
                    /\ r2 = ReprRoom(r1, n)
  OBVIOUS
<1>3. PICK r3, r4, r5 : r3 = r2 ++ ForLocal(copy) /\ r4 = r3 ++ Begin("repr_infos", n + 1, E, 1) /\ r5 = r4 ++ Take(copy)
  OBVIOUS
<1>4. q = r5 ++ Drop(info)
  BY <1>1, <1>2, <1>3 DEF ReprRun, ReprRoom
<1>5. TypesRun(r, m) /\ RunAt(r, c) /\ r.now.loc = NoLocals /\ Sound(r.now)
  BY TypesNow DEF LaysOut
<1>6. info \notin r.now.h.live /\ r.now.loc.held = {}
  BY <1>1, <1>5, FreshLocal, NoLocalsFacts
<1>7. /\ TypesRun(r1, m) /\ r1.now.m = r.now.m /\ r1.now.loc.held = {info} /\ SameArrays(r1.now.loc, NoLocals)
      /\ HeapMore(r1.now.h, r.now.h, info)
  BY <1>2, <1>5, <1>6, TypesLocal
<1>8. RunAt(r1, c)
  BY <1>2, <1>5, <1>7, RunAtStep
<1>9. info # ArrayBlock("repr_infos") /\ info # copy /\ copy # ArrayBlock("repr_infos")
  <2>1. info # ArrayBlock("repr_infos") /\ info # Block("repr_infos", n + 1, "copy")
    BY <1>1, LocalFacts, TypeFieldsFacts
  <2>2. Block("repr_infos", n + 1, "copy")[3] = "copy" /\ ArrayBlock("repr_infos")[3] = "array"
    BY BlockFacts DEF ArrayBlock
  <2>3. Block("repr_infos", n + 1, "copy") # ArrayBlock("repr_infos")
    BY <2>2
  <2> QED BY <1>1, <2>1, <2>3
<1>10. /\ TypesRun(r2, m) /\ RunAt(r2, c) /\ r2.now.loc = r1.now.loc /\ r2.now.m.cnt = r1.now.m.cnt
       /\ n \in Nat /\ n + 1 <= r2.now.m.cap["repr_infos"] /\ r2.now.m.cap["repr_infos"] \in Nat
       /\ \A b : b \in r2.now.h.live => (b \in r1.now.h.live \/ b = ArrayBlock("repr_infos"))
  <2>1. n = r1.now.m.cnt["repr_infos"] /\ ArrayBlock("repr_infos") \notin r1.now.loc.held
    BY <1>1, <1>7, <1>9
  <2>2. r2 = ReprRoom(r1, n)
    BY <1>2
  <2>3. TypesRun(r1, m)
    BY <1>7
  <2>4. PICK z : z = ReprRoom(r1, n)
    OBVIOUS
  <2>5. NeedsRoom(r1, m, c, n)
    BY <1>8, <2>1, <2>3 DEF NeedsRoom
  <2>6. Roomed(z, r1, m, c, n)
    BY <2>4, <2>5, ReprRoomed
  <2> QED BY <2>2, <2>4, <2>6 DEF Roomed
<1>11. copy \notin r2.now.h.live
  <2>1. FreshEntry(r.now, "repr_infos", n + 1)
    <3>1. PICK t, i : t = r.now /\ i = n + 1
      OBVIOUS
    <3>2. Sound(t) /\ i \in Nat /\ i # 0 /\ i \notin 1..Freed(t.m, "repr_infos") /\ t.loc.held = {}
      BY <1>1, <1>5, <1>6, <1>10, <3>1, FreedFacts, TypeFieldsFacts
    <3>3. "repr_infos" \notin ImportArrays
      BY TypeFieldsFacts DEF TypeFields
    <3>4. FreshEntry(t, "repr_infos", i)
      BY <3>2, <3>3, FreshOf
    <3> QED BY <3>1, <3>4
  <2>2. copy \notin r.now.h.live
    BY <1>1, <2>1 DEF FreshEntry
  <2> QED BY <1>7, <1>9, <1>10, <2>2 DEF HeapMore
<1>12. /\ TypesRun(r3, m) /\ r3.now.m = r2.now.m /\ r3.now.loc.held = {info, copy} /\ SameArrays(r3.now.loc, NoLocals)
  <2>1. /\ TypesRun(r3, m) /\ r3.now.m = r2.now.m /\ r3.now.loc.held = r2.now.loc.held \cup {copy}
        /\ SameArrays(r3.now.loc, r2.now.loc)
    BY <1>3, <1>10, <1>11, TypesLocal
  <2> QED BY <1>7, <1>10, <2>1 DEF SameArrays
<1>13. RunAt(r3, c)
  BY <1>3, <1>10, <1>12, RunAtStep
<1>14. PICK i : i = n + 1
  OBVIOUS
<1>15. CanCount(r3.now.m, "repr_infos", i)
  <2>1. PICK w : w = r3.now.m
    OBVIOUS
  <2>2. w.cnt["repr_infos"] = n /\ i <= w.cap["repr_infos"] /\ w.cap["repr_infos"] \in Nat /\ i \in Nat /\ i > 0
    BY <1>1, <1>7, <1>10, <1>12, <1>14, <2>1
  <2>3. Freed(w, "repr_infos") = n /\ i > n /\ i \in 1..w.cap["repr_infos"]
    BY <1>10, <1>14, <2>2, FreedFacts, TypeFieldsFacts
  <2>4. "repr_infos" \notin ImportArrays
    BY TypeFieldsFacts DEF TypeFields
  <2>5. CanBegin(w, "repr_infos", i, 1)
    BY <1>14, <2>2, <2>3, <2>4, TypeFieldsFacts DEF CanBegin
  <2> QED BY <2>1, <2>5 DEF CanCount
<1>16. TypesRun(r4, m) /\ Counts(r4.now, r3.now, "repr_infos", i)
  <2>1. r4 = r3 ++ Begin("repr_infos", i, E, 1)
    BY <1>3, <1>14
  <2> QED BY <1>12, <1>15, <2>1, TypesCount
<1>17. /\ r4.now.loc = r3.now.loc /\ r4.now.m.ptr = r3.now.m.ptr /\ r4.now.m.cap = r3.now.m.cap /\ r4.now.m.cnt["repr_infos"] = i
       /\ r4.now.m.cnt["types"] = r3.now.m.cnt["types"]
  BY <1>16, TypeFieldsFacts DEF Counts, Begun
<1>18. RunAt(r4, c)
  BY <1>3, <1>13, <1>17, RunAtStep
<1>19. /\ TypesRun(r5, m) /\ SameSizes(r5.now.m, r4.now.m) /\ r5.now.loc.held = r4.now.loc.held \ {copy}
       /\ SameArrays(r5.now.loc, r4.now.loc)
  <2>1. copy = Block("repr_infos", i, "copy") /\ copy \in r4.now.loc.held
    BY <1>1, <1>12, <1>14, <1>17
  <2>2. r5 = r4 ++ Take(Block("repr_infos", i, "copy")) /\ Block("repr_infos", i, "copy") \in r4.now.loc.held
    BY <1>3, <2>1
  <2>3. Freed(r4.now.m, "repr_infos") = i /\ i \in 1..i
    BY <1>10, <1>14, <1>17, FreedFacts, TypeFieldsFacts
  <2>4. r4.now.m.ptr["repr_infos"] # {}
    <3>1. PICK w : w = r4.now.m
      OBVIOUS
    <3>2. IsModule(w) /\ w.cap["repr_infos"] # 0
      BY <1>10, <1>12, <1>16, <1>17, <3>1, TypesNow
    <3> QED BY <3>1, <3>2, TypeFieldsFacts DEF IsModule, Laid
  <2>5. "repr_infos" \in TypeFields
    BY DEF TypeFields
  <2>6. /\ TypesRun(r5, m) /\ SameSizes(r5.now.m, r4.now.m) /\ r5.now.loc.held = r4.now.loc.held \ {Block("repr_infos", i, "copy")}
        /\ SameArrays(r5.now.loc, r4.now.loc)
    BY <1>16, <2>2, <2>3, <2>4, <2>5, TypesTake
  <2> QED BY <2>1, <2>6
<1>20. RunAt(r5, c)
  BY <1>3, <1>18, <1>19, RunAtStep DEF SameSizes
<1>21. r5.now.loc.held = {info} /\ SameArrays(r5.now.loc, NoLocals)
  BY <1>9, <1>12, <1>17, <1>19 DEF SameArrays
<1>22. TypesRun(q, m) /\ q.now.m = r5.now.m /\ q.now.loc.held = {} /\ SameArrays(q.now.loc, NoLocals)
  <2>1. /\ TypesRun(q, m) /\ q.now.m = r5.now.m /\ q.now.loc.held = r5.now.loc.held \ {info}
        /\ SameArrays(q.now.loc, r5.now.loc)
    BY <1>4, <1>19, <1>21, TypesDrop
  <2> QED BY <1>21, <2>1 DEF SameArrays
<1>23. RunAt(q, c)
  BY <1>4, <1>20, <1>22, RunAtStep
<1>24. q.now.loc = NoLocals
  <2>1. IsLocals(q.now.loc)
    BY <1>22, TypesNow DEF IsState
  <2> QED BY <1>22, <2>1, LocalsBack
<1> QED BY <1>22, <1>23, <1>24 DEF LaysOut

\* The recursive definition within ReprRuns has a solution.
LEMMA ReprRunsExists ==
    ASSUME NEW r
    PROVE  \E f : f = [n \in Nat |-> IF n = 0 THEN r ELSE ReprRun(f[n - 1])]
<1> DEFINE x == r
           G(v) == ReprRun(v)
           Upto(f, k) == f[0] = x /\ \A n \in Nat : n < k => f[n + 1] = G(f[n])
           S == {k \in Nat : \E f : Upto(f, k)}
           Same == {k \in Nat : \A i \in Nat, j \in Nat : \A f, g :
                       (Upto(f, i) /\ Upto(g, j) /\ k <= i /\ k <= j) => f[k] = g[k]}
           App(k) == CHOOSE f : Upto(f, k)
           H == [n \in Nat |-> App(n)[n]]
<1> HIDE DEF x, G
<1>1. 0 \in S
  <2>1. Upto([n \in Nat |-> x], 0)
    OBVIOUS
  <2> QED BY <2>1
<1>2. \A k \in Nat : k \in S => k + 1 \in S
  <2>1. SUFFICES ASSUME NEW k \in Nat, NEW f, Upto(f, k)
                 PROVE  \E g : Upto(g, k + 1)
    OBVIOUS
  <2> DEFINE g == [n \in Nat |-> IF n = k + 1 THEN G(f[k]) ELSE f[n]]
  <2>2. Upto(g, k + 1)
    BY <2>1
  <2> QED BY <2>2
<1>3. \A k \in Nat : Upto(App(k), k)
  <2>1. Nat \subseteq S
    <3> HIDE DEF S
    <3> QED BY <1>1, <1>2, SetInduction
  <2> HIDE DEF Upto
  <2> QED BY <2>1
<1>4. Nat \subseteq Same
  <2>1. 0 \in Same
    OBVIOUS
  <2>2. \A k \in Nat : k \in Same => k + 1 \in Same
    <3>1. SUFFICES ASSUME NEW k \in Nat, k \in Same
                   PROVE  k + 1 \in Same
      OBVIOUS
    <3>2. SUFFICES ASSUME NEW i \in Nat, NEW j \in Nat, NEW f, NEW g,
                          Upto(f, i), Upto(g, j), k + 1 <= i, k + 1 <= j
                   PROVE  f[k + 1] = g[k + 1]
      <4> HIDE DEF Upto
      <4> QED OBVIOUS
    <3>3. k <= i /\ k <= j /\ k < i /\ k < j
      BY <3>2
    <3>4. f[k] = g[k]
      <4> HIDE DEF Upto
      <4> QED BY <3>1, <3>2, <3>3
    <3> QED BY <3>2, <3>3, <3>4
  <2> HIDE DEF Same
  <2> QED BY <2>1, <2>2, SetInduction
<1>5. \A n \in Nat : H[n] = IF n = 0 THEN x ELSE G(H[n - 1])
  <2>1. SUFFICES ASSUME NEW n \in Nat PROVE H[n] = IF n = 0 THEN x ELSE G(H[n - 1])
    OBVIOUS
  <2>2. H[n] = App(n)[n] /\ Upto(App(n), n)
    BY <1>3
  <2>3. CASE n = 0
    <3> HIDE DEF App, H
    <3> QED BY <2>2, <2>3
  <2>4. CASE n # 0
    <3>1. n - 1 \in Nat /\ n - 1 <= n /\ n - 1 < n /\ (n - 1) + 1 = n
      BY <2>4
    <3>2. H[n - 1] = App(n - 1)[n - 1] /\ Upto(App(n - 1), n - 1)
      BY <3>1, <1>3
    <3>3. App(n)[n - 1] = App(n - 1)[n - 1]
      <4>1. n - 1 \in Same
        BY <3>1, <1>4
      <4> HIDE DEF App, Upto
      <4> QED BY <4>1, <3>1, <2>2, <3>2
    <3> HIDE DEF App, H
    <3>4. App(n)[(n - 1) + 1] = G(App(n)[n - 1])
      BY <2>2, <3>1
    <3> QED BY <3>1, <3>2, <3>3, <3>4, <2>2, <2>4
  <2> QED BY <2>3, <2>4
<1>6. H = [n \in Nat |-> IF n = 0 THEN x ELSE G(H[n - 1])]
  <2> HIDE DEF App
  <2> QED BY <1>5
<1> HIDE DEF H
<1> QED BY <1>6 DEF x, G

LEMMA ReprRunsRead ==
    ASSUME NEW r, NEW m, NEW c, LaysOut(r, m, c), NEW count \in Nat, NEW q, q = ReprRuns(r, count)
    PROVE  LaysOut(q, m, c)
<1> DEFINE runs[n \in Nat] == IF n = 0 THEN r ELSE ReprRun(runs[n - 1])
           S == {n \in Nat : LaysOut(runs[n], m, c)}
<1>1. q = runs[count]
  BY DEF ReprRuns
<1>2. runs = [n \in Nat |-> IF n = 0 THEN r ELSE ReprRun(runs[n - 1])]
  <2>1. \E f : f = [n \in Nat |-> IF n = 0 THEN r ELSE ReprRun(f[n - 1])]
    BY ReprRunsExists
  <2> QED BY <2>1
<1> HIDE DEF runs
<1>3. runs[0] = r /\ \A n \in Nat : runs[n + 1] = ReprRun(runs[n])
  <2>1. runs[0] = r
    BY <1>2
  <2>2. ASSUME NEW n \in Nat PROVE runs[n + 1] = ReprRun(runs[n])
    <3>1. n + 1 \in Nat /\ n + 1 # 0 /\ (n + 1) - 1 = n
      OBVIOUS
    <3> QED BY <1>2, <3>1
  <2> QED BY <2>1, <2>2
<1>4. 0 \in S /\ \A n \in Nat : n \in S => n + 1 \in S
  BY <1>3, ReprRead
<1>5. Nat \subseteq S
  <2> HIDE DEF S
  <2> QED BY <1>4, SetInduction
<1> QED BY <1>1, <1>5

LEMMA StructsNat ==
    ASSUME NEW m, m.cnt["types"] \in Nat
    PROVE  Structs(m) \in Nat
<1> DEFINE S == {i \in 1..m.cnt["types"] : m.ent["types"][i].k = "struct"}
<1>1. IsFiniteSet(1..m.cnt["types"]) /\ S \in SUBSET (1..m.cnt["types"])
  BY FS_Interval
<1>2. IsFiniteSet(S)
  <2> HIDE DEF S
  <2> QED BY <1>1, FS_Subset
<1>3. Cardinality(S) \in Nat
  BY <1>2, FS_CardinalityType
<1> QED BY <1>3 DEF Structs

\* The canonical map becomes the module's.
LEMMA TypesAdopt ==
    ASSUME NEW r, NEW m, TypesRun(r, m), r.now.m.ptr["canonical_map"] = {}, NEW n \in Nat, r.now.m.types_cap <= n,
           ArrayBlock("canonical_map") \in r.now.loc.held, NEW q, q = r ++ Adopt("canonical_map", n)
    PROVE  /\ TypesRun(q, m) /\ q.now.m.cnt = r.now.m.cnt /\ q.now.m.types_cap = r.now.m.types_cap
           /\ q.now.loc.held = r.now.loc.held \ {ArrayBlock("canonical_map")} /\ SameArrays(q.now.loc, r.now.loc)
<1>0. PICK d : d = "canonical_map"
  OBVIOUS
<1>1. PICK t, u : t = r.now /\ u = q.now
  OBVIOUS
<1>2. u = Step(t, Adopt(d, n)) /\ t.m.ptr[d] = {} /\ t.m.types_cap <= n /\ ArrayBlock(d) \in t.loc.held
  BY <1>0, <1>1, RunFacts
<1>3. Sound(t) /\ TypesFrame(t.m, m) /\ IsState(t) /\ IsModule(t.m)
  BY <1>1, TypesNow
<1>4. /\ d \in Arrays /\ d \in FlatArrays /\ d \in TypeFields /\ d # "types" /\ d # "type_defs" /\ d # "repr_infos"
      /\ d # "typeidx_to_repr"
  BY <1>0, TypeFieldsFacts DEF TypeFields, TypeArrays
<1>5. Sound(u)
  BY <1>2, <1>3, <1>4, AdoptSound
<1>6. /\ u.loc.held = t.loc.held \ {ArrayBlock(d)} /\ SameArrays(u.loc, t.loc)
      /\ u.m.cnt = t.m.cnt /\ u.m.ptr = Put(t.m.ptr, d, Pointer(d)) /\ u.m.cap = Put(t.m.cap, d, n)
      /\ u.m.ent = Put(t.m.ent, d, Realloc(t.m.ent[d], t.m.cap[d], n, Garbage.e))
      /\ SameRest(u.m, t.m)
  BY <1>2, <1>3, <1>4, AdoptFields
<1>7. DOMAIN t.m.ptr = Arrays /\ DOMAIN t.m.cap = Arrays /\ DOMAIN t.m.ent = Arrays
  BY <1>3 DEF IsModule, Laid
<1>8. /\ u.m.types_cap = t.m.types_cap /\ u.m.cap[d] = n
      /\ \A c \in Arrays : c # d => u.m.ptr[c] = t.m.ptr[c] /\ u.m.cap[c] = t.m.cap[c]
  BY <1>4, <1>6, <1>7 DEF Put, SameRest
<1>9. \A c \in Arrays : c # d => u.m.ent[c] = t.m.ent[c]
  BY <1>4, <1>6, <1>7 DEF Put
<1>10. TypesFrame(u.m, m)
  <2>1. TypesFit(u.m)
    BY <1>0, <1>2, <1>3, <1>4, <1>6, <1>8, TypeFieldsFacts DEF TypesFrame, TypesFit
  <2>2. ReprsFit(u.m)
    BY <1>3, <1>4, <1>8, TypeFieldsFacts DEF TypesFrame, ReprsFit
  <2>3. ASSUME NEW c \in {"types", "type_defs", "repr_infos"}, u.m.ptr[c] = {} PROVE Freed(u.m, c) = 0
    <3>1. c \in Arrays /\ c # d
      BY <1>4, <2>3, TypeFieldsFacts
    <3>2. Freed(t.m, c) = 0
      BY <1>3, <1>8, <2>3, <3>1 DEF TypesFrame
    <3> QED BY <1>6, <3>1, <3>2, FreedFacts
  <2>4. \A c \in Arrays : (c # "types" /\ c # "repr_infos") => u.m.cnt[c] = m.cnt[c]
    BY <1>3, <1>6 DEF TypesFrame
  <2>5. \A c \in Arrays : c \notin TypeFields => u.m.ptr[c] = m.ptr[c] /\ u.m.cap[c] = m.cap[c] /\ u.m.ent[c] = m.ent[c]
    BY <1>3, <1>4, <1>8, <1>9 DEF TypesFrame
  <2> QED BY <2>1, <2>2, <2>3, <2>4, <2>5 DEF TypesFrame
<1>11. TypesRun(q, m)
  BY <1>1, <1>5, <1>10, TypesRunStep
<1> QED BY <1>0, <1>1, <1>6, <1>8, <1>11

LEMMA MetadataRead ==
    ASSUME NEW r, NEW m, NEW c, LaysOut(r, m, c), r.now.m.ptr["canonical_map"] = {}, NEW q, q = MetadataRun(r)
    PROVE  LaysOut(q, m, c)
<1>1. PICK w, b, g : w = r.now.m /\ b = ArrayBlock("canonical_map") /\ g = Local("group_keys")
  OBVIOUS
<1>2. PICK cap, count : cap = w.types_cap /\ count = Structs(w)
  OBVIOUS
<1>3. TypesRun(r, m) /\ RunAt(r, c) /\ r.now.loc = NoLocals /\ Sound(r.now) /\ IsModule(w)
  BY <1>1, TypesNow DEF LaysOut
<1>4. cap \in Nat /\ count \in Nat
  BY <1>2, <1>3, StructsNat, TypeFieldsFacts DEF IsModule, Laid
<1>5. CASE w.cnt["types"] = 0
  <2>1. q = r
    BY <1>1, <1>5 DEF MetadataRun
  <2> QED BY <2>1
<1>6. CASE w.cnt["types"] # 0
  <2>1. PICK r1, r2, r3, r4, r5 :
          /\ r1 = r ++ ForLocal(b) /\ r2 = r1 ++ ForLocal(g) /\ r3 = r2 ++ Drop(g)
          /\ r4 = r3 ++ Adopt("canonical_map", cap) /\ r5 = r4 ++ Resize("typeidx_to_repr", cap)
    OBVIOUS
  <2>2. q = ReprRuns(r5, count)
    BY <1>1, <1>2, <1>6, <2>1 DEF MetadataRun
  <2>3. b # g
    BY <1>1, LocalFacts, TypeFieldsFacts
  <2>4. b \notin r.now.h.live /\ g \notin r.now.h.live /\ r.now.loc.held = {}
    <3>1. r.now.loc.held = {}
      BY <1>3, NoLocalsFacts
    <3>2. g \notin r.now.h.live
      BY <1>1, <1>3, <3>1, FreshLocal
    <3>3. "canonical_map" \notin ImportArrays
      BY TypeFieldsFacts DEF TypeFields, TypeArrays
    <3>4. ArrayBlock("canonical_map") \notin r.now.h.live
      BY <1>3, <3>1, <3>3, FreshArray
    <3> QED BY <1>1, <3>1, <3>2, <3>4
  <2>5. /\ TypesRun(r1, m) /\ r1.now.m = w /\ r1.now.loc.held = {b} /\ SameArrays(r1.now.loc, NoLocals)
        /\ HeapMore(r1.now.h, r.now.h, b)
    BY <1>1, <1>3, <2>1, <2>4, TypesLocal
  <2>6. g \notin r1.now.h.live
    BY <2>3, <2>4, <2>5 DEF HeapMore
  <2>7. TypesRun(r2, m) /\ r2.now.m = w /\ r2.now.loc.held = {b, g} /\ SameArrays(r2.now.loc, NoLocals)
    <3>1. /\ TypesRun(r2, m) /\ r2.now.m = r1.now.m /\ r2.now.loc.held = r1.now.loc.held \cup {g}
          /\ SameArrays(r2.now.loc, r1.now.loc)
      BY <2>1, <2>5, <2>6, TypesLocal
    <3> QED BY <2>5, <3>1 DEF SameArrays
  <2>8. TypesRun(r3, m) /\ r3.now.m = w /\ r3.now.loc.held = {b} /\ SameArrays(r3.now.loc, NoLocals)
    <3>1. /\ TypesRun(r3, m) /\ r3.now.m = r2.now.m /\ r3.now.loc.held = r2.now.loc.held \ {g}
          /\ SameArrays(r3.now.loc, r2.now.loc)
      BY <2>1, <2>7, TypesDrop
    <3> QED BY <2>3, <2>7, <3>1 DEF SameArrays
  <2>9. /\ TypesRun(r4, m) /\ r4.now.m.cnt = w.cnt /\ r4.now.m.types_cap = cap /\ r4.now.loc.held = {}
        /\ SameArrays(r4.now.loc, NoLocals)
    <3>1. r3.now.m.ptr["canonical_map"] = {} /\ r3.now.m.types_cap <= cap /\ ArrayBlock("canonical_map") \in r3.now.loc.held
      BY <1>1, <1>2, <1>4, <2>8
    <3>2. r4 = r3 ++ Adopt("canonical_map", cap)
      BY <2>1
    <3>3. /\ TypesRun(r4, m) /\ r4.now.m.cnt = r3.now.m.cnt /\ r4.now.m.types_cap = r3.now.m.types_cap
          /\ r4.now.loc.held = r3.now.loc.held \ {ArrayBlock("canonical_map")} /\ SameArrays(r4.now.loc, r3.now.loc)
      BY <1>4, <2>8, <3>1, <3>2, TypesAdopt
    <3> QED BY <1>1, <1>2, <2>8, <3>3 DEF SameArrays
  <2>10. TypesRun(r5, m) /\ r5.now.m.cnt = w.cnt /\ r5.now.loc = NoLocals
    <3>1. "typeidx_to_repr" \in TypeArrays /\ r4.now.m.types_cap <= cap /\ ArrayBlock("typeidx_to_repr") \notin r4.now.loc.held
      BY <1>4, <2>9 DEF TypeArrays
    <3>2. TypesRun(r5, m) /\ Resizes(r5.now, r4.now, "typeidx_to_repr", cap)
      BY <1>4, <2>1, <2>9, <3>1, TypesResize
    <3>3. r5.now.loc = r4.now.loc /\ r5.now.m.cnt = r4.now.m.cnt
      BY <3>2 DEF Resizes
    <3>4. IsLocals(r5.now.loc)
      BY <3>2, TypesNow DEF IsState
    <3> QED BY <2>9, <3>2, <3>3, <3>4, LocalsBack
  <2>11. RunAt(r5, c)
    <3>1. RunAt(r1, c)
      BY <1>1, <1>3, <2>1, <2>5, RunAtStep
    <3>2. RunAt(r2, c)
      BY <2>1, <2>5, <2>7, <3>1, RunAtStep
    <3>3. RunAt(r3, c)
      BY <2>1, <2>7, <2>8, <3>2, RunAtStep
    <3>4. RunAt(r4, c)
      BY <2>1, <2>8, <2>9, <3>3, RunAtStep
    <3> QED BY <2>1, <2>9, <2>10, <3>4, RunAtStep
  <2>12. LaysOut(r5, m, c)
    BY <2>10, <2>11 DEF LaysOut
  <2> QED BY <1>4, <2>2, <2>12, ReprRunsRead
<1> QED BY <1>5, <1>6

-----------------------------------------------------------------------------
(* The end of a section                                                      *)

\* A section ends in the state d after the run r, or fails.
Ends(s, r, d) ==
    \/ Now(d) /\ cur' = "none" /\ UNCHANGED <<phase, todo, last, spent>>
    \/ \E st \in r.past : Abort(Cleanup(s, st))
    \/ Abort(d)

LEMMA EndsIInv ==
    ASSUME IInv, NEW s, Parsing(s), todo = 0, NEW r, SafeRead(r), NEW d, Sound(d), d.loc = NoLocals,
           ParseOK(d.m, NoLocals, "none", 0, last), Ends(s, r, d)
    PROVE  IInv'
<1>1. CASE Now(d) /\ cur' = "none" /\ UNCHANGED <<phase, todo, last, spent>>
  <2>1. phase' = "parsing" /\ cur' = "none" /\ last' = last /\ todo' = 0 /\ spent' = spent
    BY <1>1 DEF Parsing
  <2>2. cur' \in DOMAIN ArrayOf \cup {"none"} /\ todo' \in Nat /\ last' \in 0..13 /\ spent' \in Nat
    BY <2>1 DEF IInv
  <2>3. ParseOK(d.m, d.loc, cur', todo', last')
    BY <2>1
  <2> QED BY <1>1, <2>1, <2>2, <2>3, ParsingStep
<1>2. CASE \E st \in r.past : Abort(Cleanup(s, st))
  <2>1. PICK st \in r.past : Abort(Cleanup(s, st))
    BY <1>2
  <2>2. Sound(st) /\ st.m.ptr["functions"] = {}
    BY DEF SafeRead, Stops
  <2> QED BY <2>1, <2>2, AbortCleanup
<1>3. CASE Abort(d)
  BY <1>3, AbortNow, NoHeld
<1> QED BY <1>1, <1>2, <1>3 DEF Ends

LEMMA CloseShape ==
    ASSUME NEW m, NEW l, NEW c \in DOMAIN ArrayOf, NEW n, NEW k, ParseOK(m, l, c, n, k), c = "export" => OrderFits(m)
    PROVE  ParseOK(m, NoLocals, "none", 0, k)
<1>1. Ahead(m, "none", k)
  BY DEF ParseOK, Ahead
<1>2. Room(m, "none", 0) /\ LocalsOK(NoLocals, "none")
  BY LocalsOKNone DEF Room
<1> QED BY <1>1, <1>2 DEF ParseOK

LEMMA ClosingFacts ==
    ASSUME IInv, NEW s \in DOMAIN ArrayOf, Parsing(s), todo = 0, NEW st, st = St
    PROVE  Sound(st) /\ ParseOK(st.m, st.loc, s, 0, last) /\ st.m.ptr["functions"] = {} /\ Fit(st.m) /\ IsModule(st.m)
<1>1. st.m = mod /\ st.loc = loc
  BY StFields
<1>2. ParseOK(mod, loc, s, 0, last) /\ Sound(st)
  BY DEF IInv, Parsing
<1> QED BY <1>1, <1>2 DEF ParseOK, Ahead, NoArray, Sound, IsState

LEMMA StartSafe ==
    ASSUME NEW st, Sound(st), st.m.ptr["functions"] = {}
    PROVE  SafeRead(Start(st))
BY StartFacts DEF SafeRead

\* The sections that end without more ado.
LEMMA CloseOther ==
    ASSUME IInv, NEW s \in DOMAIN ArrayOf, CloseSection(s), s \notin {"type", "import", "export", "code"}
    PROVE  IInv'
<1>1. Parsing(s) /\ todo = 0
  BY DEF CloseSection
<1>2. PICK st, r : st = St /\ r = Start(st)
  OBVIOUS
<1>3. Ends(s, r, st)
  <2>1. CloseRun(s) = r /\ Closed(s, r.now) = st
    BY <1>2, StartFacts DEF CloseRun, Closed
  <2> QED BY <2>1 DEF CloseSection, Ends
<1>4. Sound(st) /\ ParseOK(st.m, st.loc, s, 0, last) /\ st.m.ptr["functions"] = {}
  BY <1>1, <1>2, ClosingFacts
<1>5. st.loc = NoLocals
  BY <1>4, LocalsOKNone DEF ParseOK
<1>6. ParseOK(st.m, NoLocals, "none", 0, last)
  BY <1>4, CloseShape
<1>7. SafeRead(r)
  BY <1>2, <1>4, StartSafe
<1> QED BY <1>1, <1>3, <1>4, <1>5, <1>6, <1>7, EndsIInv

LEMMA CloseTypes ==
    ASSUME IInv, CloseSection("type")
    PROVE  IInv'
<1>1. Parsing("type") /\ todo = 0 /\ "type" \in DOMAIN ArrayOf
  BY SectionFacts DEF CloseSection
<1>2. PICK st, r, d, m, c, k : st = St /\ r = MetadataRun(Start(st)) /\ d = r.now /\ m = st.m /\ c = m.cnt["types"] /\ k = last
  OBVIOUS
<1>3. Ends("type", r, d)
  <2>1. CloseRun("type") = r /\ Closed("type", r.now) = d
    BY <1>2 DEF CloseRun, Closed
  <2> QED BY <2>1 DEF CloseSection, Ends
<1>4. Sound(st) /\ ParseOK(m, st.loc, "type", 0, k) /\ m.ptr["functions"] = {} /\ Fit(m)
  BY <1>1, <1>2, ClosingFacts
<1>5. st.loc = NoLocals /\ k = 1 /\ Ahead(m, "type", k) /\ m.ptr["canonical_map"] = {}
  BY <1>4, LocalsOKNone, OrderFacts DEF ParseOK, Ahead, NoArray, Metadata
<1>6. LaysOut(Start(st), m, c)
  <2>1. TypesRun(Start(st), m)
    BY <1>2, <1>4, TypesStart
  <2> QED BY <1>2, <1>5, <2>1, StartFacts DEF LaysOut, RunAt
<1>7. LaysOut(r, m, c)
  <2>1. Start(st).now.m.ptr["canonical_map"] = {}
    BY <1>2, <1>5, StartFacts
  <2> QED BY <1>2, <1>6, <2>1, MetadataRead
<1>8. TypesRun(r, m) /\ d.loc = NoLocals /\ Sound(d) /\ TypesFrame(d.m, m)
  BY <1>2, <1>7, TypesNow DEF LaysOut
<1>9. SafeRead(r)
  BY <1>4, <1>8, TypesSafe
<1>10. ParseOK(d.m, NoLocals, "none", 0, k)
  <2>1. PICK m2 : m2 = d.m
    OBVIOUS
  <2>2. Fit(m2) /\ Limit(m2, "func") = Limit(m, "func") /\ ExportsBelow(m2, Limit(m, "func"))
    BY <1>4, <1>8, <2>1, FrameFit DEF ParseOK
  <2>3. Ahead(m, "none", k)
    BY <1>5 DEF Ahead
  <2>4. Ahead(m2, "none", k)
    BY <1>5, <1>8, <2>1, <2>3, FrameAhead
  <2>5. Room(m2, "none", 0) /\ LocalsOK(NoLocals, "none")
    BY LocalsOKNone DEF Room
  <2> QED BY <1>5, <2>1, <2>2, <2>4, <2>5 DEF ParseOK
<1> QED BY <1>1, <1>2, <1>3, <1>8, <1>9, <1>10, EndsIInv

LEMMA CloseCode ==
    ASSUME IInv, CloseSection("code")
    PROVE  IInv'
<1>1. Parsing("code") /\ todo = 0 /\ "code" \in DOMAIN ArrayOf
  BY SectionFacts DEF CloseSection
<1>2. PICK st, b, r, d : st = St /\ b = Local("inits") /\ r = When(Start(st), st.loc.held # {}, Drop(b)) /\ d = r.now
  OBVIOUS
<1>3. Ends("code", r, d)
  <2>1. CloseRun("code") = r /\ Closed("code", r.now) = d
    BY <1>2, StFields DEF CloseRun, Closed
  <2> QED BY <2>1 DEF CloseSection, Ends
<1>4. Sound(st) /\ ParseOK(st.m, st.loc, "code", 0, last) /\ st.m.ptr["functions"] = {}
  BY <1>1, <1>2, ClosingFacts
<1>5. SameArrays(st.loc, NoLocals) /\ (st.loc.held = {} \/ st.loc.held = {b}) /\ IsState(st) /\ IsLocals(st.loc)
  BY <1>2, <1>4 DEF ParseOK, LocalsOK, CodeLocals, Sound, IsState
<1>6. SafeRead(r) /\ Sound(d) /\ d.m = st.m /\ d.loc = NoLocals
  <2>1. CASE st.loc.held = {}
    <3>1. r = Start(st) /\ d = st
      BY <1>2, <2>1, StartFacts DEF When
    <3> QED BY <1>4, <1>5, <2>1, <3>1, StartSafe, LocalsBack
  <2>2. CASE st.loc.held = {b}
    <3>1. r = Start(st) ++ Drop(b)
      BY <1>2, <2>2 DEF When
    <3>2. d = Step(st, Drop(b)) /\ Stops(r) = {st, d}
      BY <1>2, <3>1, RunFacts, StartFacts
    <3>3. Sound(d)
      BY <1>4, <2>2, <3>2, DropSound
    <3>4. d.loc.held = st.loc.held \ {b} /\ SameArrays(d.loc, st.loc) /\ d.m = st.m /\ IsState(d)
      BY <1>5, <3>2, DropFields
    <3>5. d.loc = NoLocals
      <4>1. d.loc.held = {} /\ SameArrays(d.loc, NoLocals) /\ IsLocals(d.loc)
        BY <1>5, <2>2, <3>4 DEF SameArrays, IsState
      <4> QED BY <4>1, LocalsBack
    <3>6. SafeRead(r)
      BY <1>4, <3>2, <3>3, <3>4 DEF SafeRead
    <3> QED BY <3>3, <3>4, <3>5, <3>6
  <2> QED BY <1>5, <2>1, <2>2
<1>7. ParseOK(d.m, NoLocals, "none", 0, last)
  BY <1>1, <1>4, <1>6, CloseShape
<1> QED BY <1>1, <1>3, <1>6, <1>7, EndsIInv

\* The module m2 is m but for export_order.
OrderOnly(m2, m) ==
    /\ m2.cnt = m.cnt /\ m2.types_cap = m.types_cap
    /\ \A d \in Arrays : d # "export_order" => m2.ptr[d] = m.ptr[d] /\ m2.cap[d] = m.cap[d] /\ m2.ent[d] = m.ent[d]

LEMMA OrderOnlyFit ==
    ASSUME NEW m, NEW m2, OrderOnly(m2, m), Fit(m)
    PROVE  /\ Fit(m2) /\ Limit(m2, "func") = Limit(m, "func") /\ Functions(m2) = Functions(m)
           /\ \A x : ExportsBelow(m, x) => ExportsBelow(m2, x)
<1>1. "export_order" \notin Growing
  BY DEF Growing, ImportArrays
<1>2. Counted0(m2)
  BY <1>1, OtherArraysFacts DEF OrderOnly, Fit, Counted0, FreedEntries
<1>3. TypesFit(m2)
  BY TypeFieldsFacts DEF OrderOnly, Fit, TypesFit
<1>4. ReprsFit(m2)
  BY TypeFieldsFacts DEF OrderOnly, Fit, ReprsFit
<1>5. Limit(m2, "func") = Limit(m, "func") /\ Functions(m2) = Functions(m)
  BY DEF OrderOnly, Limit, Functions
<1>6. DeclaredFit(m2)
  BY <1>5, TypeFieldsFacts DEF OrderOnly, Fit, DeclaredFit
<1>7. \A x : ExportsBelow(m, x) => ExportsBelow(m2, x)
  BY TypeFieldsFacts DEF OrderOnly, ExportsBelow
<1> QED BY <1>2, <1>3, <1>4, <1>5, <1>6, <1>7 DEF Fit

LEMMA OrderShape ==
    ASSUME NEW m, NEW l, NEW k, ParseOK(m, l, "export", 0, k), IsModule(m),
           NEW m2, OrderOnly(m2, m), m2.cap["export_order"] = m.cnt["exports"]
    PROVE  ParseOK(m2, NoLocals, "none", 0, k)
<1>1. Fit(m) /\ k = 8 /\ Ahead(m, "export", k) /\ ExportsBelow(m, Limit(m, "func")) /\ m.cap["exports"] = m.cnt["exports"] + 0
  BY SectionFacts, OrderFacts DEF ParseOK, Room
<1>2. Fit(m2) /\ Limit(m2, "func") = Limit(m, "func") /\ ExportsBelow(m2, Limit(m, "func"))
  BY <1>1, OrderOnlyFit
<1>3. OrderFits(m2)
  <2>1. m.cnt["exports"] \in Nat
    BY TypeFieldsFacts DEF IsModule, Laid
  <2> QED BY <1>1, <2>1, TypeFieldsFacts DEF OrderFits, OrderOnly
<1>4. Ahead(m2, "none", k)
  <2>1. \A s \in DOMAIN ArrayOf : ArrayOf[s] \in Arrays /\ ArrayOf[s] # "export_order"
    BY SectionArrays DEF OtherArrays
  <2> QED BY <1>1, <2>1, TypeFieldsFacts DEF Ahead, OrderOnly, NoArray
<1>5. Room(m2, "none", 0) /\ LocalsOK(NoLocals, "none")
  BY LocalsOKNone DEF Room
<1> QED BY <1>2, <1>3, <1>4, <1>5 DEF ParseOK

\* The order of the exports is allocated for all of them.
LEMMA OrderAllocated ==
    ASSUME NEW st, Sound(st), st.loc = NoLocals, st.m.ptr["functions"] = {}, st.m.ptr["export_order"] = {},
           NEW r, r = ExportOrderRun(Start(st))
    PROVE  /\ SafeRead(r) /\ r.now.loc = NoLocals /\ OrderOnly(r.now.m, st.m)
           /\ r.now.m.cap["export_order"] = st.m.cnt["exports"]
<1>1. PICK m, n, b, r0 : m = st.m /\ n = m.cnt["exports"] /\ b = Local("sorted") /\ r0 = Start(st)
  OBVIOUS
<1>2. IsState(st) /\ IsModule(m) /\ n \in Nat /\ (m.ptr["export_order"] = {} => m.cap["export_order"] = 0)
  BY <1>1, TypeFieldsFacts DEF Sound, IsState, IsModule, Laid
<1>3. r0.now = st /\ Stops(r0) = {st} /\ SafeRead(r0)
  BY <1>1, StartFacts, StartSafe
<1>4. CASE n = 0
  <2>1. r = r0
    BY <1>1, <1>3, <1>4 DEF ExportOrderRun
  <2>2. OrderOnly(st.m, st.m)
    BY DEF OrderOnly
  <2> QED BY <1>1, <1>2, <1>3, <1>4, <2>1, <2>2
<1>5. CASE n # 0
  <2>1. PICK r1, r2 : r1 = r0 ++ ForLocal(b) /\ r2 = r1 ++ Resize("export_order", n)
    OBVIOUS
  <2>2. r = r2 ++ Drop(b)
    BY <1>1, <1>3, <1>5, <2>1 DEF ExportOrderRun
  <2>3. PICK s1, s2, s3 : s1 = r1.now /\ s2 = r2.now /\ s3 = r.now
    OBVIOUS
  <2>4. /\ s1 = Step(st, ForLocal(b)) /\ s2 = Step(s1, Resize("export_order", n)) /\ s3 = Step(s2, Drop(b))
        /\ Stops(r) = {st, s1, s2, s3}
    <3>1. s1 = Step(st, ForLocal(b)) /\ Stops(r1) = {st, s1}
      BY <1>3, <2>1, <2>3, RunFacts
    <3>2. r2 = r1 ++ Resize("export_order", n)
      BY <2>1
    <3>3. r2.now = Step(r1.now, Resize("export_order", n)) /\ Stops(r2) = Stops(r1) \cup {r2.now}
      BY <3>2, RunFacts
    <3>4. r.now = Step(r2.now, Drop(b)) /\ Stops(r) = Stops(r2) \cup {r.now}
      BY <2>2, RunFacts
    <3>5. s2 = Step(s1, Resize("export_order", n)) /\ Stops(r2) = {st, s1, s2}
      BY <2>3, <3>1, <3>3
    <3>6. s3 = Step(s2, Drop(b)) /\ Stops(r) = {st, s1, s2, s3}
      BY <2>3, <3>4, <3>5
    <3> QED BY <3>1, <3>5, <3>6
  <2>5. st.loc.held = {} /\ b \notin st.h.live
    BY <1>1, FreshLocal, NoLocalsFacts
  <2>6. Sound(s1) /\ s1.m = m /\ s1.loc.held = {b} /\ SameArrays(s1.loc, NoLocals)
    <3>1. Sound(s1)
      BY <2>4, <2>5, LocalSound
    <3>2. s1.m = st.m /\ s1.loc.held = st.loc.held \cup {b} /\ SameArrays(s1.loc, st.loc)
      BY <1>2, <2>4, LocalFields
    <3> QED BY <1>1, <2>5, <3>1, <3>2
  <2>7. "export_order" \in Arrays /\ "export_order" \in FlatArrays /\ "export_order" \notin ImportArrays
    BY TypeFieldsFacts DEF FlatArrays, ImportArrays
  <2>8. Sound(s2) /\ Resizes(s2, s1, "export_order", n)
    <3>1. Freed(s1.m, "export_order") = 0
      BY <2>7, FreedFacts
    <3>2. ArrayBlock("export_order") \notin s1.loc.held
      BY <1>1, <2>6, <2>7, LocalFacts
    <3>3. s1.m.ptr["export_order"] = {} => ArrayBlock("export_order") \notin s1.h.live
      BY <2>6, <2>7, <3>2, FreshArray
    <3>4. Sound(s2)
      BY <1>2, <2>4, <2>6, <2>7, <3>1, <3>3, ResizeSound
    <3>5. IsState(s1)
      BY <2>6 DEF Sound
    <3>6. Resizes(s2, s1, "export_order", n)
      BY <1>2, <2>4, <2>7, <3>5, ResizesFields
    <3> QED BY <3>4, <3>6
  <2>9. s2.loc = s1.loc /\ OrderOnly(s2.m, m) /\ s2.m.cap["export_order"] = n
    BY <2>6, <2>8 DEF Resizes, OrderOnly
  <2>10. Sound(s3) /\ s3.m = s2.m /\ s3.loc = NoLocals
    <3>1. b \in s2.loc.held /\ IsState(s2)
      BY <2>6, <2>8, <2>9 DEF Sound
    <3>2. Sound(s3)
      BY <2>4, <2>8, <3>1, DropSound
    <3>3. s3.loc.held = s2.loc.held \ {b} /\ SameArrays(s3.loc, s2.loc) /\ s3.m = s2.m /\ IsState(s3)
      BY <2>4, <3>1, DropFields
    <3>4. s3.loc.held = {} /\ SameArrays(s3.loc, NoLocals) /\ IsLocals(s3.loc)
      BY <2>6, <2>9, <3>3 DEF SameArrays, IsState
    <3> QED BY <3>2, <3>3, <3>4, LocalsBack
  <2>11. SafeRead(r)
    <3>1. s1.m.ptr["functions"] = {} /\ s2.m.ptr["functions"] = {} /\ s3.m.ptr["functions"] = {}
      BY <1>1, <2>6, <2>9, <2>10, TypeFieldsFacts DEF OrderOnly
    <3> QED BY <2>4, <2>6, <2>8, <2>10, <3>1 DEF SafeRead
  <2> QED BY <1>1, <2>3, <2>9, <2>10, <2>11
<1> QED BY <1>4, <1>5

LEMMA OrderedFields ==
    ASSUME NEW m, IsModule(m), m.cap["export_order"] = m.cnt["exports"], NEW w, w = Ordered(m)
    PROVE  /\ IsModule(w) /\ OrderOnly(w, m) /\ w.ptr = m.ptr /\ w.cap = m.cap
           /\ \A a \in Arrays : a # "export_order" => w.own[a] = m.own[a]
<1>1. PICK n, o, e : /\ n = m.cnt["exports"] /\ o = [i \in 1..n |-> {}]
                     /\ e = [i \in 1..n |-> OrderEntry(SortedExports(m)[i])]
  OBVIOUS
<1>2. w = [m EXCEPT !.own = Put(m.own, "export_order", o), !.ent = Put(m.ent, "export_order", e)]
  BY <1>1 DEF Ordered
<1>3. PICK own, ent : own = Put(m.own, "export_order", o) /\ ent = Put(m.ent, "export_order", e)
  OBVIOUS
<1>4. /\ w.cnt = m.cnt /\ w.ptr = m.ptr /\ w.cap = m.cap /\ w.own = own /\ w.ent = ent /\ w.types_cap = m.types_cap
      /\ w = [cnt |-> w.cnt, ptr |-> w.ptr, cap |-> w.cap, own |-> w.own, ent |-> w.ent,
            types_cap |-> w.types_cap, declared |-> w.declared, start |-> w.start,
            has_data_count_section |-> w.has_data_count_section,
            min_data_segment_count_required |-> w.min_data_segment_count_required]
  BY <1>2, <1>3 DEF IsModule
<1>5. Laid(m, Arrays) /\ m.types_cap \in Nat
  BY DEF IsModule
<1>6. DOMAIN m.own = Arrays /\ DOMAIN m.ent = Arrays
  BY <1>5 DEF Laid
<1>7. /\ DOMAIN own = Arrays /\ DOMAIN ent = Arrays /\ own["export_order"] = o /\ ent["export_order"] = e
      /\ \A a \in Arrays : a # "export_order" => own[a] = m.own[a] /\ ent[a] = m.ent[a]
  BY <1>3, <1>6, TypeFieldsFacts DEF Put
<1>8. DOMAIN o = 1..n /\ DOMAIN e = 1..n
  BY <1>1
<1>9. \A a \in Arrays : DOMAIN own[a] = 1..m.cap[a] /\ DOMAIN ent[a] = 1..m.cap[a]
  BY <1>1, <1>5, <1>7, <1>8 DEF Laid
<1>10. Laid(w, Arrays)
  BY <1>4, <1>5, <1>7, <1>9 DEF Laid
<1>11. IsModule(w)
  BY <1>4, <1>5, <1>10 DEF IsModule
<1>12. OrderOnly(w, m)
  BY <1>4, <1>7 DEF OrderOnly
<1> QED BY <1>4, <1>7, <1>11, <1>12

WithOrder(st) == [st EXCEPT !.m = Ordered(st.m)]

LEMMA OrderedSound ==
    ASSUME NEW st, Sound(st), st.m.ptr["functions"] = {}, st.m.cap["export_order"] = st.m.cnt["exports"],
           NEW d, d = WithOrder(st)
    PROVE  Sound(d) /\ d.loc = st.loc /\ OrderOnly(d.m, st.m) /\ d.m.cap = st.m.cap
<1>1. PICK m, w : m = st.m /\ w = Ordered(m)
  OBVIOUS
<1>2. IsState(st) /\ IsModule(m) /\ KeptModule(m) /\ m.ptr["functions"] = {} /\ m.cap["export_order"] = m.cnt["exports"]
  BY <1>1 DEF Sound, IsState
<1>3. /\ IsModule(w) /\ OrderOnly(w, m) /\ w.ptr = m.ptr /\ w.cap = m.cap
      /\ \A a \in Arrays : a # "export_order" => w.own[a] = m.own[a]
  BY <1>1, <1>2, OrderedFields
<1>4. d.m = w /\ d.loc = st.loc /\ d.h = st.h /\ IsState(d)
  BY <1>1, <1>2, <1>3 DEF IsState, WithOrder
<1>5. \A a \in Arrays : Freed(w, a) = Freed(m, a)
  BY <1>3 DEF OrderOnly, Freed, FreedEntries
<1>6. ASSUME NEW a \in Arrays, NEW i \in 1..Freed(m, a) PROVE Own(w, a, i) = Own(m, a, i)
  <2>1. a # "export_order"
    <3>1. Freed(m, "export_order") = 0
      BY FreedFacts, TypeFieldsFacts DEF FlatArrays
    <3> QED BY <1>6, <3>1
  <2>2. ~Host(w, i) /\ ~Host(m, i)
    BY <1>2, <1>3, HostNone
  <2> QED BY <1>3, <2>1, <2>2 DEF Own
<1>7. KeptModule(w) /\ \A b : InModule(w, b) <=> InModule(m, b)
  BY <1>2, <1>3, <1>5, <1>6, InModuleSame
<1>8. Sound(d)
  BY <1>1, <1>4, <1>7, SoundSame
<1> QED BY <1>1, <1>3, <1>4, <1>8

LEMMA CloseExports ==
    ASSUME IInv, CloseSection("export")
    PROVE  IInv'
<1>1. Parsing("export") /\ todo = 0 /\ "export" \in DOMAIN ArrayOf
  BY SectionFacts DEF CloseSection
<1>2. PICK st, r, s, d : st = St /\ r = ExportOrderRun(Start(st)) /\ s = r.now /\ d = WithOrder(s)
  OBVIOUS
<1>3. Ends("export", r, d)
  <2>1. CloseRun("export") = r /\ Closed("export", r.now) = d
    BY <1>2 DEF CloseRun, Closed, WithOrder
  <2> QED BY <2>1 DEF CloseSection, Ends
<1>4. Sound(st) /\ ParseOK(st.m, st.loc, "export", 0, last) /\ st.m.ptr["functions"] = {} /\ IsModule(st.m)
  BY <1>1, <1>2, ClosingFacts
<1>5. st.loc = NoLocals /\ st.m.ptr["export_order"] = {}
  BY <1>4, LocalsOKNone DEF ParseOK, Ahead
<1>6. SafeRead(r) /\ s.loc = NoLocals /\ OrderOnly(s.m, st.m) /\ s.m.cap["export_order"] = st.m.cnt["exports"]
  BY <1>2, <1>4, <1>5, OrderAllocated
<1>7. Sound(s) /\ s.m.ptr["functions"] = {}
  BY <1>2, <1>6, RunFacts DEF SafeRead
<1>8. Sound(d) /\ d.loc = s.loc /\ OrderOnly(d.m, s.m) /\ d.m.cap = s.m.cap
  <2>1. s.m.cap["export_order"] = s.m.cnt["exports"]
    BY <1>6 DEF OrderOnly
  <2> QED BY <1>2, <1>7, <2>1, OrderedSound
<1>9. OrderOnly(d.m, st.m) /\ d.m.cap["export_order"] = st.m.cnt["exports"]
  BY <1>6, <1>8 DEF OrderOnly
<1>10. ParseOK(d.m, NoLocals, "none", 0, last)
  BY <1>4, <1>9, OrderShape
<1> QED BY <1>1, <1>3, <1>6, <1>8, <1>10, EndsIInv

\* The import arrays of w are those of l, and all else is that of m.
ImportedFrom(w, m, l) ==
    /\ IsModule(w) /\ SameRest(w, m)
    /\ \A a \in ImportArrays : w.cnt[a] = l.cnt[a] /\ w.ptr[a] = l.ptr[a] /\ w.cap[a] = l.cap[a]
                               /\ w.own[a] = l.own[a] /\ w.ent[a] = l.ent[a]
    /\ \A a \in Arrays : a \notin ImportArrays =>
          w.cnt[a] = m.cnt[a] /\ w.ptr[a] = m.ptr[a] /\ w.cap[a] = m.cap[a] /\ w.own[a] = m.own[a] /\ w.ent[a] = m.ent[a]

LEMMA ImportedFields ==
    ASSUME NEW m, IsModule(m), NEW l, IsLocals(l), NEW w, w = Imported(m, l)
    PROVE  ImportedFrom(w, m, l)
<1>1. Laid(m, Arrays) /\ Laid(l, ImportArrays) /\ m.types_cap \in Nat
  BY DEF IsModule, IsLocals
<1>2. PICK ptr, cap, own, ent, cnt :
        /\ cnt = [a \in Arrays |-> IF a \in ImportArrays THEN l.cnt[a] ELSE m.cnt[a]]
        /\ ptr = [a \in Arrays |-> IF a \in ImportArrays THEN l.ptr[a] ELSE m.ptr[a]]
        /\ cap = [a \in Arrays |-> IF a \in ImportArrays THEN l.cap[a] ELSE m.cap[a]]
        /\ own = [a \in Arrays |-> IF a \in ImportArrays THEN l.own[a] ELSE m.own[a]]
        /\ ent = [a \in Arrays |-> IF a \in ImportArrays THEN l.ent[a] ELSE m.ent[a]]
  OBVIOUS
<1>3. w = [m EXCEPT !.cnt = cnt, !.ptr = ptr, !.cap = cap, !.own = own, !.ent = ent]
  BY <1>2 DEF Imported
<1>4. /\ w.ptr = ptr /\ w.cap = cap /\ w.own = own /\ w.ent = ent /\ w.cnt = cnt /\ SameRest(w, m)
      /\ w = [cnt |-> w.cnt, ptr |-> w.ptr, cap |-> w.cap, own |-> w.own, ent |-> w.ent,
            types_cap |-> w.types_cap, declared |-> w.declared, start |-> w.start,
            has_data_count_section |-> w.has_data_count_section,
            min_data_segment_count_required |-> w.min_data_segment_count_required]
  BY <1>3 DEF IsModule, SameRest
<1>5. /\ \A a \in ImportArrays : cnt[a] = l.cnt[a] /\ ptr[a] = l.ptr[a] /\ cap[a] = l.cap[a] /\ own[a] = l.own[a]
                                 /\ ent[a] = l.ent[a]
      /\ \A a \in Arrays : a \notin ImportArrays =>
            cnt[a] = m.cnt[a] /\ ptr[a] = m.ptr[a] /\ cap[a] = m.cap[a] /\ own[a] = m.own[a] /\ ent[a] = m.ent[a]
  <2>1. ImportArrays \subseteq Arrays
    BY OtherArraysFacts
  <2> QED BY <1>2, <2>1
<1>6. /\ DOMAIN cnt = Arrays /\ DOMAIN cap = Arrays /\ DOMAIN ptr = Arrays /\ DOMAIN own = Arrays /\ DOMAIN ent = Arrays
      /\ cnt = [a \in Arrays |-> cnt[a]] /\ cap = [a \in Arrays |-> cap[a]]
  BY <1>2
<1>7. ASSUME NEW a \in Arrays
      PROVE  /\ cnt[a] \in Nat /\ cap[a] \in Nat /\ DOMAIN own[a] = 1..cap[a] /\ DOMAIN ent[a] = 1..cap[a]
             /\ ptr[a] \in {{}, Pointer(a)} /\ (ptr[a] = {} => cap[a] = 0)
  <2>1. CASE a \in ImportArrays
    BY <1>1, <1>5, <2>1 DEF Laid
  <2>2. CASE a \notin ImportArrays
    BY <1>1, <1>5, <2>2 DEF Laid
  <2> QED BY <2>1, <2>2
<1>8. cnt \in [Arrays -> Nat] /\ cap \in [Arrays -> Nat]
  BY <1>6, <1>7
<1>9. Laid(w, Arrays)
  BY <1>4, <1>6, <1>7, <1>8 DEF Laid
<1>10. IsModule(w)
  BY <1>1, <1>4, <1>9 DEF IsModule, SameRest
<1> QED BY <1>4, <1>5, <1>10 DEF ImportedFrom

ImportClosed(st) == [m |-> Imported(st.m, st.loc), loc |-> NoLocals, h |-> st.h]

LEMMA ImportedSound ==
    ASSUME NEW st, Sound(st), st.m.ptr["functions"] = {}, \A a \in ImportArrays : st.m.ptr[a] = {}, st.loc.held = {},
           NEW d, d = ImportClosed(st)
    PROVE  Sound(d) /\ d.loc = NoLocals /\ ImportedFrom(d.m, st.m, st.loc)
<1>1. PICK m, l, w : m = st.m /\ l = st.loc /\ w = d.m
  OBVIOUS
<1>2. w = Imported(m, l) /\ d.loc = NoLocals /\ d.h = st.h /\ d = [m |-> d.m, loc |-> d.loc, h |-> d.h]
  BY <1>1 DEF ImportClosed
<1>3. /\ IsModule(m) /\ IsLocals(l) /\ KeptModule(m) /\ KeptLocal(l) /\ m.ptr["functions"] = {}
      /\ (\A a \in ImportArrays : m.ptr[a] = {}) /\ IsState(st)
  BY <1>1 DEF Sound, IsState
<1>4. ImportedFrom(w, m, l)
  BY <1>2, <1>3, ImportedFields
<1>5. /\ \A a \in ImportArrays : w.cnt[a] = l.cnt[a] /\ w.ptr[a] = l.ptr[a] /\ w.cap[a] = l.cap[a] /\ w.own[a] = l.own[a]
      /\ \A a \in Arrays : a \notin ImportArrays =>
            w.cnt[a] = m.cnt[a] /\ w.ptr[a] = m.ptr[a] /\ w.cap[a] = m.cap[a] /\ w.own[a] = m.own[a]
      /\ IsModule(w)
  BY <1>4 DEF ImportedFrom
<1>6. \A a \in ImportArrays : a \in Arrays /\ a \notin FlatArrays /\ a # "type_defs" /\ a # "exports" /\ a # "types"
  BY OtherArraysFacts DEF ImportArrays, FlatArrays
<1>7. \A a \in ImportArrays : Freed(w, a) = l.cnt[a]
  BY <1>5, <1>6, FreedFacts
<1>8. \A a \in Arrays : a \notin ImportArrays => Freed(w, a) = Freed(m, a)
  BY <1>5, <1>6, FreedFacts, TypeFieldsFacts
<1>9. \A i : ~Host(w, i) /\ ~Host(m, i)
  <2>1. w.ptr["functions"] = {}
    BY <1>3, <1>5, <1>6, TypeFieldsFacts DEF ImportArrays
  <2> QED BY <1>3, <2>1, HostNone
<1>10. \A a \in ImportArrays : \A i : Own(w, a, i) = l.own[a][i]
  BY <1>5, <1>6 DEF Own
<1>11. \A a \in Arrays : \A i : a \notin ImportArrays => Own(w, a, i) = Own(m, a, i)
  BY <1>5, <1>9 DEF Own
<1>12. KeptModule(w)
  <2>1. ASSUME NEW a \in Arrays, w.ptr[a] # {}
        PROVE  Freed(w, a) <= w.cap[a] /\ \A i \in 1..Freed(w, a) : \A b \in Own(w, a, i) : b[1] = a /\ b[2] = i
    <3>1. CASE a \in ImportArrays
      BY <1>3, <1>5, <1>7, <1>10, <2>1, <3>1 DEF KeptLocal
    <3>2. CASE a \notin ImportArrays
      BY <1>3, <1>5, <1>8, <1>11, <2>1, <3>2 DEF KeptModule
    <3> QED BY <3>1, <3>2
  <2> QED BY <2>1 DEF KeptModule
<1>13. ASSUME NEW b PROVE InModule(w, b) <=> (InModule(m, b) \/ InLocal(l, b))
  <2>1. CASE b[1] \in ImportArrays
    <3>1. ~InModule(m, b)
      BY <1>3, <2>1 DEF InModule
    <3> QED BY <1>5, <1>6, <1>7, <1>10, <2>1, <3>1 DEF InModule, InLocal
  <2>2. CASE b[1] \notin ImportArrays
    <3>1. ~InLocal(l, b)
      BY <2>2 DEF InLocal
    <3> QED BY <1>5, <1>8, <1>11, <2>2, <3>1 DEF InModule
  <2> QED BY <2>1, <2>2
<1>14. Sound(d)
  <2>1. d.h.bad = FALSE /\ d.h = [live |-> d.h.live, bad |-> d.h.bad]
    BY <1>2, <1>3 DEF Sound, IsState
  <2>2. \A b : b \in d.h.live <=> InModule(d.m, b)
    BY <1>1, <1>2, <1>13 DEF Sound
  <2> QED BY <1>1, <1>2, <1>5, <1>12, <2>1, <2>2, SoundAlone
<1> QED BY <1>1, <1>2, <1>4, <1>14

LEMMA ImportedShape ==
    ASSUME NEW m, IsModule(m), NEW l, NEW k, ParseOK(m, l, "import", 0, k), NEW m2, ImportedFrom(m2, m, l)
    PROVE  ParseOK(m2, NoLocals, "none", 0, k)
<1>1. /\ Fit(m) /\ k = 2 /\ Ahead(m, "import", k) /\ \A a \in ImportArrays : l.ptr[a] = {} => l.cnt[a] = 0
  BY OrderFacts DEF ParseOK, LocalsOK
<1>2. \A a \in Arrays : a \notin ImportArrays => m2.cnt[a] = m.cnt[a] /\ m2.ptr[a] = m.ptr[a] /\ m2.cap[a] = m.cap[a]
  BY DEF ImportedFrom
<1>3. \A a \in ImportArrays : m2.cnt[a] = l.cnt[a] /\ m2.ptr[a] = l.ptr[a] /\ a \in Arrays /\ a \notin FlatArrays /\ a # "type_defs"
  BY OtherArraysFacts DEF ImportedFrom, ImportArrays, FlatArrays
<1>4. /\ "types" \notin ImportArrays /\ "type_defs" \notin ImportArrays /\ "typeidx_to_repr" \notin ImportArrays
      /\ "canonical_map" \notin ImportArrays /\ "repr_infos" \notin ImportArrays /\ "declared_funcs" \notin ImportArrays
      /\ "exports" \notin ImportArrays /\ "export_order" \notin ImportArrays /\ "functions" \notin ImportArrays
  BY DEF ImportArrays
<1>5. Counted0(m2)
  <2>1. SUFFICES ASSUME NEW a \in Growing, m2.ptr[a] = {} PROVE Freed(m2, a) = 0
    BY DEF Counted0, Freed
  <2>2. CASE a \in ImportArrays
    BY <1>1, <1>3, <2>1, <2>2, FreedFacts
  <2>3. CASE a \notin ImportArrays
    <3>1. a \in Arrays /\ Freed(m, a) = 0
      BY <1>1, <1>2, <2>1, <2>3, OtherArraysFacts DEF Fit, Counted0, Freed
    <3> QED BY <1>2, <1>4, <2>3, <3>1, FreedFacts, TypeFieldsFacts
  <2> QED BY <2>2, <2>3
<1>6. m2.types_cap = m.types_cap
  BY DEF ImportedFrom, SameRest
<1>7. TypesFit(m2)
  BY <1>1, <1>2, <1>4, <1>6, TypeFieldsFacts DEF Fit, TypesFit
<1>8. ReprsFit(m2)
  BY <1>1, <1>2, <1>4, TypeFieldsFacts DEF Fit, ReprsFit
<1>9. m2.ptr["declared_funcs"] = {} /\ m2.ptr["export_order"] = {} /\ NoArray(m2, "functions")
  BY <1>1, <1>2, <1>4, TypeFieldsFacts DEF Ahead, NoArray
<1>10. Fit(m2)
  BY <1>5, <1>7, <1>8, <1>9 DEF Fit, DeclaredFit
<1>11. \A s \in DOMAIN ArrayOf : k < Order[s] => m2.ptr[ArrayOf[s]] = {} /\ (s # "data" => m2.cnt[ArrayOf[s]] = 0)
  <2>1. \A s \in DOMAIN ArrayOf : ArrayOf[s] \in Arrays /\ ArrayOf[s] \notin ImportArrays
    BY SectionArrays, OtherArraysFacts
  <2> QED BY <1>1, <1>2, <2>1 DEF Ahead
<1>12. Ahead(m2, "none", k)
  BY <1>1, <1>9, <1>11 DEF Ahead
<1>13. m2.cnt["exports"] = 0
  BY <1>1, <1>11, SectionFacts, OrderFacts
<1>14. ExportsBelow(m2, Limit(m2, "func"))
  BY <1>13 DEF ExportsBelow
<1>15. Room(m2, "none", 0) /\ LocalsOK(NoLocals, "none")
  BY LocalsOKNone DEF Room
<1> QED BY <1>1, <1>10, <1>12, <1>14, <1>15 DEF ParseOK

LEMMA CloseImports ==
    ASSUME IInv, CloseSection("import")
    PROVE  IInv'
<1>1. Parsing("import") /\ todo = 0 /\ "import" \in DOMAIN ArrayOf
  BY SectionFacts DEF CloseSection
<1>2. PICK st, r, d : st = St /\ r = Start(st) /\ d = ImportClosed(st)
  OBVIOUS
<1>3. Ends("import", r, d)
  <2>1. CloseRun("import") = r /\ Closed("import", r.now) = d
    BY <1>2, StartFacts DEF CloseRun, Closed, ImportClosed
  <2> QED BY <2>1 DEF CloseSection, Ends
<1>4. Sound(st) /\ ParseOK(st.m, st.loc, "import", 0, last) /\ st.m.ptr["functions"] = {} /\ IsModule(st.m)
  BY <1>1, <1>2, ClosingFacts
<1>5. st.loc.held = {} /\ \A a \in ImportArrays : st.m.ptr[a] = {}
  BY <1>4 DEF ParseOK, LocalsOK, Ahead, NoArray
<1>6. Sound(d) /\ d.loc = NoLocals /\ ImportedFrom(d.m, st.m, st.loc)
  BY <1>2, <1>4, <1>5, ImportedSound
<1>7. ParseOK(d.m, NoLocals, "none", 0, last)
  BY <1>4, <1>6, ImportedShape
<1>8. SafeRead(r)
  BY <1>2, <1>4, StartSafe
<1> QED BY <1>1, <1>3, <1>6, <1>7, <1>8, EndsIInv

LEMMA CloseStep ==
    ASSUME IInv, NEW s \in DOMAIN ArrayOf, CloseSection(s)
    PROVE  IInv'
BY CloseOther, CloseTypes, CloseImports, CloseExports, CloseCode

-----------------------------------------------------------------------------
(* The beginning of a section                                                *)

Recounted(m, a, c) == [m EXCEPT !.cnt[a] = c]

LEMMA RecountedFields ==
    ASSUME NEW m, IsModule(m), NEW a \in Arrays, NEW c \in Nat, NEW w, w = Recounted(m, a, c)
    PROVE  /\ IsModule(w) /\ SameRest(w, m) /\ w.ptr = m.ptr /\ w.cap = m.cap /\ w.own = m.own /\ w.ent = m.ent
           /\ w.cnt[a] = c /\ \A d \in Arrays : d # a => w.cnt[d] = m.cnt[d]
<1>1. Laid(m, Arrays) /\ m.types_cap \in Nat /\ m.cnt \in [Arrays -> Nat]
  BY DEF IsModule, Laid
<1>2. PICK f : f = [m.cnt EXCEPT ![a] = c]
  OBVIOUS
<1>3. w = [m EXCEPT !.cnt = f]
  BY <1>2 DEF Recounted, IsModule
<1>4. /\ w.ptr = m.ptr /\ w.cap = m.cap /\ w.own = m.own /\ w.ent = m.ent /\ w.cnt = f /\ SameRest(w, m)
      /\ w = [cnt |-> w.cnt, ptr |-> w.ptr, cap |-> w.cap, own |-> w.own, ent |-> w.ent,
            types_cap |-> w.types_cap, declared |-> w.declared, start |-> w.start,
            has_data_count_section |-> w.has_data_count_section,
            min_data_segment_count_required |-> w.min_data_segment_count_required]
  BY <1>3 DEF IsModule, SameRest
<1>5. f \in [Arrays -> Nat] /\ f[a] = c /\ \A d \in Arrays : d # a => f[d] = m.cnt[d]
  BY <1>1, <1>2
<1>6. Laid(w, Arrays)
  BY <1>1, <1>4, <1>5 DEF Laid
<1>7. IsModule(w)
  BY <1>1, <1>4, <1>6 DEF IsModule, SameRest
<1> QED BY <1>4, <1>5, <1>7

\* Array a of w is new, with room for n entries of which c are counted; all else is that of m.
Opens(w, m, a, n, c) ==
    /\ IsModule(w) /\ SameRest(w, m) /\ w.cnt[a] = c /\ w.cap[a] = n
    /\ w.ptr[a] = IF n = 0 THEN {} ELSE Pointer(a)
    /\ \A d \in Arrays : d # a =>
          /\ w.cnt[d] = m.cnt[d] /\ w.ptr[d] = m.ptr[d] /\ w.cap[d] = m.cap[d]
          /\ m.ptr[d] # {} => w.own[d] = m.own[d] /\ w.ent[d] = m.ent[d]

LEMMA WithoutFields ==
    ASSUME NEW m, IsModule(m), NEW A, A \subseteq Arrays, NEW w, w = Without(m, A)
    PROVE  /\ UndoneFrom(w, m, A, {}) /\ w.cnt = m.cnt
<1>1. PICK u : u = Undo(m, A, {})
  OBVIOUS
<1>2. UndoneFrom(u, m, A, {})
  BY <1>1, UndoFields
<1>3. m.cnt \in [Arrays -> Nat] /\ w.cnt = m.cnt
  BY DEF IsModule, Laid, Without
<1>4. [a \in Arrays |-> IF a \in A \cap {} THEN 0 ELSE m.cnt[a]] = m.cnt
  BY <1>3
<1>5. [w EXCEPT !.cnt = m.cnt] = w
  BY <1>3 DEF IsModule, Without
<1>6. u = w
  <2>1. u = [w EXCEPT !.cnt = [a \in Arrays |-> IF a \in A \cap {} THEN 0 ELSE w.cnt[a]]]
    BY <1>1 DEF Undo
  <2> QED BY <1>3, <1>4, <1>5, <2>1
<1> QED BY <1>2, <1>3, <1>6

LEMMA NewArrayOpens ==
    ASSUME NEW m, IsModule(m), NEW a \in Arrays, NEW n \in Nat, NEW w, w = NewArray(m, a, n)
    PROVE  Opens(w, m, a, n, m.cnt[a])
<1>1. PICK u, A : A = {a} /\ u = Without(m, A)
  OBVIOUS
<1>2. UndoneFrom(u, m, A, {}) /\ u.cnt = m.cnt
  BY <1>1, WithoutFields
<1>3. /\ IsModule(u) /\ SameRest(u, m) /\ u.ptr[a] = {} /\ u.cap[a] = 0
      /\ \A d \in Arrays : d # a => u.ptr[d] = m.ptr[d] /\ u.cap[d] = m.cap[d] /\ u.own[d] = m.own[d] /\ u.ent[d] = m.ent[d]
  BY <1>1, <1>2 DEF UndoneFrom
<1>4. CASE n = 0
  <2>1. w = u
    BY <1>1, <1>4 DEF NewArray
  <2> QED BY <1>2, <1>3, <1>4, <2>1 DEF Opens
<1>5. CASE n # 0
  <2>1. w = Resized(u, a, n)
    BY <1>1, <1>5 DEF NewArray
  <2>2. PICK st, t : st = [m |-> u, loc |-> NoLocals, h |-> NoHeap] /\ t = Step(st, Resize(a, n))
    OBVIOUS
  <2>3. st.m = u /\ IsState(st)
    BY <1>3, <2>2, NoLocalsFacts DEF IsState, NoHeap
  <2>4. t.m = w
    <3>1. t = [st EXCEPT !.m = Resized(st.m, a, n), !.h = Alloc(st.h, Pointer(a))]
      BY <2>2 DEF Step, Resize
    <3> QED BY <2>1, <2>3, <3>1 DEF IsState
  <2>5. /\ IsState(t) /\ t.m.cnt = u.cnt /\ t.m.ptr = Put(u.ptr, a, Pointer(a)) /\ t.m.cap = Put(u.cap, a, n)
        /\ t.m.own = Put(u.own, a, Realloc(u.own[a], u.cap[a], n, Garbage.own))
        /\ t.m.ent = Put(u.ent, a, Realloc(u.ent[a], u.cap[a], n, Garbage.e)) /\ SameRest(t.m, u)
    <3>1. t = Step(st, Resize(a, n))
      BY <2>2
    <3>2. /\ IsState(t) /\ t.m.cnt = st.m.cnt /\ t.m.ptr = Put(st.m.ptr, a, Pointer(a)) /\ t.m.cap = Put(st.m.cap, a, n)
          /\ t.m.own = Put(st.m.own, a, Realloc(st.m.own[a], st.m.cap[a], n, Garbage.own))
          /\ t.m.ent = Put(st.m.ent, a, Realloc(st.m.ent[a], st.m.cap[a], n, Garbage.e)) /\ SameRest(t.m, st.m)
      BY <2>3, <3>1, ResizeFields
    <3> QED BY <2>3, <3>2
  <2>6. DOMAIN u.ptr = Arrays /\ DOMAIN u.cap = Arrays /\ DOMAIN u.own = Arrays /\ DOMAIN u.ent = Arrays
    BY <1>3 DEF IsModule, Laid
  <2>7. w.ptr[a] = Pointer(a) /\ w.cap[a] = n /\ \A d \in Arrays : d # a => w.ptr[d] = u.ptr[d] /\ w.cap[d] = u.cap[d]
    BY <2>4, <2>5, <2>6 DEF Put
  <2>8. \A d \in Arrays : d # a => w.own[d] = u.own[d]
    BY <2>4, <2>5, <2>6 DEF Put
  <2>9. \A d \in Arrays : d # a => w.ent[d] = u.ent[d]
    BY <2>4, <2>5, <2>6 DEF Put
  <2>10. IsModule(w) /\ SameRest(w, m) /\ w.cnt = m.cnt
    BY <1>2, <1>3, <2>4, <2>5 DEF IsState, SameRest
  <2> QED BY <1>3, <1>5, <2>7, <2>8, <2>9, <2>10 DEF Opens
<1> QED BY <1>4, <1>5

LEMMA OpensRecounted ==
    ASSUME NEW m, NEW x, NEW a \in Arrays, NEW n, NEW c0, Opens(x, m, a, n, c0), NEW c \in Nat, NEW w, w = Recounted(x, a, c)
    PROVE  Opens(w, m, a, n, c)
<1>1. IsModule(x)
  BY DEF Opens
<1>2. /\ IsModule(w) /\ SameRest(w, x) /\ w.ptr = x.ptr /\ w.cap = x.cap /\ w.own = x.own /\ w.ent = x.ent
      /\ w.cnt[a] = c /\ \A d \in Arrays : d # a => w.cnt[d] = x.cnt[d]
  BY <1>1, RecountedFields
<1> QED BY <1>2 DEF Opens, SameRest

LEMMA OpensSelf ==
    ASSUME NEW m, IsModule(m), NEW a \in Arrays, m.ptr[a] = {}
    PROVE  Opens(m, m, a, 0, m.cnt[a])
BY DEF Opens, SameRest, IsModule, Laid

\* The heap of a section that begins: the block of the array is allocated when there is one.
HeapOpened(h2, h, a, n) ==
    /\ h2 = [live |-> h2.live, bad |-> h2.bad] /\ h2.bad = h.bad
    /\ \A b : b \in h2.live <=> (b \in h.live \/ (n # 0 /\ b = ArrayBlock(a)))

LEMMA OpensSound ==
    ASSUME NEW st, Sound(st), st.loc = NoLocals, st.m.ptr["functions"] = {}, NEW a \in Arrays, a # "functions", a # "type_defs",
           st.m.ptr[a] = {}, a = "types" => st.m.ptr["type_defs"] = {}, NEW n \in Nat, NEW c, NEW w, Opens(w, st.m, a, n, c),
           c = 0 \/ a \in FlatArrays \/ n = 0,
           NEW h2, HeapOpened(h2, st.h, a, n), NEW d, d = [m |-> w, loc |-> NoLocals, h |-> h2]
    PROVE  Sound(d)
<1>1. PICK m : m = st.m
  OBVIOUS
<1>2. /\ IsModule(m) /\ KeptModule(m) /\ m.ptr["functions"] = {} /\ m.ptr[a] = {} /\ (a = "types" => m.ptr["type_defs"] = {})
      /\ Opens(w, m, a, n, c) /\ st.h.bad = FALSE
  BY <1>1 DEF Sound, IsState
<1>3. /\ IsModule(w) /\ w.cnt[a] = c /\ w.cap[a] = n /\ (n = 0 => w.ptr[a] = {}) /\ (n # 0 => w.ptr[a] = Pointer(a))
      /\ \A x \in Arrays : x # a =>
            /\ w.cnt[x] = m.cnt[x] /\ w.ptr[x] = m.ptr[x] /\ w.cap[x] = m.cap[x]
            /\ m.ptr[x] # {} => w.own[x] = m.own[x]
  BY <1>2 DEF Opens
<1>4. \A x \in Arrays : (x # a /\ m.ptr[x] # {}) => Freed(w, x) = Freed(m, x)
  <2>1. SUFFICES ASSUME NEW x \in Arrays, x # a, m.ptr[x] # {} PROVE Freed(w, x) = Freed(m, x)
    OBVIOUS
  <2>2. x = "type_defs" => a # "types"
    BY <1>2, <2>1
  <2> QED BY <1>3, <2>1, <2>2, FreedFacts, TypeFieldsFacts
<1>5. n # 0 => Freed(w, a) = 0
  BY <1>3, FreedFacts
<1>6. \A i : ~Host(w, i) /\ ~Host(m, i)
  BY <1>2, <1>3, HostNone, TypeFieldsFacts
<1>7. \A x \in Arrays : \A i : (x # a /\ m.ptr[x] # {}) => Own(w, x, i) = Own(m, x, i)
  BY <1>3, <1>6 DEF Own
<1>8. KeptModule(w)
  <2>1. ASSUME NEW x \in Arrays, w.ptr[x] # {}
        PROVE  Freed(w, x) <= w.cap[x] /\ \A i \in 1..Freed(w, x) : \A b \in Own(w, x, i) : b[1] = x /\ b[2] = i
    <3>1. CASE x = a
      BY <1>3, <1>5, <2>1, <3>1
    <3>2. CASE x # a
      BY <1>2, <1>3, <1>4, <1>7, <2>1, <3>2 DEF KeptModule
    <3> QED BY <3>1, <3>2
  <2> QED BY <2>1 DEF KeptModule
<1>9. ASSUME NEW b PROVE InModule(w, b) <=> (InModule(m, b) \/ (n # 0 /\ b = ArrayBlock(a)))
  <2>1. CASE b[1] = a
    <3>1. ~InModule(m, b)
      BY <1>2, <2>1 DEF InModule
    <3>2. CASE n = 0
      BY <1>3, <2>1, <3>1, <3>2 DEF InModule
    <3>3. CASE n # 0
      <4>1. w.ptr[a] # {} /\ Freed(w, a) = 0
        BY <1>3, <1>5, <3>3 DEF Pointer
      <4> QED BY <2>1, <3>1, <3>3, <4>1 DEF InModule
    <3> QED BY <3>2, <3>3
  <2>2. CASE b[1] # a
    <3>1. b # ArrayBlock(a)
      BY <2>2, ArrayBlockFacts
    <3> QED BY <1>3, <1>4, <1>7, <2>2, <3>1 DEF InModule
  <2> QED BY <2>1, <2>2
<1>10. \A b : b \in st.h.live <=> InModule(m, b)
  BY <1>1, NoHeld DEF Sound
<1>11. d.m = w /\ d.loc = NoLocals /\ d.h = h2
  OBVIOUS
<1>12. \A b : b \in d.h.live <=> InModule(d.m, b)
  BY <1>9, <1>10, <1>11 DEF HeapOpened
<1>13. d = [m |-> d.m, loc |-> d.loc, h |-> d.h] /\ d.h = [live |-> d.h.live, bad |-> d.h.bad] /\ d.h.bad = FALSE
  BY <1>2, <1>11 DEF HeapOpened
<1> QED BY <1>3, <1>8, <1>11, <1>12, <1>13, SoundAlone

\* The slots the array of section s begins with.
Slots(s, n) == IF s = "type" THEN 0 ELSE n

LEMMA CountThenFacts ==
    ASSUME NEW s \in DOMAIN ArrayOf, NEW n \in Nat, NEW old \in Nat
    PROVE  /\ CountThen(s, n, old) \in Nat /\ CountFirst(s, n, old) \in Nat
           /\ (s \in {"type", "import", "table", "global", "export", "element", "code"} => CountThen(s, n, old) = 0)
           /\ (s = "data" /\ n > 0 => CountThen(s, n, old) = 0)
           /\ (s \in {"function", "memory", "tag"} => ArrayOf[s] \in FlatArrays)
           /\ (CountThen(s, n, old) = 0 \/ ArrayOf[s] \in FlatArrays \/ n = 0)
<1>1. s \in {"type", "import", "function", "table", "memory", "tag", "global", "export", "element", "code", "data"}
  BY SectionFacts
<1>2. CountThen(s, n, old) = IF s \in {"function", "memory", "tag"} THEN n ELSE IF s = "data" /\ n = 0 THEN old ELSE 0
  BY DEF CountThen
<1>3. CountFirst(s, n, old) \in Nat
  BY DEF CountFirst
<1>4. s \in {"function", "memory", "tag"} => ArrayOf[s] \in FlatArrays
  BY SectionFacts DEF FlatArrays
<1> QED BY <1>1, <1>2, <1>3, <1>4

LEMMA OpensFit ==
    ASSUME NEW m, IsModule(m), NEW k \in Nat, Fit(m), Ahead(m, "none", k), NEW s \in DOMAIN ArrayOf, k < Order[s],
           NEW a, a = ArrayOf[s], NEW n, NEW w, NEW c, Opens(w, m, a, n, c), (a \in Growing \/ a = "types") => c = 0
    PROVE  Fit(w)
<1>1. a \in Arrays /\ a \notin OtherArrays
  BY SectionArrays
<1>2. /\ IsModule(w) /\ SameRest(w, m) /\ w.cnt[a] = c
      /\ \A d \in Arrays : d # a => w.cnt[d] = m.cnt[d] /\ w.ptr[d] = m.ptr[d] /\ w.cap[d] = m.cap[d]
  BY DEF Opens
<1>3. m.ptr[a] = {} /\ w.types_cap = m.types_cap /\ "types" \in Growing /\ "type_defs" \in Growing
  BY <1>2 DEF Ahead, SameRest, Growing
<1>4. a = "types" => m.cnt["types"] = 0 /\ m.types_cap = 0
  <2>1. a = "types" => FreedEntries(m)["types"] = 0 /\ m.cap["types"] = 0
    BY <1>3, TypeFieldsFacts DEF Fit, Counted0, IsModule, Laid
  <2>2. m.types_cap \in Nat /\ m.types_cap <= m.cap["types"]
    BY DEF Fit, TypesFit, IsModule
  <2> QED BY <2>1, <2>2, FreedFacts, TypeFieldsFacts DEF Freed
<1>5. Counted0(w)
  <2>1. SUFFICES ASSUME NEW d \in Growing, w.ptr[d] = {} PROVE Freed(w, d) = 0
    BY DEF Counted0, Freed
  <2>2. (d \in Arrays /\ d # "type_defs") \/ d = "type_defs"
    BY OtherArraysFacts
  <2>3. CASE d = a
    BY <1>1, <1>2, <2>1, <2>3, FreedFacts DEF OtherArrays
  <2>4. CASE d # a
    <3>1. d \in Arrays /\ Freed(m, d) = 0
      BY <1>2, <2>1, <2>4, OtherArraysFacts DEF Fit, Counted0, Freed
    <3>2. CASE d = "type_defs"
      <4>1. w.cnt["types"] = 0
        BY <1>2, <1>3, <3>1, <3>2, FreedFacts, TypeFieldsFacts
      <4> QED BY <3>2, <4>1, FreedFacts, TypeFieldsFacts
    <3>3. CASE d # "type_defs"
      BY <1>2, <2>4, <3>1, <3>3, FreedFacts
    <3> QED BY <3>2, <3>3
  <2> QED BY <2>3, <2>4
<1>6. TypesFit(w)
  <2>1. a # "type_defs" /\ a # "typeidx_to_repr" /\ a # "canonical_map"
    BY <1>1 DEF OtherArrays
  <2>2. CASE a = "types"
    <3>1. w.cap \in [Arrays -> Nat]
      BY <1>2 DEF IsModule, Laid
    <3>2. w.types_cap = 0 /\ w.cnt["types"] = 0 /\ 0 <= w.cap["types"]
      BY <1>2, <1>3, <1>4, <2>2, <3>1, TypeFieldsFacts
    <3> QED BY <1>2, <2>1, <2>2, <3>1, <3>2, TypeFieldsFacts DEF TypesFit
  <2>3. CASE a # "types"
    BY <1>2, <1>3, <2>1, <2>3, TypeFieldsFacts DEF Fit, TypesFit
  <2> QED BY <2>2, <2>3
<1>7. ReprsFit(w)
  BY <1>1, <1>2, TypeFieldsFacts DEF Fit, ReprsFit, OtherArrays
<1>8. DeclaredFit(w)
  <2>1. a # "declared_funcs" /\ a # "func_imports"
    BY <1>1 DEF OtherArrays, ImportArrays
  <2>2. CASE a = "function_type_indices"
    <3>1. s = "function"
      BY <2>2, SectionArrays, SectionFacts
    <3>2. m.ptr["declared_funcs"] = {}
      BY <3>1, OrderFacts DEF Ahead
    <3> QED BY <1>2, <2>1, <3>2, TypeFieldsFacts DEF DeclaredFit
  <2>3. CASE a # "function_type_indices"
    <3>1. Limit(w, "func") = Limit(m, "func")
      BY <1>2, <2>1, <2>3, OtherArraysFacts, LimitNat
    <3> QED BY <1>2, <2>1, <3>1, TypeFieldsFacts DEF Fit, DeclaredFit
  <2> QED BY <2>2, <2>3
<1> QED BY <1>5, <1>6, <1>7, <1>8 DEF Fit

LEMMA OpensShape ==
    ASSUME NEW m, IsModule(m), NEW k \in Nat, NEW n0, ParseOK(m, NoLocals, "none", n0, k), NEW s \in DOMAIN ArrayOf, k < Order[s],
           NEW a, a = ArrayOf[s], NEW n \in Nat, NEW old \in Nat, NEW w, NEW c, c = CountThen(s, n, old), Opens(w, m, a, Slots(s, n), c)
    PROVE  ParseOK(w, NoLocals, s, n, Order[s])
<1>1. a \in Arrays /\ a \notin OtherArrays /\ Order[s] \in 1..13
  BY SectionArrays
<1>2. Fit(m) /\ Ahead(m, "none", k) /\ ExportsBelow(m, Limit(m, "func")) /\ (k < 8 \/ OrderFits(m))
  BY DEF ParseOK
<1>3. /\ IsModule(w) /\ w.cnt[a] = c /\ w.cap[a] = Slots(s, n)
      /\ \A d \in Arrays : d # a => w.cnt[d] = m.cnt[d] /\ w.ptr[d] = m.ptr[d] /\ w.cap[d] = m.cap[d]
      /\ \A d \in Arrays : (d # a /\ m.ptr[d] # {}) => w.ent[d] = m.ent[d]
  BY DEF Opens
<1>4. s \in {"type", "import", "function", "table", "memory", "tag", "global", "export", "element", "code", "data"}
  BY SectionFacts
<1>5. /\ (s \in {"type", "import", "table", "global", "export", "element", "code"} => c = 0)
      /\ (s = "data" /\ n > 0 => c = 0)
  BY CountThenFacts
<1>6. Fit(w)
  <2>1. (a \in Growing \/ a = "types") => c = 0
    BY <1>4, <1>5, SectionFacts DEF Growing, ImportArrays
  <2> QED BY <1>2, <2>1, OpensFit
<1>7. Ahead(w, s, Order[s])
  <2>1. \A t \in DOMAIN ArrayOf : Order[s] < Order[t] => w.ptr[ArrayOf[t]] = {} /\ (t # "data" => w.cnt[ArrayOf[t]] = 0)
    <3>1. SUFFICES ASSUME NEW t \in DOMAIN ArrayOf, Order[s] < Order[t]
                   PROVE  w.ptr[ArrayOf[t]] = {} /\ (t # "data" => w.cnt[ArrayOf[t]] = 0)
      OBVIOUS
    <3>2. Order[t] \in Nat /\ k < Order[t] /\ t # s /\ ArrayOf[t] # a /\ ArrayOf[t] \in Arrays
      BY <1>1, <3>1, SectionArrays
    <3> QED BY <1>2, <1>3, <3>2 DEF Ahead
  <2>2. \A d \in OtherArrays : w.cnt[d] = m.cnt[d] /\ w.ptr[d] = m.ptr[d]
    BY <1>1, <1>3, OtherArraysFacts
  <2>3. s = "type" => k < 1
    BY OrderFacts
  <2>4. (Order[s] < 2 \/ s = "import") => k < 2
    BY <1>1, OrderFacts
  <2>5. (Order[s] < 4 => k < 4) /\ ((Order[s] < 8 \/ s = "export") => k < 8) /\ ~(Order[s] < 1)
    BY <1>1, OrderFacts
  <2>6. (Order[s] < 1 \/ s = "type") => \A d \in Metadata : NoArray(w, d)
    BY <1>2, <2>2, <2>3, <2>5, OtherArraysFacts DEF Ahead, NoArray
  <2>7. (Order[s] < 2 \/ s = "import") => \A d \in ImportArrays : NoArray(w, d)
    BY <1>2, <2>2, <2>4, OtherArraysFacts DEF Ahead, NoArray
  <2>8. "declared_funcs" \in OtherArrays /\ "export_order" \in OtherArrays /\ "functions" \in OtherArrays
    BY DEF OtherArrays
  <2>9. (Order[s] < 4 => w.ptr["declared_funcs"] = {}) /\ ((Order[s] < 8 \/ s = "export") => w.ptr["export_order"] = {}) /\ NoArray(w, "functions")
    BY <1>2, <2>2, <2>5, <2>8 DEF Ahead, NoArray
  <2> QED BY <2>1, <2>5, <2>6, <2>7, <2>9 DEF Ahead
<1>8. Room(w, s, n)
  <2>1. c \in Nat /\ (s # "type" => w.cap[a] = n)
    BY <1>3, CountThenFacts DEF Slots
  <2>2. (s \in {"table", "global", "export", "element", "code"} \/ (s = "data" /\ n > 0)) => w.cap[ArrayOf[s]] = w.cnt[ArrayOf[s]] + n
    BY <1>3, <1>5, <2>1
  <2>3. (s \in {"function", "memory", "tag"} /\ n > 0) => n <= w.cap[ArrayOf[s]]
    BY <2>1
  <2> QED BY <2>2, <2>3 DEF Room
<1>9. LocalsOK(NoLocals, s)
  BY NoLocalsFacts DEF LocalsOK, CodeLocals, SameArrays
<1>10. k < 8 => m.cnt["exports"] = 0 /\ m.ptr["exports"] = {} /\ m.cap["exports"] = 0
  <2>1. k < 8 => m.cnt["exports"] = 0 /\ m.ptr["exports"] = {}
    BY <1>2, SectionFacts, OrderFacts DEF Ahead
  <2> QED BY <2>1, TypeFieldsFacts DEF IsModule, Laid
<1>11. ExportsBelow(w, Limit(w, "func"))
  <2>1. CASE a = "exports"
    <3>1. s = "export"
      BY <2>1, SectionArrays, SectionFacts
    <3>2. w.cnt["exports"] = 0
      BY <1>3, <1>5, <2>1, <3>1
    <3> QED BY <3>2 DEF ExportsBelow
  <2>2. CASE k < 8 /\ a # "exports"
    <3>1. w.cnt["exports"] = 0
      BY <1>3, <1>10, <2>2, TypeFieldsFacts
    <3> QED BY <3>1 DEF ExportsBelow
  <2>3. CASE ~(k < 8) /\ a # "exports"
    <3>1. s # "function"
      BY <2>3, OrderFacts
    <3>2. a # "function_type_indices" /\ a # "func_imports"
      BY <1>1, <3>1, SectionArrays, SectionFacts DEF OtherArrays, ImportArrays
    <3>3. Limit(w, "func") = Limit(m, "func")
      BY <1>3, <3>2, OtherArraysFacts, LimitNat
    <3>4. w.cnt["exports"] = m.cnt["exports"] /\ (m.ptr["exports"] # {} => w.ent["exports"] = m.ent["exports"])
      BY <1>3, <2>3, TypeFieldsFacts
    <3>5. m.ptr["exports"] = {} => m.cnt["exports"] = 0
      <4>1. "exports" \in Growing /\ Freed(m, "exports") = m.cnt["exports"]
        BY FreedFacts, TypeFieldsFacts DEF Growing, FlatArrays
      <4> QED BY <1>2, <4>1 DEF Fit, Counted0, Freed
    <3> QED BY <1>2, <3>3, <3>4, <3>5 DEF ExportsBelow
  <2> QED BY <2>1, <2>2, <2>3
<1>12. Order[s] < 8 \/ s = "export" \/ OrderFits(w)
  <2>1. CASE s # "export" /\ ~(Order[s] < 8)
    <3>1. a # "exports" /\ a # "export_order"
      BY <1>1, <2>1, SectionArrays, SectionFacts DEF OtherArrays
    <3>2. w.cap["exports"] = m.cap["exports"] /\ w.cap["export_order"] = m.cap["export_order"] /\ m.cap["export_order"] \in Nat
      BY <1>3, <3>1, TypeFieldsFacts DEF IsModule, Laid
    <3> QED BY <1>2, <1>10, <3>2 DEF OrderFits
  <2> QED BY <2>1
<1> QED BY <1>6, <1>7, <1>8, <1>9, <1>11, <1>12 DEF ParseOK

LEMMA NoneFacts ==
    ASSUME IInv, Parsing("none"), NEW st, st = St
    PROVE  /\ Sound(st) /\ st.loc = NoLocals /\ IsModule(st.m) /\ st.m.ptr["functions"] = {}
           /\ ParseOK(st.m, NoLocals, "none", todo, last) /\ last \in 0..13
<1>1. st.m = mod /\ st.loc = loc /\ st.h = heap
  BY StFields
<1>2. Sound(st) /\ ParseOK(mod, loc, "none", todo, last) /\ last \in 0..13
  BY DEF IInv, Parsing
<1>3. loc = NoLocals
  BY <1>2, LocalsOKNone DEF ParseOK
<1>4. mod.ptr["functions"] = {}
  BY <1>2 DEF ParseOK, Ahead, NoArray
<1> QED BY <1>1, <1>2, <1>3, <1>4 DEF Sound, IsState

\* The module of a section that begins,
Opened(s, n, m) ==
    IF s = "type" THEN [Without(Recounted(m, "types", CountFirst(s, n, m.cnt["types"])), {"types", "type_defs"}) EXCEPT !.types_cap = 0]
    ELSE Recounted(NewArray(m, ArrayOf[s], n), ArrayOf[s], CountThen(s, n, m.cnt[ArrayOf[s]]))

\* and of one that is refused.
Refused(s, n, m) == Recounted(m, ArrayOf[s], CountFirst(s, n, m.cnt[ArrayOf[s]]))

OpenHeap(s, h, S) == IF s = "type" THEN h ELSE Alloc(h, S)

LEMMA OpenedOther ==
    ASSUME NEW m, IsModule(m), NEW s \in DOMAIN ArrayOf, s # "type", NEW n \in Nat, NEW a, a = ArrayOf[s],
           NEW w, w = Opened(s, n, m)
    PROVE  Opens(w, m, a, n, CountThen(s, n, m.cnt[a]))
<1>1. a \in Arrays /\ m.cnt[a] \in Nat
  BY SectionArrays DEF IsModule, Laid
<1>2. CountThen(s, n, m.cnt[a]) \in Nat
  BY <1>1, CountThenFacts
<1>3. PICK x, c : x = NewArray(m, a, n) /\ c = CountThen(s, n, m.cnt[a])
  OBVIOUS
<1>4. Opens(x, m, a, n, m.cnt[a])
  BY <1>1, <1>3, NewArrayOpens
<1>5. w = Recounted(x, a, c) /\ c \in Nat
  BY <1>2, <1>3 DEF Opened
<1>6. Opens(w, m, a, n, c)
  BY <1>1, <1>4, <1>5, OpensRecounted
<1> QED BY <1>3, <1>6

LEMMA RecountedTypes ==
    ASSUME NEW m, IsModule(m), NEW x, x = Recounted(m, "types", 0)
    PROVE  /\ IsModule(x) /\ SameRest(x, m) /\ x.ptr = m.ptr /\ x.cap = m.cap /\ x.own = m.own /\ x.ent = m.ent
           /\ x.cnt["types"] = 0 /\ \A d \in Arrays : d # "types" => x.cnt[d] = m.cnt[d]
<1>1. PICK z, t : z = 0 /\ t = "types"
  OBVIOUS
<1>2. z \in Nat /\ t \in Arrays /\ x = Recounted(m, t, z)
  BY <1>1, TypeFieldsFacts
<1>3. /\ IsModule(x) /\ SameRest(x, m) /\ x.ptr = m.ptr /\ x.cap = m.cap /\ x.own = m.own /\ x.ent = m.ent
      /\ x.cnt[t] = z /\ \A d \in Arrays : d # t => x.cnt[d] = m.cnt[d]
  BY <1>2, RecountedFields
<1> QED BY <1>1, <1>3

LEMMA OpenedTypes ==
    ASSUME NEW m, IsModule(m), m.ptr["types"] = {}, m.ptr["type_defs"] = {}, m.types_cap = 0, NEW n \in Nat,
           NEW w, w = Opened("type", n, m)
    PROVE  Opens(w, m, "types", 0, CountThen("type", n, m.cnt["types"]))
<1>1. m.cnt["types"] \in Nat
  BY TypeFieldsFacts DEF IsModule, Laid
<1>2. CountFirst("type", n, m.cnt["types"]) = 0 /\ CountThen("type", n, m.cnt["types"]) = 0
  BY DEF CountFirst, CountThen
<1>3. PICK x, A, u : x = Recounted(m, "types", 0) /\ A = {"types", "type_defs"} /\ u = Without(x, A)
  OBVIOUS
<1>4. /\ IsModule(x) /\ SameRest(x, m) /\ x.ptr = m.ptr /\ x.cap = m.cap /\ x.own = m.own /\ x.ent = m.ent
      /\ x.cnt["types"] = 0 /\ \A d \in Arrays : d # "types" => x.cnt[d] = m.cnt[d]
  BY <1>3, RecountedTypes
<1>5. A \subseteq Arrays
  BY <1>3, TypeFieldsFacts
<1>6. UndoneFrom(u, x, A, {}) /\ u.cnt = x.cnt
  BY <1>3, <1>4, <1>5, WithoutFields
<1>7. /\ IsModule(u) /\ SameRest(u, x) /\ u.ptr["types"] = {} /\ u.cap["types"] = 0 /\ u.ptr["type_defs"] = {} /\ u.cap["type_defs"] = 0
      /\ \A d \in Arrays : (d # "types" /\ d # "type_defs") =>
            u.ptr[d] = x.ptr[d] /\ u.cap[d] = x.cap[d] /\ u.own[d] = x.own[d] /\ u.ent[d] = x.ent[d]
  BY <1>3, <1>6 DEF UndoneFrom
<1>8. u.types_cap = 0
  BY <1>4, <1>7 DEF SameRest
<1>9. w = [u EXCEPT !.types_cap = 0]
  BY <1>2, <1>3 DEF Opened
<1>10. w = u
  BY <1>7, <1>8, <1>9 DEF IsModule
<1>11. m.cap["type_defs"] = 0
  BY TypeFieldsFacts DEF IsModule, Laid
<1>12. SameRest(w, m)
  BY <1>4, <1>7, <1>10 DEF SameRest
<1>13. ASSUME NEW d \in Arrays, d # "types"
       PROVE  /\ w.cnt[d] = m.cnt[d] /\ w.ptr[d] = m.ptr[d] /\ w.cap[d] = m.cap[d]
              /\ m.ptr[d] # {} => w.own[d] = m.own[d] /\ w.ent[d] = m.ent[d]
  <2>1. w.cnt[d] = m.cnt[d]
    BY <1>4, <1>6, <1>10, <1>13
  <2>2. CASE d = "type_defs"
    BY <1>7, <1>10, <1>11, <2>1, <2>2
  <2>3. CASE d # "type_defs"
    BY <1>4, <1>7, <1>10, <1>13, <2>1, <2>3
  <2> QED BY <2>2, <2>3
<1> QED BY <1>2, <1>4, <1>6, <1>7, <1>10, <1>12, <1>13 DEF Opens

\* What opening a section does, with its definitions folded.
Opening(s, n) ==
    \/ /\ cur' = s /\ todo' = n /\ last' = Order[s] /\ UNCHANGED <<phase, spent>>
       /\ Now([m |-> Opened(s, n, mod), loc |-> NoLocals, h |-> OpenHeap(s, heap, Opened(s, n, mod).ptr[ArrayOf[s]])])
    \/ Abort(Cleanup(s, [m |-> Refused(s, n, mod), loc |-> NoLocals, h |-> heap]))

LEMMA OpenSectionFacts ==
    ASSUME NEW s \in DOMAIN ArrayOf, NEW n \in 0..MaxEntries, OpenSection(s, n), IsModule(mod)
    PROVE  Parsing("none") /\ last < Order[s] /\ Opening(s, n)
<1>1. Order[s] > last /\ Parsing("none")
  BY DEF OpenSection, SectionInOrder
<1>2. ArrayOf["type"] = "types" /\ ArrayOf[s] \in Arrays
  BY SectionFacts, SectionArrays
<1>3. NewArray(mod, ArrayOf[s], n).cnt[ArrayOf[s]] = mod.cnt[ArrayOf[s]]
  BY <1>2 DEF NewArray, Without, Resized, IsModule
<1>4. PICK counted, allocated, begun :
        /\ counted = [mod EXCEPT !.cnt[ArrayOf[s]] = CountFirst(s, n, @)]
        /\ allocated = [NewArray(mod, ArrayOf[s], n) EXCEPT !.cnt[ArrayOf[s]] = CountThen(s, n, @)]
        /\ begun = IF s = "type" THEN [Without(counted, {ArrayOf[s], "type_defs"}) EXCEPT !.types_cap = 0] ELSE allocated
  OBVIOUS
<1>5. counted = Refused(s, n, mod)
  BY <1>4 DEF Refused, Recounted, IsModule
<1>6. allocated = Recounted(NewArray(mod, ArrayOf[s], n), ArrayOf[s], CountThen(s, n, mod.cnt[ArrayOf[s]]))
  BY <1>3, <1>4 DEF Recounted
<1>7. begun = Opened(s, n, mod)
  BY <1>2, <1>4, <1>5, <1>6 DEF Opened, Refused
<1>8. \/ /\ cur' = s /\ todo' = n /\ last' = Order[s] /\ UNCHANGED <<phase, spent>>
         /\ Now([m |-> begun, loc |-> NoLocals, h |-> IF s = "type" THEN heap ELSE Alloc(heap, begun.ptr[ArrayOf[s]])])
      \/ Abort(Cleanup(s, [m |-> counted, loc |-> NoLocals, h |-> heap]))
  BY <1>4 DEF OpenSection
<1>9. Opening(s, n)
  BY <1>5, <1>7, <1>8 DEF Opening, OpenHeap
<1> QED BY <1>1, <1>9, OrderFacts

LEMMA OpenedSound ==
    ASSUME NEW st, Sound(st), st.loc = NoLocals, st.m.ptr["functions"] = {}, NEW k \in Nat, NEW n0,
           ParseOK(st.m, NoLocals, "none", n0, k), NEW s \in DOMAIN ArrayOf, k < Order[s], NEW n \in Nat,
           NEW w, w = Opened(s, n, st.m), NEW h2, h2 = OpenHeap(s, st.h, w.ptr[ArrayOf[s]]),
           NEW d, d = [m |-> w, loc |-> NoLocals, h |-> h2]
    PROVE  Sound(d) /\ ParseOK(w, NoLocals, s, n, Order[s])
<1>1. PICK m, a : m = st.m /\ a = ArrayOf[s]
  OBVIOUS
<1>2. /\ IsModule(m) /\ m.ptr["functions"] = {} /\ ParseOK(m, NoLocals, "none", n0, k) /\ w = Opened(s, n, m)
      /\ st.h.bad = FALSE /\ st.h = [live |-> st.h.live, bad |-> st.h.bad]
  BY <1>1 DEF Sound, IsState
<1>3. a \in Arrays /\ a \notin OtherArrays /\ m.ptr[a] = {} /\ a # "functions" /\ a # "type_defs"
  BY <1>1, <1>2, SectionArrays DEF ParseOK, Ahead, OtherArrays
<1>4. s = "type" => a = "types" /\ m.ptr["type_defs"] = {} /\ m.types_cap = 0
  <2>1. s = "type" => a = "types" /\ k < 1 /\ m.cap["types"] = 0
    <3>1. s = "type" => a = "types" /\ k < 1
      BY <1>1, SectionFacts, OrderFacts
    <3>2. m.ptr["types"] = {} => m.cap["types"] = 0
      BY <1>2, TypeFieldsFacts DEF IsModule, Laid
    <3> QED BY <1>3, <3>1, <3>2
  <2>2. m.types_cap \in Nat /\ m.types_cap <= m.cap["types"]
    BY <1>2 DEF ParseOK, Fit, TypesFit, IsModule
  <2>3. k < 1 => m.ptr["type_defs"] = {}
    BY <1>2 DEF ParseOK, Ahead, NoArray
  <2> QED BY <2>1, <2>2, <2>3
<1>5. PICK old, c, x : old = m.cnt[a] /\ c = CountThen(s, n, old) /\ x = Slots(s, n)
  OBVIOUS
<1>6. old \in Nat
  BY <1>2, <1>3, <1>5 DEF IsModule, Laid
<1>7. Opens(w, m, a, x, c)
  <2>1. CASE s = "type"
    <3>1. Opens(w, m, "types", 0, CountThen("type", n, m.cnt["types"]))
      BY <1>2, <1>3, <1>4, <2>1, OpenedTypes
    <3> QED BY <1>4, <1>5, <2>1, <3>1 DEF Slots
  <2>2. CASE s # "type"
    <3>1. Opens(w, m, a, n, CountThen(s, n, m.cnt[a]))
      BY <1>1, <1>2, <2>2, OpenedOther
    <3> QED BY <1>5, <2>2, <3>1 DEF Slots
  <2> QED BY <2>1, <2>2
<1>8. ParseOK(w, NoLocals, s, n, Order[s])
  <2>1. Opens(w, m, a, Slots(s, n), c)
    BY <1>5, <1>7
  <2> QED BY <1>1, <1>2, <1>5, <1>6, <2>1, OpensShape
<1>9. HeapOpened(h2, st.h, a, x)
  <2>1. CASE s = "type"
    BY <1>1, <1>2, <1>5, <2>1 DEF OpenHeap, HeapOpened, Slots
  <2>2. CASE s # "type"
    <3>1. h2 = Alloc(st.h, w.ptr[a]) /\ x = n
      BY <1>1, <1>5, <2>2 DEF OpenHeap, Slots
    <3>2. w.ptr[a] = IF n = 0 THEN {} ELSE {ArrayBlock(a)}
      BY <1>7, <3>1 DEF Opens, Pointer
    <3> QED BY <3>1, <3>2 DEF Alloc, HeapOpened
  <2> QED BY <2>1, <2>2
<1>10. (c = 0 \/ a \in FlatArrays \/ n = 0) /\ x \in Nat /\ (s = "type" => c = 0) /\ (s # "type" => x = n)
  BY <1>1, <1>5, <1>6, CountThenFacts DEF Slots
<1>11. Sound(d)
  <2>1. c = 0 \/ a \in FlatArrays \/ x = 0
    BY <1>10
  <2>2. Opens(w, st.m, a, x, c) /\ st.m.ptr[a] = {} /\ (a = "types" => st.m.ptr["type_defs"] = {})
    <3>1. a = "types" => s = "type"
      BY <1>1, SectionArrays, SectionFacts
    <3> QED BY <1>1, <1>3, <1>4, <1>7, <3>1
  <2> QED BY <1>3, <1>9, <1>10, <2>1, <2>2, OpensSound
<1> QED BY <1>8, <1>11

LEMMA RefusedSound ==
    ASSUME NEW st, Sound(st), st.loc = NoLocals, st.m.ptr["functions"] = {}, NEW k \in Nat, NEW n0,
           ParseOK(st.m, NoLocals, "none", n0, k), NEW s \in DOMAIN ArrayOf, k < Order[s], NEW n \in Nat,
           NEW w, w = Refused(s, n, st.m), NEW h, h = st.h, NEW d, d = [m |-> w, loc |-> NoLocals, h |-> h]
    PROVE  Sound(d) /\ d.m.ptr["functions"] = {}
<1>1. PICK m, a, c, old : m = st.m /\ a = ArrayOf[s] /\ old = m.cnt[a] /\ c = CountFirst(s, n, old)
  OBVIOUS
<1>2. /\ IsModule(m) /\ m.ptr["functions"] = {} /\ ParseOK(m, NoLocals, "none", n0, k) /\ w = Recounted(m, a, c)
      /\ st.h.bad = FALSE /\ st.h = [live |-> st.h.live, bad |-> st.h.bad]
  BY <1>1 DEF Sound, IsState, Refused
<1>3. a \in Arrays /\ a \notin OtherArrays /\ m.ptr[a] = {} /\ a # "functions" /\ a # "type_defs"
  BY <1>1, <1>2, SectionArrays DEF ParseOK, Ahead, OtherArrays
<1>4. a = "types" => m.ptr["type_defs"] = {}
  <2>1. a = "types" => s = "type"
    BY <1>1, SectionArrays, SectionFacts
  <2>2. s = "type" => k < 1
    BY OrderFacts
  <2> QED BY <1>2, <2>1, <2>2 DEF ParseOK, Ahead, NoArray
<1>5. old \in Nat
  BY <1>1, <1>2, <1>3 DEF IsModule, Laid
<1>6. c \in Nat
  BY <1>1, <1>5, CountThenFacts
<1>7. Opens(m, m, a, 0, old)
  BY <1>1, <1>2, <1>3, OpensSelf
<1>8. Opens(w, m, a, 0, c)
  BY <1>2, <1>3, <1>6, <1>7, OpensRecounted
<1>9. HeapOpened(h, st.h, a, 0)
  BY <1>2 DEF HeapOpened
<1>10. Opens(w, st.m, a, 0, c) /\ st.m.ptr[a] = {} /\ (a = "types" => st.m.ptr["type_defs"] = {})
  BY <1>1, <1>3, <1>4, <1>8
<1>11. PICK z : z = 0
  OBVIOUS
<1>12. z \in Nat /\ (c = 0 \/ a \in FlatArrays \/ z = 0) /\ Opens(w, st.m, a, z, c) /\ HeapOpened(h, st.h, a, z)
  BY <1>9, <1>10, <1>11
<1>13. Sound(d)
  BY <1>3, <1>10, <1>12, OpensSound
<1>14. w.ptr["functions"] = {}
  BY <1>2, <1>3, <1>8, TypeFieldsFacts DEF Opens
<1> QED BY <1>13, <1>14

LEMMA OpenStep ==
    ASSUME IInv, NEW s \in DOMAIN ArrayOf, NEW n \in 0..MaxEntries, OpenSection(s, n)
    PROVE  IInv'
<1>1. PICK st : st = St
  OBVIOUS
<1>2. st.m = mod /\ st.loc = loc /\ st.h = heap
  BY <1>1, StFields
<1>3. Parsing("none")
  BY DEF OpenSection
<1>4. /\ Sound(st) /\ st.loc = NoLocals /\ IsModule(st.m) /\ st.m.ptr["functions"] = {}
      /\ ParseOK(st.m, NoLocals, "none", todo, last) /\ last \in 0..13
  BY <1>1, <1>3, NoneFacts
<1>5. last < Order[s] /\ Opening(s, n)
  BY <1>2, <1>4, OpenSectionFacts
<1>6. n \in Nat /\ Order[s] \in 1..13 /\ phase = "parsing" /\ spent \in Nat
  BY <1>3, SectionArrays DEF IInv, Parsing
<1>7. PICK k, n0 : k = last /\ n0 = todo
  OBVIOUS
<1>8. k \in Nat /\ k < Order[s] /\ ParseOK(st.m, NoLocals, "none", n0, k)
  BY <1>4, <1>5, <1>7
<1>9. PICK w, h2, d : w = Opened(s, n, st.m) /\ h2 = OpenHeap(s, st.h, w.ptr[ArrayOf[s]]) /\ d = [m |-> w, loc |-> NoLocals, h |-> h2]
  OBVIOUS
<1>10. Sound(d) /\ ParseOK(w, NoLocals, s, n, Order[s])
  BY <1>4, <1>6, <1>8, <1>9, OpenedSound
<1>11. PICK v, h, e : v = Refused(s, n, st.m) /\ h = st.h /\ e = [m |-> v, loc |-> NoLocals, h |-> h]
  OBVIOUS
<1>12. Sound(e) /\ e.m.ptr["functions"] = {}
  BY <1>4, <1>6, <1>8, <1>11, RefusedSound
<1>13. CASE /\ cur' = s /\ todo' = n /\ last' = Order[s] /\ UNCHANGED <<phase, spent>> /\ Now(d)
  <2>1. d.m = w /\ d.loc = NoLocals
    BY <1>9
  <2>2. ParseOK(d.m, d.loc, cur', todo', last')
    BY <1>10, <1>13, <2>1
  <2>3. phase' = "parsing" /\ cur' \in DOMAIN ArrayOf \cup {"none"} /\ todo' \in Nat /\ last' \in 0..13 /\ spent' \in Nat
    BY <1>6, <1>13
  <2> QED BY <1>10, <1>13, <2>2, <2>3, ParsingStep
<1>14. CASE Abort(Cleanup(s, e))
  BY <1>12, <1>14, AbortCleanup
<1> QED BY <1>2, <1>5, <1>9, <1>11, <1>13, <1>14 DEF Opening
-----------------------------------------------------------------------------
(* Between sections, and the end of the binary                               *)

LEMMA AbortSt ==
    ASSUME IInv, Parsing("none"), Abort(St)
    PROVE  IInv'
<1>1. PICK st : st = St
  OBVIOUS
<1>2. Sound(st) /\ st.loc = NoLocals
  BY <1>1, NoneFacts
<1>3. \A b : b \notin st.loc.held /\ ~InLocal(st.loc, b)
  BY <1>2, NoHeld
<1>4. Abort(st)
  BY <1>1
<1> QED BY <1>2, <1>3, <1>4, AbortNow

LEMMA BadStep ==
    ASSUME IInv, BadSection
    PROVE  IInv'
BY AbortSt DEF BadSection

LEMMA AheadLater ==
    ASSUME NEW m, NEW k \in Nat, Ahead(m, "none", k), NEW k2 \in Nat, k <= k2
    PROVE  Ahead(m, "none", k2)
<1>1. \A s \in DOMAIN ArrayOf : Order[s] \in Nat
  BY SectionArrays
<1>2. \A s \in DOMAIN ArrayOf : k2 < Order[s] => k < Order[s]
  BY <1>1
<1> QED BY <1>2 DEF Ahead

LEMMA LaterOK ==
    ASSUME NEW m, NEW n, NEW k \in Nat, ParseOK(m, NoLocals, "none", n, k), IsModule(m), NEW k2 \in Nat, k <= k2
    PROVE  ParseOK(m, NoLocals, "none", n, k2)
<1>1. Ahead(m, "none", k2)
  BY AheadLater DEF ParseOK
<1>2. k2 < 8 \/ OrderFits(m)
  <2>1. CASE k < 8
    <3>1. m.ptr["exports"] = {}
      BY <2>1, SectionFacts, OrderFacts DEF ParseOK, Ahead
    <3>2. m.cap["exports"] = 0 /\ m.cap["export_order"] \in Nat
      BY <3>1, TypeFieldsFacts DEF IsModule, Laid
    <3> QED BY <3>2 DEF OrderFits
  <2>2. CASE ~(k < 8)
    BY <2>2 DEF ParseOK
  <2> QED BY <2>1, <2>2
<1> QED BY <1>1, <1>2 DEF ParseOK

LEMMA StartStep ==
    ASSUME IInv, ParseStart
    PROVE  IInv'
<1>1. Parsing("none") /\ last < 9
  BY OrderFacts DEF ParseStart, SectionInOrder, IInv
<1>2. PICK f \in Index :
         \/ /\ mod' = [mod EXCEPT !.start = {f}] /\ last' = 9 /\ UNCHANGED <<phase, cur, todo, loc, heap, spent>>
         \/ Abort(St)
  BY OrderFacts DEF ParseStart
<1>3. CASE Abort(St)
  BY <1>1, <1>3, AbortSt
<1>4. CASE mod' = [mod EXCEPT !.start = {f}] /\ last' = 9 /\ UNCHANGED <<phase, cur, todo, loc, heap, spent>>
  <2>1. PICK st, m2, t : st = St /\ m2 = [st.m EXCEPT !.start = {f}] /\ t = [m |-> m2, loc |-> st.loc, h |-> st.h]
    OBVIOUS
  <2>2. /\ Sound(st) /\ st.loc = NoLocals /\ IsModule(st.m) /\ ParseOK(st.m, NoLocals, "none", todo, last) /\ last \in 0..13
        /\ st.m = mod /\ st.loc = loc /\ st.h = heap
    BY <1>1, <2>1, NoneFacts, StFields
  <2>3. SameShape(m2, st.m)
    <3>1. /\ m2.cnt = st.m.cnt /\ m2.ptr = st.m.ptr /\ m2.cap = st.m.cap /\ m2.own = st.m.own /\ m2.ent = st.m.ent
          /\ m2.types_cap = st.m.types_cap
          /\ m2 = [cnt |-> m2.cnt, ptr |-> m2.ptr, cap |-> m2.cap, own |-> m2.own, ent |-> m2.ent,
            types_cap |-> m2.types_cap, declared |-> m2.declared, start |-> m2.start,
            has_data_count_section |-> m2.has_data_count_section,
            min_data_segment_count_required |-> m2.min_data_segment_count_required]
      BY <2>1, <2>2 DEF IsModule
    <3>2. Laid(st.m, Arrays) /\ st.m.types_cap \in Nat
      BY <2>2 DEF IsModule
    <3>3. Laid(m2, Arrays)
      BY <3>1, <3>2 DEF Laid
    <3> QED BY <3>1, <3>2, <3>3 DEF SameShape, IsModule, SameArrays
  <2>4. Sound(t) /\ t.m = m2 /\ t.loc = NoLocals
    BY <2>1, <2>2, <2>3, SoundSameShape
  <2>5. PICK k, n, l : k = last /\ n = todo /\ l = NoLocals
    OBVIOUS
  <2>6. ParseOK(m2, l, "none", n, k)
    <3>1. ParseOK(st.m, l, "none", n, k)
      BY <2>2, <2>5
    <3> QED BY <2>3, <3>1, ParseOKSame
  <2>7. k \in Nat /\ k <= 9 /\ IsModule(m2)
    BY <1>1, <2>2, <2>3, <2>5 DEF SameShape
  <2>8. ParseOK(m2, NoLocals, "none", n, 9)
    <3>1. PICK k2 : k2 = 9
      OBVIOUS
    <3>2. k2 \in Nat /\ k <= k2 /\ ParseOK(m2, NoLocals, "none", n, k)
      BY <2>5, <2>6, <2>7, <3>1
    <3>3. ParseOK(m2, NoLocals, "none", n, k2)
      BY <2>7, <3>2, LaterOK
    <3> QED BY <3>1, <3>3
  <2>9. Now(t)
    BY <1>4, <2>1, <2>2 DEF Now
  <2>10. ParseOK(t.m, t.loc, cur', todo', last')
    BY <1>1, <1>4, <2>4, <2>5, <2>8 DEF Parsing
  <2>11. phase' = "parsing" /\ cur' \in DOMAIN ArrayOf \cup {"none"} /\ todo' \in Nat /\ last' \in 0..13 /\ spent' \in Nat
    BY <1>1, <1>4 DEF Parsing, IInv
  <2> QED BY <2>4, <2>9, <2>10, <2>11, ParsingStep
<1> QED BY <1>2, <1>3, <1>4

\* The segments are announced.
Announced(m, n) == [m EXCEPT !.cnt["data_segments"] = n, !.has_data_count_section = TRUE]

LEMMA AnnouncedFields ==
    ASSUME NEW m, IsModule(m), NEW n \in Nat, NEW w, w = Announced(m, n)
    PROVE  /\ IsModule(w) /\ w.ptr = m.ptr /\ w.cap = m.cap /\ w.own = m.own /\ w.ent = m.ent /\ w.types_cap = m.types_cap
           /\ \A d \in Arrays : d # "data_segments" => w.cnt[d] = m.cnt[d]
<1>1. PICK x, z : x = Recounted(m, z, n) /\ z = "data_segments"
  OBVIOUS
<1>2. z \in Arrays
  BY <1>1 DEF Arrays
<1>3. /\ IsModule(x) /\ SameRest(x, m) /\ x.ptr = m.ptr /\ x.cap = m.cap /\ x.own = m.own /\ x.ent = m.ent
      /\ x.cnt[z] = n /\ \A d \in Arrays : d # z => x.cnt[d] = m.cnt[d]
  BY <1>1, <1>2, RecountedFields
<1>4. w = [x EXCEPT !.has_data_count_section = TRUE]
  BY <1>1 DEF Announced, Recounted, IsModule
<1>5. /\ w.cnt = x.cnt /\ w.ptr = x.ptr /\ w.cap = x.cap /\ w.own = x.own /\ w.ent = x.ent /\ w.types_cap = x.types_cap
      /\ w = [cnt |-> w.cnt, ptr |-> w.ptr, cap |-> w.cap, own |-> w.own, ent |-> w.ent,
            types_cap |-> w.types_cap, declared |-> w.declared, start |-> w.start,
            has_data_count_section |-> w.has_data_count_section,
            min_data_segment_count_required |-> w.min_data_segment_count_required]
  BY <1>3, <1>4 DEF IsModule
<1>6. Laid(x, Arrays) /\ x.types_cap \in Nat
  BY <1>3 DEF IsModule
<1>7. Laid(w, Arrays)
  BY <1>5, <1>6 DEF Laid
<1>8. IsModule(w)
  BY <1>5, <1>6, <1>7 DEF IsModule
<1> QED BY <1>1, <1>3, <1>5, <1>8 DEF SameRest

LEMMA AnnouncedOK ==
    ASSUME NEW m, IsModule(m), NEW n \in Nat, NEW w, w = Announced(m, n), NEW t, NEW k \in Nat,
           ParseOK(m, NoLocals, "none", t, k)
    PROVE  ParseOK(w, NoLocals, "none", t, k)
<1>1. /\ IsModule(w) /\ w.ptr = m.ptr /\ w.cap = m.cap /\ w.own = m.own /\ w.ent = m.ent /\ w.types_cap = m.types_cap
      /\ \A d \in Arrays : d # "data_segments" => w.cnt[d] = m.cnt[d]
  BY AnnouncedFields
<1>2. Fit(m) /\ Ahead(m, "none", k) /\ ExportsBelow(m, Limit(m, "func")) /\ (k < 8 \/ OrderFits(m))
  BY DEF ParseOK
<1>3. \A a \in Growing : a \in Arrays /\ a # "data_segments"
  BY OtherArraysFacts DEF Growing, ImportArrays
<1>4. \A a \in Growing : Freed(w, a) = Freed(m, a)
  BY <1>1, <1>3, FreedFacts, TypeFieldsFacts
<1>5. Counted0(w)
  BY <1>1, <1>2, <1>4 DEF Fit, Counted0, Freed
<1>6. w.cnt["types"] = m.cnt["types"] /\ w.cnt["exports"] = m.cnt["exports"] /\ NoArray(w, "functions")
  BY <1>1, <1>2, TypeFieldsFacts DEF Ahead, NoArray
<1>7. Limit(w, "func") = Limit(m, "func")
  BY <1>1, OtherArraysFacts, LimitNat
<1>8. Fit(w)
  BY <1>1, <1>2, <1>5, <1>6, <1>7 DEF Fit, TypesFit, ReprsFit, DeclaredFit
<1>9. \A s \in DOMAIN ArrayOf : k < Order[s] => w.ptr[ArrayOf[s]] = {} /\ (s # "data" => w.cnt[ArrayOf[s]] = 0)
  <2>1. \A s \in DOMAIN ArrayOf : ArrayOf[s] \in Arrays /\ (s # "data" => ArrayOf[s] # "data_segments")
    BY SectionArrays, SectionFacts
  <2> QED BY <1>1, <1>2, <2>1 DEF Ahead
<1>10. \A a \in OtherArrays : w.cnt[a] = m.cnt[a] /\ w.ptr[a] = m.ptr[a]
  <2>1. \A a \in OtherArrays : a \in Arrays /\ a # "data_segments"
    BY OtherArraysFacts DEF OtherArrays, ImportArrays
  <2> QED BY <1>1, <2>1
<1>11. Ahead(w, "none", k)
  <2>1. "type_defs" \in OtherArrays
    BY DEF OtherArrays
  <2> QED BY <1>1, <1>2, <1>6, <1>9, <1>10, <2>1, OtherArraysFacts DEF Ahead, NoArray
<1>12. ExportsBelow(w, Limit(w, "func"))
  BY <1>1, <1>2, <1>6, <1>7 DEF ExportsBelow
<1>13. k < 8 \/ OrderFits(w)
  BY <1>1, <1>2 DEF OrderFits
<1>14. Room(w, "none", t)
  BY DEF Room
<1> QED BY <1>2, <1>8, <1>11, <1>12, <1>13, <1>14, LocalsOKNone DEF ParseOK

LEMMA AnnouncedSound ==
    ASSUME NEW st, Sound(st), NEW n \in Nat, NEW w, w = Announced(st.m, n), st.m.ptr["data_segments"] = {},
           NEW t, t = [m |-> w, loc |-> st.loc, h |-> st.h]
    PROVE  Sound(t)
<1>1. PICK m : m = st.m
  OBVIOUS
<1>2. IsModule(m) /\ KeptModule(m) /\ w = Announced(m, n) /\ m.ptr["data_segments"] = {}
  BY <1>1 DEF Sound, IsState
<1>3. /\ IsModule(w) /\ w.ptr = m.ptr /\ w.cap = m.cap /\ w.own = m.own /\ w.ent = m.ent /\ w.types_cap = m.types_cap
      /\ \A d \in Arrays : d # "data_segments" => w.cnt[d] = m.cnt[d]
  BY <1>2, AnnouncedFields
<1>4. \A a \in Arrays : a # "data_segments" => Freed(w, a) = Freed(m, a)
  BY <1>3, FreedFacts, TypeFieldsFacts
<1>5. \A i : Host(w, i) <=> Host(m, i)
  <2>1. w.cnt["func_imports"] = m.cnt["func_imports"] /\ w.cnt["functions"] = m.cnt["functions"]
    BY <1>3, OtherArraysFacts, TypeFieldsFacts
  <2> QED BY <1>3, <2>1, HostFrame
<1>6. \A a, i : Own(w, a, i) = Own(m, a, i)
  BY <1>3, <1>5 DEF Own
<1>7. KeptModule(w)
  BY <1>2, <1>3, <1>4, <1>6 DEF KeptModule
<1>8. \A b : InModule(w, b) <=> InModule(m, b)
  BY <1>2, <1>3, <1>4, <1>6 DEF InModule
<1>9. t.m = w /\ t.loc = st.loc /\ t.h = st.h
  OBVIOUS
<1>10. IsState(t)
  BY <1>3, <1>9 DEF Sound, IsState
<1> QED BY <1>1, <1>7, <1>8, <1>9, <1>10, SoundSame

LEMMA DataCountStep ==
    ASSUME IInv, ParseDataCount
    PROVE  IInv'
<1>1. Parsing("none") /\ last < 11
  BY OrderFacts DEF ParseDataCount, SectionInOrder, IInv
<1>2. \/ \E n \in Index : mod' = Announced(mod, n) /\ last' = 11 /\ UNCHANGED <<phase, cur, todo, loc, heap, spent>>
      \/ Abort(St)
  BY OrderFacts DEF ParseDataCount, Announced
<1>3. CASE Abort(St)
  BY <1>1, <1>3, AbortSt
<1>4. CASE \E n \in Index : mod' = Announced(mod, n) /\ last' = 11 /\ UNCHANGED <<phase, cur, todo, loc, heap, spent>>
  <2>1. PICK n \in Index : mod' = Announced(mod, n) /\ last' = 11 /\ UNCHANGED <<phase, cur, todo, loc, heap, spent>>
    BY <1>4
  <2>2. PICK st, m2, t : st = St /\ m2 = Announced(st.m, n) /\ t = [m |-> m2, loc |-> st.loc, h |-> st.h]
    OBVIOUS
  <2>3. /\ Sound(st) /\ st.loc = NoLocals /\ IsModule(st.m) /\ ParseOK(st.m, NoLocals, "none", todo, last) /\ last \in 0..13
        /\ st.m = mod /\ st.loc = loc /\ st.h = heap
    BY <1>1, <2>2, NoneFacts, StFields
  <2>4. n \in Nat
    BY ModuleLifeAssumption DEF Index
  <2>5. PICK k, y : k = last /\ y = todo
    OBVIOUS
  <2>6. k \in Nat /\ k <= 11 /\ ParseOK(st.m, NoLocals, "none", y, k) /\ k < Order["data"]
    BY <1>1, <2>3, <2>5, OrderFacts
  <2>7. st.m.ptr["data_segments"] = {}
    BY <2>6, SectionFacts DEF ParseOK, Ahead
  <2>8. Sound(t) /\ t.m = m2 /\ t.loc = NoLocals
    BY <2>2, <2>3, <2>4, <2>7, AnnouncedSound
  <2>9. ParseOK(m2, NoLocals, "none", y, k) /\ IsModule(m2)
    BY <2>2, <2>3, <2>4, <2>6, AnnouncedOK, AnnouncedFields
  <2>10. ParseOK(m2, NoLocals, "none", y, 11)
    <3>1. PICK k2 : k2 = 11
      OBVIOUS
    <3>2. k2 \in Nat /\ k <= k2
      BY <2>6, <3>1
    <3>3. ParseOK(m2, NoLocals, "none", y, k2)
      BY <2>6, <2>9, <3>2, LaterOK
    <3> QED BY <3>1, <3>3
  <2>11. Now(t)
    BY <2>1, <2>2, <2>3 DEF Now
  <2>12. ParseOK(t.m, t.loc, cur', todo', last')
    BY <1>1, <2>1, <2>5, <2>8, <2>10 DEF Parsing
  <2>13. phase' = "parsing" /\ cur' \in DOMAIN ArrayOf \cup {"none"} /\ todo' \in Nat /\ last' \in 0..13 /\ spent' \in Nat
    BY <1>1, <2>1 DEF Parsing, IInv
  <2> QED BY <2>8, <2>11, <2>12, <2>13, ParsingStep
<1> QED BY <1>2, <1>3, <1>4
\* functions[] of w is new, with n entries that own nothing; all else is that of m.
Builds(w, m, n) ==
    /\ Opens(w, m, "functions", n, n)
    /\ \A i \in 1..n : w.own["functions"][i] = {} /\ w.ent["functions"][i].k = "wasm"

LEMMA BuildFields ==
    ASSUME NEW m, IsModule(m), NEW n \in Nat, NEW w, w = BuildFunctions(m, n)
    PROVE  Builds(w, m, n)
<1>1. PICK new, f, x : new = NewArray(m, f, n) /\ f = "functions" /\ x = Recounted(new, f, n)
  OBVIOUS
<1>2. f \in Arrays
  BY <1>1, TypeFieldsFacts
<1>3. Opens(new, m, f, n, m.cnt[f])
  BY <1>1, <1>2, NewArrayOpens
<1>4. Opens(x, m, f, n, n)
  BY <1>1, <1>2, <1>3, OpensRecounted
<1>5. IsModule(new)
  BY <1>3 DEF Opens
<1>6. PICK o, e : o = [i \in 1..n |-> {}] /\ e = [i \in 1..n |-> [k |-> "wasm"]]
  OBVIOUS
<1>7. x.own = new.own /\ x.ent = new.ent /\ IsModule(x)
  BY <1>1, <1>2, <1>5, RecountedFields
<1>8. w = [x EXCEPT !.own = Put(x.own, f, o), !.ent = Put(x.ent, f, e)]
  <2>1. w = [new EXCEPT !.cnt["functions"] = n, !.own = Put(new.own, "functions", o), !.ent = Put(new.ent, "functions", e)]
    BY <1>1, <1>6 DEF BuildFunctions
  <2> QED BY <1>1, <1>5, <1>7, <2>1 DEF Recounted, IsModule
<1>9. /\ w.cnt = x.cnt /\ w.ptr = x.ptr /\ w.cap = x.cap /\ w.own = Put(x.own, f, o) /\ w.ent = Put(x.ent, f, e)
      /\ SameRest(w, x)
      /\ w = [cnt |-> w.cnt, ptr |-> w.ptr, cap |-> w.cap, own |-> w.own, ent |-> w.ent,
            types_cap |-> w.types_cap, declared |-> w.declared, start |-> w.start,
            has_data_count_section |-> w.has_data_count_section,
            min_data_segment_count_required |-> w.min_data_segment_count_required]
  BY <1>7, <1>8 DEF IsModule, SameRest
<1>10. Laid(x, Arrays) /\ x.types_cap \in Nat /\ x.cap[f] = n
  BY <1>4, <1>7 DEF IsModule, Opens
<1>11. DOMAIN x.own = Arrays /\ DOMAIN x.ent = Arrays
  BY <1>10 DEF Laid
<1>12. w.own[f] = o /\ w.ent[f] = e /\ \A d \in Arrays : d # f => w.own[d] = x.own[d] /\ w.ent[d] = x.ent[d]
  BY <1>2, <1>9, <1>11 DEF Put
<1>13. DOMAIN w.own = Arrays /\ DOMAIN w.ent = Arrays
  BY <1>9, <1>11 DEF Put
<1>14. DOMAIN o = 1..n /\ DOMAIN e = 1..n /\ \A i \in 1..n : o[i] = {} /\ e[i].k = "wasm"
  BY <1>6
<1>15. Laid(w, Arrays)
  <2>1. ASSUME NEW d \in Arrays
        PROVE  /\ DOMAIN w.own[d] = 1..w.cap[d] /\ DOMAIN w.ent[d] = 1..w.cap[d]
               /\ w.ptr[d] \in {{}, Pointer(d)} /\ (w.ptr[d] = {} => w.cap[d] = 0)
    <3>1. w.ptr[d] \in {{}, Pointer(d)} /\ (w.ptr[d] = {} => w.cap[d] = 0)
      BY <1>9, <1>10 DEF Laid
    <3>2. CASE d = f
      BY <1>9, <1>10, <1>12, <1>14, <3>1, <3>2
    <3>3. CASE d # f
      BY <1>9, <1>10, <1>12, <3>1, <3>3 DEF Laid
    <3> QED BY <3>2, <3>3
  <2> QED BY <1>9, <1>10, <1>13, <2>1 DEF Laid
<1>16. IsModule(w)
  BY <1>9, <1>10, <1>15 DEF IsModule, SameRest
<1>17. SameRest(w, m)
  BY <1>4, <1>9 DEF Opens, SameRest
<1>18. Opens(w, m, f, n, n)
  BY <1>4, <1>9, <1>12, <1>16, <1>17 DEF Opens
<1> QED BY <1>1, <1>12, <1>14, <1>18 DEF Builds

LEMMA BuildSound ==
    ASSUME NEW st, Sound(st), st.loc = NoLocals, st.m.ptr["functions"] = {}, NEW n \in Nat, NEW w, Builds(w, st.m, n),
           NEW h2, HeapOpened(h2, st.h, "functions", n), NEW d, d = [m |-> w, loc |-> NoLocals, h |-> h2]
    PROVE  Sound(d)
<1>1. PICK m : m = st.m
  OBVIOUS
<1>2. /\ IsModule(m) /\ KeptModule(m) /\ m.ptr["functions"] = {} /\ Builds(w, m, n) /\ st.h.bad = FALSE
  BY <1>1 DEF Sound, IsState
<1>3. /\ IsModule(w) /\ w.cnt["functions"] = n /\ w.cap["functions"] = n
      /\ (n = 0 => w.ptr["functions"] = {}) /\ (n # 0 => w.ptr["functions"] = Pointer("functions"))
      /\ \A x \in Arrays : x # "functions" =>
            /\ w.cnt[x] = m.cnt[x] /\ w.ptr[x] = m.ptr[x] /\ w.cap[x] = m.cap[x]
            /\ m.ptr[x] # {} => w.own[x] = m.own[x]
  BY <1>2 DEF Builds, Opens
<1>4. \A i \in 1..n : w.own["functions"][i] = {} /\ w.ent["functions"][i].k = "wasm"
  BY <1>2 DEF Builds
<1>5. \A x \in Arrays : x # "functions" => Freed(w, x) = Freed(m, x)
  BY <1>3, FreedFacts, TypeFieldsFacts
<1>6. Freed(w, "functions") = n
  <2>1. "functions" \notin FlatArrays
    BY DEF FlatArrays
  <2> QED BY <1>3, <2>1, FreedFacts, TypeFieldsFacts
<1>7. \A i : ~Host(w, i) /\ ~Host(m, i)
  <2>1. \A local \in 0..n - 1 : Entry(w, "functions", local).k # "host"
    <3>1. ASSUME NEW local \in 0..n - 1 PROVE w.ent["functions"][local + 1].k # "host"
      <4>1. local + 1 \in 1..n
        OBVIOUS
      <4> QED BY <1>4, <4>1
    <3> QED BY <3>1 DEF Entry
  <2> QED BY <1>2, <1>3, <2>1, HostNone DEF Host, IsHostExport
<1>8. \A x \in Arrays : \A i : (x # "functions" /\ m.ptr[x] # {}) => Own(w, x, i) = Own(m, x, i)
  BY <1>3, <1>7 DEF Own
<1>9. \A i \in 1..n : Own(w, "functions", i) = {}
  BY <1>4 DEF Own
<1>10. KeptModule(w)
  <2>1. ASSUME NEW x \in Arrays, w.ptr[x] # {}
        PROVE  Freed(w, x) <= w.cap[x] /\ \A i \in 1..Freed(w, x) : \A b \in Own(w, x, i) : b[1] = x /\ b[2] = i
    <3>1. CASE x = "functions"
      BY <1>3, <1>6, <1>9, <3>1
    <3>2. CASE x # "functions"
      BY <1>2, <1>3, <1>5, <1>8, <2>1, <3>2 DEF KeptModule
    <3> QED BY <3>1, <3>2
  <2> QED BY <2>1 DEF KeptModule
<1>11. ASSUME NEW b PROVE InModule(w, b) <=> (InModule(m, b) \/ (n # 0 /\ b = ArrayBlock("functions")))
  <2>1. CASE b[1] = "functions"
    <3>1. ~InModule(m, b)
      BY <1>2, <2>1 DEF InModule
    <3>2. CASE n = 0
      BY <1>3, <2>1, <3>1, <3>2 DEF InModule
    <3>3. CASE n # 0
      <4>1. w.ptr["functions"] # {} /\ \A i \in 1..Freed(w, "functions") : b \notin Own(w, "functions", i)
        BY <1>3, <1>6, <1>9, <3>3 DEF Pointer
      <4> QED BY <2>1, <3>1, <3>3, <4>1, TypeFieldsFacts DEF InModule
    <3> QED BY <3>2, <3>3
  <2>2. CASE b[1] # "functions"
    <3>1. b # ArrayBlock("functions")
      BY <2>2, ArrayBlockFacts
    <3> QED BY <1>3, <1>5, <1>8, <2>2, <3>1 DEF InModule
  <2> QED BY <2>1, <2>2
<1>12. \A b : b \in st.h.live <=> InModule(m, b)
  BY <1>1, NoHeld DEF Sound
<1>13. d.m = w /\ d.loc = NoLocals /\ d.h = h2
  OBVIOUS
<1>14. \A b : b \in d.h.live <=> InModule(d.m, b)
  BY <1>11, <1>12, <1>13 DEF HeapOpened
<1>15. d = [m |-> d.m, loc |-> d.loc, h |-> d.h] /\ d.h = [live |-> d.h.live, bad |-> d.h.bad] /\ d.h.bad = FALSE
  BY <1>2, <1>13 DEF HeapOpened
<1> QED BY <1>3, <1>10, <1>13, <1>14, <1>15, SoundAlone

LEMMA BuildReady ==
    ASSUME NEW m, IsModule(m), NEW t, NEW k \in Nat, ParseOK(m, NoLocals, "none", t, k),
           NEW n, n = m.cnt["function_type_indices"], NEW w, Builds(w, m, n)
    PROVE  ReadyOK(w, NoLocals)
<1>1. /\ IsModule(w) /\ w.cnt["functions"] = n /\ w.types_cap = m.types_cap
      /\ (w.ptr["functions"] = {} => n = 0)
      /\ \A x \in Arrays : x # "functions" =>
            /\ w.cnt[x] = m.cnt[x] /\ w.ptr[x] = m.ptr[x] /\ w.cap[x] = m.cap[x]
            /\ m.ptr[x] # {} => w.ent[x] = m.ent[x]
  BY DEF Builds, Opens, SameRest, Pointer
<1>2. Fit(m) /\ ExportsBelow(m, Limit(m, "func")) /\ (k < 8 \/ OrderFits(m))
  BY DEF ParseOK
<1>3. "functions" \notin FlatArrays /\ n \in Nat
  BY OtherArraysFacts DEF FlatArrays, IsModule, Laid
<1>4. Counted0(w)
  <2>1. SUFFICES ASSUME NEW a \in Growing, w.ptr[a] = {} PROVE Freed(w, a) = 0
    BY DEF Counted0, Freed
  <2>2. CASE a = "functions"
    BY <1>1, <1>3, <2>1, <2>2, FreedFacts, TypeFieldsFacts
  <2>3. CASE a # "functions"
    <3>1. a \in Arrays /\ Freed(m, a) = 0
      BY <1>1, <1>2, <2>1, <2>3, OtherArraysFacts DEF Fit, Counted0, Freed
    <3> QED BY <1>1, <2>3, <3>1, FreedFacts, TypeFieldsFacts
  <2> QED BY <2>2, <2>3
<1>5. TypesFit(w)
  BY <1>1, <1>2, TypeFieldsFacts DEF Fit, TypesFit
<1>6. ReprsFit(w)
  BY <1>1, <1>2, TypeFieldsFacts DEF Fit, ReprsFit
<1>7. Limit(w, "func") = Limit(m, "func")
  <2>1. w.cnt["func_imports"] = m.cnt["func_imports"] /\ w.cnt["function_type_indices"] = m.cnt["function_type_indices"]
    BY <1>1, OtherArraysFacts
  <2> QED BY <1>1, <2>1, LimitNat
<1>8. DeclaredFit(w)
  BY <1>1, <1>2, <1>7, TypeFieldsFacts DEF Fit, DeclaredFit
<1>9. Functions(w) = Limit(m, "func")
  <2>1. w.cnt["func_imports"] = m.cnt["func_imports"]
    BY <1>1, OtherArraysFacts
  <2> QED BY <1>1, <2>1, LimitNat DEF Functions
<1>10. ExportsBelow(w, Functions(w))
  <2>1. "exports" \in Growing /\ Freed(m, "exports") = m.cnt["exports"]
    BY FreedFacts, TypeFieldsFacts DEF Growing, FlatArrays
  <2>2. m.ptr["exports"] = {} => m.cnt["exports"] = 0
    BY <1>2, <2>1 DEF Fit, Counted0, Freed
  <2>3. w.cnt["exports"] = m.cnt["exports"] /\ (m.ptr["exports"] # {} => w.ent["exports"] = m.ent["exports"])
    BY <1>1, TypeFieldsFacts
  <2> QED BY <1>2, <1>9, <2>2, <2>3 DEF ExportsBelow
<1>11. OrderFits(w)
  <2>1. w.cap["exports"] = m.cap["exports"] /\ w.cap["export_order"] = m.cap["export_order"] /\ m.cap["export_order"] \in Nat
    BY <1>1, TypeFieldsFacts DEF IsModule, Laid
  <2>2. k < 8 => m.cap["exports"] = 0
    <3>1. k < 8 => m.ptr["exports"] = {}
      BY SectionFacts, OrderFacts DEF ParseOK, Ahead
    <3> QED BY <3>1, TypeFieldsFacts DEF IsModule, Laid
  <2> QED BY <1>2, <2>1, <2>2 DEF OrderFits
<1> QED BY <1>4, <1>5, <1>6, <1>8, <1>10, <1>11 DEF ReadyOK, Fit

LEMMA EndStep ==
    ASSUME IInv, EndModule
    PROVE  IInv'
<1>1. Parsing("none")
  BY DEF EndModule
<1>2. PICK st, n, w, h2, d : /\ st = St /\ n = st.m.cnt["function_type_indices"] /\ w = BuildFunctions(st.m, n)
                             /\ h2 = Alloc(st.h, w.ptr["functions"]) /\ d = [m |-> w, loc |-> NoLocals, h |-> h2]
  OBVIOUS
<1>3. /\ Sound(st) /\ st.loc = NoLocals /\ IsModule(st.m) /\ st.m.ptr["functions"] = {}
      /\ ParseOK(st.m, NoLocals, "none", todo, last) /\ last \in 0..13
  BY <1>1, <1>2, NoneFacts
<1>4. st.m = mod /\ st.loc = loc /\ st.h = heap
  BY <1>2, StFields
<1>5. \/ mod' = w /\ heap' = h2 /\ phase' = "ready" /\ last' = 0 /\ UNCHANGED <<cur, todo, loc, spent>>
      \/ Abort(St)
  BY <1>2, <1>4 DEF EndModule
<1>6. CASE Abort(St)
  BY <1>1, <1>6, AbortSt
<1>7. CASE mod' = w /\ heap' = h2 /\ phase' = "ready" /\ last' = 0 /\ UNCHANGED <<cur, todo, loc, spent>>
  <2>1. n \in Nat
    BY <1>2, <1>3, OtherArraysFacts DEF IsModule, Laid
  <2>2. Builds(w, st.m, n)
    BY <1>2, <1>3, <2>1, BuildFields
  <2>3. HeapOpened(h2, st.h, "functions", n)
    <3>1. w.ptr["functions"] = IF n = 0 THEN {} ELSE {ArrayBlock("functions")}
      BY <2>2 DEF Builds, Opens, Pointer
    <3> QED BY <1>2, <3>1 DEF Alloc, HeapOpened
  <2>4. Sound(d)
    BY <1>2, <1>3, <2>1, <2>2, <2>3, BuildSound
  <2>5. PICK k, t : k = last /\ t = todo
    OBVIOUS
  <2>6. k \in Nat /\ ParseOK(st.m, NoLocals, "none", t, k)
    BY <1>3, <2>5
  <2>7. ReadyOK(w, NoLocals)
    BY <1>2, <1>3, <2>2, <2>6, BuildReady
  <2>8. Now(d) /\ ReadyOK(d.m, d.loc)
    BY <1>2, <1>3, <1>4, <1>7, <2>7 DEF Now
  <2>9. cur' = "none" /\ todo' \in Nat /\ last' \in 0..13 /\ spent' \in Nat
    BY <1>1, <1>7 DEF Parsing, IInv
  <2> QED BY <1>7, <2>4, <2>8, <2>9, ReadyStep
<1> QED BY <1>5, <1>6, <1>7

LEMMA FreeStep ==
    ASSUME IInv, FreeCall
    PROVE  IInv'
<1>1. PICK st, u : st = St /\ u = FreeModule(st)
  OBVIOUS
<1>2. st.m = mod /\ st.loc = loc /\ st.h = heap /\ Sound(st)
  BY <1>1, StFields DEF IInv
<1>3. st.loc = NoLocals
  BY <1>2 DEF FreeCall, IInv, ReadyOK
<1>4. \A b : b \notin st.loc.held /\ ~InLocal(st.loc, b)
  BY <1>3, NoHeld
<1>5. Sound(u) /\ u.m = EmptyModule /\ u.loc = NoLocals
  BY <1>1, <1>2, <1>4, FreeModuleSound
<1>6. Now(u) /\ phase' = "freed" /\ UNCHANGED <<cur, todo, last, spent>>
  BY <1>1 DEF FreeCall
<1>7. IsState(u)
  BY <1>5 DEF Sound
<1>8. St' = u /\ mod' = u.m /\ loc' = u.loc
  BY <1>6, <1>7, NowState
<1>9. cur = "none"
  BY DEF FreeCall, IInv
<1> QED BY <1>5, <1>6, <1>8, <1>9 DEF IInv

=============================================================================
