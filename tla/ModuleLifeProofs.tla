-------------------------- MODULE ModuleLifeProofs --------------------------
(***************************************************************************)
(* The calls by which a host makes, extends and frees a module preserve    *)
(* the invariant of ModuleParseProofs as well; with it, for every binary,  *)
(* every sequence of calls and every point of failure, each allocation is  *)
(* released exactly once.                                                  *)
(***************************************************************************)
EXTENDS ModuleParseProofs

-----------------------------------------------------------------------------
(* Modules made by the host                                                  *)

\* What holds of an accepted or new module, and is kept by a call that fails.
Steady(m) == Fit(m) /\ OrderFits(m) /\ ExportsBelow(m, Functions(m))

\* The arrays a call of the host extends.
HostArrays == {"exports", "export_order", "functions", "globals", "memories"}

LEMMA HostArraysFacts ==
    /\ HostArrays \subseteq Arrays /\ HostArrays \cap ImportArrays = {} /\ HostArrays \cap TypeFields = {}
    /\ "declared_funcs" \notin HostArrays /\ "types" \notin HostArrays /\ "type_defs" \notin HostArrays
    /\ "function_type_indices" \notin HostArrays /\ "func_imports" \notin HostArrays
    /\ "export_order" \in FlatArrays /\ "memories" \in FlatArrays /\ "functions" \notin FlatArrays
    /\ "globals" \notin FlatArrays /\ "exports" \notin FlatArrays
    /\ "exports" \in Growing /\ "functions" \in Growing /\ "globals" \in Growing
    /\ "export_order" \notin Growing /\ "memories" \notin Growing
BY DEF HostArrays, Arrays, ImportArrays, FlatArrays, TypeFields, TypeArrays, Growing

\* Array a of m2 is reallocated, keeping its counted entries; all else is that of m.
Widened(m2, m, a) ==
    /\ m2.cnt = m.cnt /\ m2.types_cap = m.types_cap /\ m2.ptr[a] # {}
    /\ \A d \in Arrays : d # a => m2.ptr[d] = m.ptr[d] /\ m2.cap[d] = m.cap[d] /\ m2.ent[d] = m.ent[d]
    /\ a # "export_order" => \A j \in 1..m.cap[a] : m2.ent[a][j] = m.ent[a][j]

LEMMA WidenedFields ==
    ASSUME NEW t, IsState(t), NEW a \in Arrays, NEW n \in Nat, a # "export_order" => t.m.cap[a] <= n,
           NEW u, u = Step(t, Resize(a, n))
    PROVE  Widened(u.m, t.m, a) /\ Resizes(u, t, a, n)
<1>1. Resizes(u, t, a, n)
  BY ResizesFields
<1>2. u.m.ent = Put(t.m.ent, a, Realloc(t.m.ent[a], t.m.cap[a], n, Garbage.e))
  BY ResizeFields
<1>3. DOMAIN t.m.ent = Arrays /\ t.m.cap[a] \in Nat
  BY DEF IsState, IsModule, Laid
<1>4. u.m.ent[a] = Realloc(t.m.ent[a], t.m.cap[a], n, Garbage.e)
  BY <1>2, <1>3 DEF Put
<1>5. a # "export_order" => \A j \in 1..t.m.cap[a] : u.m.ent[a][j] = t.m.ent[a][j]
  <2>1. ASSUME a # "export_order", NEW j \in 1..t.m.cap[a] PROVE u.m.ent[a][j] = t.m.ent[a][j]
    <3>1. j \in 1..n /\ j <= t.m.cap[a]
      BY <1>3, <2>1
    <3> QED BY <1>4, <3>1 DEF Realloc
  <2> QED BY <2>1
<1> QED BY <1>1, <1>5 DEF Widened, Resizes

LEMMA SteadyKept ==
    ASSUME NEW t, Sound(t), Steady(t.m), NEW a \in HostArrays
    PROVE  /\ t.m.cnt[a] \in Nat /\ t.m.cap[a] \in Nat /\ Freed(t.m, a) <= t.m.cap[a]
           /\ (a \in Growing => t.m.cnt[a] <= t.m.cap[a] /\ Freed(t.m, a) = t.m.cnt[a])
           /\ (t.m.ptr[a] = {} => Freed(t.m, a) = 0)
<1>1. IsModule(t.m) /\ KeptModule(t.m) /\ Counted0(t.m)
  BY DEF Sound, IsState, Steady, Fit
<1>2. a \in Arrays /\ t.m.cnt[a] \in Nat /\ t.m.cap[a] \in Nat
  BY <1>1, HostArraysFacts DEF IsModule, Laid
<1>3. a # "type_defs" /\ (a \in FlatArrays \/ a \in Growing) /\ (a \in Growing => a \notin FlatArrays)
  BY HostArraysFacts DEF HostArrays
<1>4. a \in Growing => Freed(t.m, a) = t.m.cnt[a]
  BY <1>2, <1>3, FreedFacts
<1>5. t.m.ptr[a] = {} => Freed(t.m, a) = 0
  BY <1>1, <1>2, <1>3, FreedFacts DEF Counted0, Freed
<1>6. Freed(t.m, a) <= t.m.cap[a]
  BY <1>1, <1>2, <1>5 DEF KeptModule
<1> QED BY <1>2, <1>4, <1>5, <1>6

LEMMA WidenedSteady ==
    ASSUME NEW m, IsModule(m), Steady(m), NEW m2, IsModule(m2), NEW a \in HostArrays, Widened(m2, m, a), OrderFits(m2),
           m.cnt["exports"] <= m.cap["exports"]
    PROVE  Steady(m2)
<1>1. /\ m2.cnt = m.cnt /\ m2.types_cap = m.types_cap /\ m2.ptr[a] # {}
      /\ \A d \in Arrays : d # a => m2.ptr[d] = m.ptr[d] /\ m2.cap[d] = m.cap[d] /\ m2.ent[d] = m.ent[d]
      /\ a # "export_order" => \A j \in 1..m.cap[a] : m2.ent[a][j] = m.ent[a][j]
  BY DEF Widened
<1>2. Counted0(m) /\ TypesFit(m) /\ ReprsFit(m) /\ DeclaredFit(m) /\ ExportsBelow(m, Functions(m))
  BY DEF Steady, Fit
<1>3. Counted0(m2)
  <2>1. SUFFICES ASSUME NEW d \in Growing, m2.ptr[d] = {} PROVE Freed(m2, d) = 0
    BY DEF Counted0, Freed
  <2>2. d # a /\ d \in Arrays
    BY <1>1, <2>1, OtherArraysFacts
  <2>3. Freed(m, d) = 0
    BY <1>1, <1>2, <2>1, <2>2 DEF Counted0, Freed
  <2> QED BY <1>1, <2>2, <2>3, FreedFacts
<1>4. \A d \in TypeFields : d # a /\ d \in Arrays
  BY HostArraysFacts, TypeFieldsFacts
<1>5. \A d \in TypeFields : m2.ptr[d] = m.ptr[d] /\ m2.cap[d] = m.cap[d]
  BY <1>1, <1>4
<1>6. TypesFit(m2)
  BY <1>1, <1>2, <1>5 DEF TypesFit, TypeFields, TypeArrays
<1>7. ReprsFit(m2)
  BY <1>2, <1>5 DEF ReprsFit, TypeFields
<1>8. Limit(m2, "func") = Limit(m, "func") /\ Functions(m2) = Functions(m)
  BY <1>1, LimitNat DEF Functions
<1>9. DeclaredFit(m2)
  BY <1>1, <1>2, <1>8, HostArraysFacts, TypeFieldsFacts DEF DeclaredFit
<1>10. \A j \in 1..m.cnt["exports"] : m2.ent["exports"][j] = m.ent["exports"][j]
  <2>1. CASE a = "exports"
    <3>1. m.cnt["exports"] \in Nat /\ m.cap["exports"] \in Nat
      BY TypeFieldsFacts DEF IsModule, Laid
    <3>2. \A j \in 1..m.cnt["exports"] : j \in 1..m.cap["exports"]
      BY <3>1
    <3> QED BY <1>1, <2>1, <3>2
  <2>2. CASE a # "exports"
    BY <1>1, <2>2, TypeFieldsFacts
  <2> QED BY <2>1, <2>2
<1>11. ExportsBelow(m2, Functions(m2))
  BY <1>1, <1>2, <1>8, <1>10 DEF ExportsBelow
<1> QED BY <1>3, <1>6, <1>7, <1>9, <1>11 DEF Steady, Fit

\* A run all of whose stops keep the module steady, with the counts c.
SteadyRun(r, c) == \A t \in Stops(r) : Sound(t) /\ Steady(t.m) /\ t.m.cnt = c

LEMMA SteadyNow ==
    ASSUME NEW r, NEW c, SteadyRun(r, c), NEW t, t = r.now
    PROVE  Sound(t) /\ Steady(t.m) /\ t.m.cnt = c /\ IsState(t) /\ IsModule(t.m)
BY RunFacts DEF SteadyRun, Sound, IsState

LEMMA SteadyStep ==
    ASSUME NEW r, NEW c, SteadyRun(r, c), NEW g, NEW q, q = r ++ g, NEW u, u = q.now, Sound(u), Steady(u.m), u.m.cnt = c
    PROVE  SteadyRun(q, c)
<1>1. q.now = Step(r.now, g) /\ Stops(q) = Stops(r) \cup {Step(r.now, g)}
  BY RunFacts
<1>2. Stops(q) = Stops(r) \cup {u}
  BY <1>1
<1> QED BY <1>2 DEF SteadyRun

\* Array a may be reallocated with capacity n.
CanWiden(t, a, n) ==
    /\ a \in HostArrays /\ n \in Nat /\ (a # "export_order" => t.m.cap[a] <= n)
    /\ (a = "exports" => n <= t.m.cap["export_order"]) /\ (a = "export_order" => t.m.cap["exports"] <= n)
    /\ ArrayBlock(a) \notin t.loc.held

LEMMA WidenHosts ==
    ASSUME NEW t, Sound(t), Steady(t.m), NEW m2, Widened(m2, t.m, "functions"), NEW j
    PROVE  Host(m2, j) <=> Host(t.m, j)
<1>1. PICK m : m = t.m
  OBVIOUS
<1>2. /\ m.cnt["functions"] \in Nat /\ m.cap["functions"] \in Nat /\ m.cnt["functions"] <= m.cap["functions"]
  BY <1>1, SteadyKept, HostArraysFacts DEF HostArrays
<1>3. /\ m2.cnt = m.cnt /\ m2.ptr["functions"] # {} /\ m2.ent["exports"] = m.ent["exports"]
      /\ \A i \in 1..m.cap["functions"] : m2.ent["functions"][i] = m.ent["functions"][i]
  BY <1>1, TypeFieldsFacts DEF Widened
<1>4. \A local \in 0..m.cnt["functions"] - 1 : Entry(m2, "functions", local) = Entry(m, "functions", local)
  <2>1. ASSUME NEW local \in 0..m.cnt["functions"] - 1 PROVE m2.ent["functions"][local + 1] = m.ent["functions"][local + 1]
    <3>1. local + 1 \in 1..m.cap["functions"]
      BY <1>2
    <3> QED BY <1>3, <3>1
  <2> QED BY <2>1 DEF Entry
<1>5. m.ptr["functions"] = {} => m.cnt["functions"] = 0
  BY <1>1, SteadyKept, HostArraysFacts DEF HostArrays
<1>6. PICK x : x = m.ent["exports"][j]
  OBVIOUS
<1>7. IsHostExport(m2, x) <=> IsHostExport(m, x)
  <2>1. m.ptr["functions"] = {} => 0..m.cnt["functions"] - 1 = {}
    BY <1>2, <1>5
  <2> QED BY <1>3, <1>4, <2>1 DEF IsHostExport
<1> QED BY <1>1, <1>3, <1>6, <1>7 DEF Host

LEMMA SteadyResize ==
    ASSUME NEW r, NEW c, SteadyRun(r, c), NEW a, NEW n, CanWiden(r.now, a, n), NEW q, q = r ++ Resize(a, n)
    PROVE  SteadyRun(q, c) /\ Resizes(q.now, r.now, a, n)
<1>1. PICK t, u : t = r.now /\ u = q.now
  OBVIOUS
<1>2. u = Step(t, Resize(a, n))
  BY <1>1, RunFacts
<1>3. /\ a \in HostArrays /\ n \in Nat /\ (a # "export_order" => t.m.cap[a] <= n)
      /\ (a = "exports" => n <= t.m.cap["export_order"]) /\ (a = "export_order" => t.m.cap["exports"] <= n)
      /\ ArrayBlock(a) \notin t.loc.held
  BY <1>1 DEF CanWiden
<1>4. Sound(t) /\ Steady(t.m) /\ t.m.cnt = c /\ IsState(t) /\ IsModule(t.m)
  BY <1>1, SteadyNow
<1>5. a \in Arrays /\ a \notin ImportArrays
  BY <1>3, HostArraysFacts
<1>6. Widened(u.m, t.m, a) /\ Resizes(u, t, a, n)
  BY <1>2, <1>3, <1>4, <1>5, WidenedFields
<1>7. Sound(u)
  <2>1. Freed(t.m, a) <= n
    <3>1. Freed(t.m, a) <= t.m.cap[a] /\ t.m.cap[a] \in Nat /\ Freed(t.m, a) \in Nat
      BY <1>3, <1>4, <1>5, SteadyKept, FreedNat
    <3>2. a = "export_order" => Freed(t.m, a) = 0
      BY <1>5, FreedFacts, HostArraysFacts
    <3> QED BY <1>3, <3>1, <3>2
  <2>2. t.m.ptr[a] = {} => Freed(t.m, a) = 0 /\ ArrayBlock(a) \notin t.h.live
    BY <1>3, <1>4, <1>5, SteadyKept, FreshArray
  <2>3. a = "functions" => \A j \in 1..Freed(t.m, "exports") : Host(u.m, j) <=> Host(t.m, j)
    BY <1>4, <1>6, WidenHosts
  <2> QED BY <1>2, <1>3, <1>4, <1>5, <2>1, <2>2, <2>3, ResizeSound
<1>8. IsModule(u.m)
  BY <1>7 DEF Sound, IsState
<1>9. OrderFits(u.m)
  <2>1. /\ u.m.cap[a] = n /\ \A d \in Arrays : d # a => u.m.cap[d] = t.m.cap[d]
    BY <1>6 DEF Resizes
  <2>2. t.m.cap["exports"] <= t.m.cap["export_order"]
    BY <1>4 DEF Steady, OrderFits
  <2> QED BY <1>3, <2>1, <2>2, TypeFieldsFacts DEF OrderFits
<1>10. t.m.cnt["exports"] <= t.m.cap["exports"]
  <2>1. "exports" \in HostArrays
    BY DEF HostArrays
  <2> QED BY <1>4, <2>1, SteadyKept, HostArraysFacts
<1>11. Steady(u.m)
  BY <1>3, <1>4, <1>6, <1>8, <1>9, <1>10, WidenedSteady
<1>12. u.m.cnt = c
  BY <1>4, <1>6 DEF Widened
<1>13. SteadyRun(q, c)
  BY <1>1, <1>7, <1>11, <1>12, SteadyStep
<1> QED BY <1>1, <1>6, <1>13

LEMMA SteadyLocal ==
    ASSUME NEW r, NEW c, SteadyRun(r, c), NEW b, b \notin r.now.h.live, NEW q, q = r ++ ForLocal(b)
    PROVE  /\ SteadyRun(q, c) /\ q.now.m = r.now.m /\ q.now.loc.held = r.now.loc.held \cup {b}
           /\ SameArrays(q.now.loc, r.now.loc) /\ HeapMore(q.now.h, r.now.h, b)
<1>1. PICK t, u : t = r.now /\ u = q.now
  OBVIOUS
<1>2. u = Step(t, ForLocal(b))
  BY <1>1, RunFacts
<1>3. Sound(t) /\ Steady(t.m) /\ t.m.cnt = c /\ IsState(t) /\ b \notin t.h.live
  BY <1>1, SteadyNow
<1>4. Sound(u)
  BY <1>2, <1>3, LocalSound
<1>5. u.loc.held = t.loc.held \cup {b} /\ SameArrays(u.loc, t.loc) /\ u.m = t.m /\ HeapMore(u.h, t.h, b)
  BY <1>2, <1>3, LocalFields
<1>6. SteadyRun(q, c)
  BY <1>1, <1>3, <1>4, <1>5, SteadyStep
<1> QED BY <1>1, <1>5, <1>6
\* A run that has only reallocated arrays of the module, none of t's blocks being released.
Reallocates(r, t, c) ==
    /\ SteadyRun(r, c) /\ r.now.loc = t.loc
    /\ \A b : b \in r.now.h.live => (b \in t.h.live \/ \E a \in HostArrays : b = ArrayBlock(a))

LEMMA ReallocatesMore ==
    ASSUME NEW r, NEW t, NEW c, Reallocates(r, t, c), NEW a, NEW n, CanWiden(r.now, a, n), NEW q, q = r ++ Resize(a, n)
    PROVE  Reallocates(q, t, c) /\ q.now.m.cap[a] = n /\ \A d \in Arrays : d # a => q.now.m.cap[d] = r.now.m.cap[d]
<1>1. SteadyRun(q, c) /\ Resizes(q.now, r.now, a, n)
  BY SteadyResize DEF Reallocates
<1>2. /\ q.now.loc = r.now.loc /\ q.now.m.cap[a] = n /\ (\A d \in Arrays : d # a => q.now.m.cap[d] = r.now.m.cap[d])
      /\ HeapMore(q.now.h, r.now.h, ArrayBlock(a))
  BY <1>1 DEF Resizes
<1>3. a \in HostArrays
  BY DEF CanWiden
<1> QED BY <1>1, <1>2, <1>3 DEF Reallocates, HeapMore

LEMMA ExportEnsured ==
    ASSUME NEW r, NEW t, NEW c, Reallocates(r, t, c), t.loc = NoLocals, NEW q, q = EnsureExport(r)
    PROVE  Reallocates(q, t, c) /\ c["exports"] + 1 <= q.now.m.cap["exports"]
<1>1. PICK s, m, cap, new : s = r.now /\ m = s.m /\ cap = m.cap["exports"] /\ new = IF cap = 0 THEN NewCap ELSE 2 * cap
  OBVIOUS
<1>2. SteadyRun(r, c) /\ s.loc = NoLocals
  BY <1>1 DEF Reallocates
<1>3. Sound(s) /\ Steady(m) /\ m.cnt = c /\ IsModule(m)
  BY <1>1, <1>2, SteadyNow
<1>4. "exports" \in HostArrays /\ "export_order" \in HostArrays
  BY DEF HostArrays
<1>5. cap \in Nat /\ m.cnt["exports"] \in Nat /\ m.cnt["exports"] <= cap
  <2>1. s.m.cnt["exports"] \in Nat /\ s.m.cap["exports"] \in Nat /\ s.m.cnt["exports"] <= s.m.cap["exports"]
    BY <1>1, <1>3, <1>4, SteadyKept, HostArraysFacts
  <2> QED BY <1>1, <2>1
<1>6. CASE m.cnt["exports"] < cap
  <2>1. q = r
    BY <1>1, <1>6 DEF EnsureExport
  <2> QED BY <1>1, <1>3, <1>5, <1>6, <2>1
<1>7. CASE ~(m.cnt["exports"] < cap)
  <2>1. PICK p : p = r ++ Resize("export_order", new)
    OBVIOUS
  <2>2. q = p ++ Resize("exports", new)
    BY <1>1, <1>7, <2>1 DEF EnsureExport
  <2>3. new \in Nat /\ cap + 1 <= new /\ cap <= new
    BY <1>1, <1>5, ModuleLifeAssumption
  <2>4. CanWiden(r.now, "export_order", new)
    BY <1>1, <1>2, <1>4, <2>3, NoLocalsFacts DEF CanWiden
  <2>5. Reallocates(p, t, c) /\ p.now.m.cap["export_order"] = new /\ \A d \in Arrays : d # "export_order" => p.now.m.cap[d] = r.now.m.cap[d]
    BY <2>1, <2>4, ReallocatesMore
  <2>6. p.now.loc = NoLocals /\ p.now.m.cap["exports"] = cap
    BY <1>1, <2>5, TypeFieldsFacts DEF Reallocates
  <2>7. CanWiden(p.now, "exports", new)
    BY <1>4, <2>3, <2>5, <2>6, NoLocalsFacts DEF CanWiden
  <2>8. Reallocates(q, t, c) /\ q.now.m.cap["exports"] = new
    BY <2>2, <2>5, <2>7, ReallocatesMore
  <2> QED BY <1>3, <1>5, <1>7, <2>3, <2>8
<1> QED BY <1>6, <1>7

HostKinds == {"functions", "globals", "memories"}

Bare(t) == t.loc = NoLocals

EnsuresCap(q, r, a, n) == a \in HostKinds /\ n \in Nat /\ q = EnsureCap(r, a, n)

LEMMA CapEnsured ==
    ASSUME NEW r, NEW t, NEW c, Reallocates(r, t, c), Bare(t), NEW a, NEW n, NEW q, EnsuresCap(q, r, a, n)
    PROVE  Reallocates(q, t, c) /\ n <= q.now.m.cap[a] /\ q.now.m.cap["exports"] = r.now.m.cap["exports"]
<1>0. a \in {"functions", "globals", "memories"} /\ n \in Nat /\ q = EnsureCap(r, a, n) /\ t.loc = NoLocals
  BY DEF EnsuresCap, Bare, HostKinds
<1>1. PICK s, m, cap : s = r.now /\ m = s.m /\ cap = Grown(m.cap[a], n)
  OBVIOUS
<1>2. SteadyRun(r, c) /\ s.loc = NoLocals
  BY <1>0, <1>1 DEF Reallocates
<1>3. Sound(s) /\ IsModule(m)
  BY <1>1, <1>2, SteadyNow
<1>4. a \in HostArrays /\ a \in Arrays /\ m.cap[a] \in Nat
  BY <1>0, <1>3, HostArraysFacts DEF HostArrays, IsModule, Laid
<1>5. cap \in Nat /\ cap >= n /\ cap >= m.cap[a]
  BY <1>0, <1>1, <1>4, GrownFacts
<1>6. CASE cap = m.cap[a]
  <2>1. q = r
    BY <1>0, <1>1, <1>6 DEF EnsureCap, When
  <2> QED BY <1>1, <1>4, <1>5, <1>6, <2>1
<1>7. CASE cap # m.cap[a]
  <2>1. q = r ++ Resize(a, cap)
    BY <1>0, <1>1, <1>7 DEF EnsureCap, When
  <2>2. CanWiden(r.now, a, cap)
    BY <1>0, <1>1, <1>2, <1>4, <1>5, NoLocalsFacts DEF CanWiden
  <2>3. Reallocates(q, t, c) /\ q.now.m.cap[a] = cap /\ \A d \in Arrays : d # a => q.now.m.cap[d] = r.now.m.cap[d]
    <3>1. PICK w : w = r ++ Resize(a, cap)
      OBVIOUS
    <3>2. Reallocates(w, t, c) /\ w.now.m.cap[a] = cap /\ \A d \in Arrays : d # a => w.now.m.cap[d] = r.now.m.cap[d]
      BY <2>2, <3>1, ReallocatesMore
    <3> QED BY <2>1, <3>1, <3>2
  <2> QED BY <1>0, <1>4, <1>5, <2>3, TypeFieldsFacts
<1> QED BY <1>6, <1>7

\* Entry i of array a of w holds o and says e; all else is that of m.
Written(w, m, a, i, o, e) ==
    /\ IsModule(w) /\ SameRest(w, m) /\ w.cnt = m.cnt /\ w.ptr = m.ptr /\ w.cap = m.cap
    /\ \A d \in Arrays : d # a => w.own[d] = m.own[d] /\ w.ent[d] = m.ent[d]
    /\ \A j \in 1..m.cap[a] : j # i => w.own[a][j] = m.own[a][j] /\ w.ent[a][j] = m.ent[a][j]
    /\ w.own[a][i] = o /\ w.ent[a][i] = e

LEMMA WriteFields ==
    ASSUME NEW st, IsState(st), NEW a \in Arrays, NEW i \in 1..st.m.cap[a], NEW o, NEW e, NEW t, t = Write(st, a, i, o, e)
    PROVE  Written(t.m, st.m, a, i, o, e) /\ IsState(t) /\ t.loc = st.loc /\ t.h = st.h
<1>1. PICK m, own, ent : m = st.m /\ own = Put(m.own, a, Put(m.own[a], i, o)) /\ ent = Put(m.ent, a, Put(m.ent[a], i, e))
  OBVIOUS
<1>2. t = [st EXCEPT !.m.own = own, !.m.ent = ent]
  BY <1>1 DEF Write
<1>3. PICK w : w = [m EXCEPT !.own = own, !.ent = ent]
  OBVIOUS
<1>4. t.m = w /\ t.loc = st.loc /\ t.h = st.h /\ t = [m |-> t.m, loc |-> t.loc, h |-> t.h]
  BY <1>1, <1>2, <1>3 DEF IsState
<1>5. IsModule(m) /\ Laid(m, Arrays) /\ m.types_cap \in Nat
  BY <1>1 DEF IsState, IsModule
<1>6. /\ w.cnt = m.cnt /\ w.ptr = m.ptr /\ w.cap = m.cap /\ w.own = own /\ w.ent = ent /\ SameRest(w, m)
      /\ w = [cnt |-> w.cnt, ptr |-> w.ptr, cap |-> w.cap, own |-> w.own, ent |-> w.ent,
            types_cap |-> w.types_cap, declared |-> w.declared, start |-> w.start,
            has_data_count_section |-> w.has_data_count_section,
            min_data_segment_count_required |-> w.min_data_segment_count_required]
  BY <1>3, <1>5 DEF IsModule, SameRest
<1>7. Laid(w, Arrays)
  <2>1. w.cnt \in [Arrays -> Nat] /\ w.cap = m.cap /\ w.ptr = m.ptr
    BY <1>5, <1>6 DEF Laid
  <2>2. w.own = Put(m.own, a, Put(m.own[a], i, o)) /\ w.ent = Put(m.ent, a, Put(m.ent[a], i, e))
    BY <1>1, <1>6
  <2> QED BY <1>5, <2>1, <2>2, LaidPut
<1>8. IsModule(w)
  BY <1>5, <1>6, <1>7 DEF IsModule, SameRest
<1>9. PICK n : n = m.cap[a]
  OBVIOUS
<1>10. a \in DOMAIN m.own /\ DOMAIN m.own[a] = 1..n /\ a \in DOMAIN m.ent /\ DOMAIN m.ent[a] = 1..n /\ i \in 1..n
       /\ DOMAIN m.own = Arrays /\ DOMAIN m.ent = Arrays
  BY <1>1, <1>5, <1>9 DEF Laid
<1>11. /\ \A d \in DOMAIN m.own : d # a => own[d] = m.own[d]
       /\ own[a][i] = o /\ \A j \in 1..n : j # i => own[a][j] = m.own[a][j]
  BY <1>1, <1>10, PutSlot
<1>12. /\ \A d \in DOMAIN m.ent : d # a => ent[d] = m.ent[d]
       /\ ent[a][i] = e /\ \A j \in 1..n : j # i => ent[a][j] = m.ent[a][j]
  BY <1>1, <1>10, PutSlot
<1>13. Written(w, m, a, i, o, e)
  BY <1>6, <1>8, <1>9, <1>10, <1>11, <1>12 DEF Written
<1>14. IsState(t)
  BY <1>4, <1>8 DEF IsState
<1> QED BY <1>1, <1>4, <1>13, <1>14

\* The last export of w is x, which holds o; all else but the order is that of m.
Appended(w, m, o, x) ==
    /\ IsModule(w) /\ SameRest(w, m) /\ w.ptr = m.ptr /\ w.cap = m.cap
    /\ w.cnt["exports"] = m.cnt["exports"] + 1 /\ \A d \in Arrays : d # "exports" => w.cnt[d] = m.cnt[d]
    /\ \A d \in Arrays : (d # "exports" /\ d # "export_order") => w.own[d] = m.own[d] /\ w.ent[d] = m.ent[d]
    /\ \A j \in 1..m.cnt["exports"] : w.own["exports"][j] = m.own["exports"][j] /\ w.ent["exports"][j] = m.ent["exports"][j]
    /\ w.own["exports"][m.cnt["exports"] + 1] = o /\ w.ent["exports"][m.cnt["exports"] + 1] = x

Moved(st, pos, n) ==
    [st EXCEPT !.m.own = Put(st.m.own, "export_order", MoveUp(st.m.own["export_order"], pos, n, {})),
               !.m.ent = Put(st.m.ent, "export_order", MoveUp(st.m.ent["export_order"], pos, n, OrderEntry(n + 1))),
               !.h.bad = @ \/ n + 1 > st.m.cap["export_order"]]

CanMove(st, n) == IsState(st) /\ st.h.bad = FALSE /\ n \in Nat /\ n + 1 <= st.m.cap["export_order"]

LEMMA MovedFields ==
    ASSUME NEW st, NEW pos, NEW n, CanMove(st, n), NEW t, t = Moved(st, pos, n)
    PROVE  /\ IsState(t) /\ t.loc = st.loc /\ t.h = st.h
           /\ t.m.cnt = st.m.cnt /\ t.m.ptr = st.m.ptr /\ t.m.cap = st.m.cap /\ SameRest(t.m, st.m)
           /\ \A d \in Arrays : d # "export_order" => t.m.own[d] = st.m.own[d] /\ t.m.ent[d] = st.m.ent[d]
<1> IsState(st) /\ st.h.bad = FALSE /\ n \in Nat /\ n + 1 <= st.m.cap["export_order"]
  BY DEF CanMove
<1>1. PICK m, own, ent, o, e : /\ m = st.m /\ o = MoveUp(m.own["export_order"], pos, n, {})
                               /\ e = MoveUp(m.ent["export_order"], pos, n, OrderEntry(n + 1))
                               /\ own = Put(m.own, "export_order", o) /\ ent = Put(m.ent, "export_order", e)
  OBVIOUS
<1>2. PICK w : w = [m EXCEPT !.own = own, !.ent = ent]
  OBVIOUS
<1>3. IsModule(m) /\ Laid(m, Arrays) /\ m.types_cap \in Nat /\ m.cap["export_order"] \in Nat
  BY <1>1, TypeFieldsFacts DEF IsState, IsModule, Laid
<1>4. ~(n + 1 > m.cap["export_order"])
  BY <1>1, <1>3
<1>5. t.m = w /\ t.loc = st.loc /\ t = [m |-> t.m, loc |-> t.loc, h |-> t.h]
  BY <1>1, <1>2 DEF IsState, Moved
<1>6. t.h = st.h
  BY <1>1, <1>4 DEF IsState, Moved
<1>7. /\ w.cnt = m.cnt /\ w.ptr = m.ptr /\ w.cap = m.cap /\ w.own = own /\ w.ent = ent /\ SameRest(w, m)
      /\ w = [cnt |-> w.cnt, ptr |-> w.ptr, cap |-> w.cap, own |-> w.own, ent |-> w.ent,
            types_cap |-> w.types_cap, declared |-> w.declared, start |-> w.start,
            has_data_count_section |-> w.has_data_count_section,
            min_data_segment_count_required |-> w.min_data_segment_count_required]
  BY <1>2, <1>3 DEF IsModule, SameRest
<1>8. DOMAIN m.own = Arrays /\ DOMAIN m.ent = Arrays /\ DOMAIN m.own["export_order"] = 1..m.cap["export_order"]
      /\ DOMAIN m.ent["export_order"] = 1..m.cap["export_order"]
  BY <1>3, TypeFieldsFacts DEF Laid
<1>9. DOMAIN o = 1..m.cap["export_order"] /\ DOMAIN e = 1..m.cap["export_order"]
  BY <1>1, <1>8 DEF MoveUp
<1>10. /\ DOMAIN own = Arrays /\ DOMAIN ent = Arrays /\ own["export_order"] = o /\ ent["export_order"] = e
       /\ \A d \in Arrays : d # "export_order" => own[d] = m.own[d] /\ ent[d] = m.ent[d]
  BY <1>1, <1>8, TypeFieldsFacts DEF Put
<1>11. Laid(w, Arrays)
  <2>1. ASSUME NEW d \in Arrays
        PROVE  /\ DOMAIN w.own[d] = 1..w.cap[d] /\ DOMAIN w.ent[d] = 1..w.cap[d]
               /\ w.ptr[d] \in {{}, Pointer(d)} /\ (w.ptr[d] = {} => w.cap[d] = 0)
    <3>1. w.ptr[d] \in {{}, Pointer(d)} /\ (w.ptr[d] = {} => w.cap[d] = 0)
      BY <1>3, <1>7 DEF Laid
    <3>2. CASE d = "export_order"
      BY <1>7, <1>9, <1>10, <3>1, <3>2
    <3>3. CASE d # "export_order"
      BY <1>3, <1>7, <1>10, <3>1, <3>3 DEF Laid
    <3> QED BY <3>2, <3>3
  <2> QED BY <1>3, <1>7, <1>10, <2>1 DEF Laid
<1>12. IsModule(w)
  BY <1>3, <1>7, <1>11 DEF IsModule, SameRest
<1>13. IsState(t)
  BY <1>5, <1>6, <1>12 DEF IsState
<1> QED BY <1>1, <1>5, <1>6, <1>7, <1>10, <1>13

\* w is m with the count of array a set to c.
IsRecounted(w, m, a, c) == w = Recounted(m, a, c)

LEMMA IsRecountedFields ==
    ASSUME NEW m, IsModule(m), NEW a \in Arrays, NEW c \in Nat, NEW w, IsRecounted(w, m, a, c)
    PROVE  /\ IsModule(w) /\ SameRest(w, m) /\ w.ptr = m.ptr /\ w.cap = m.cap /\ w.own = m.own /\ w.ent = m.ent
           /\ w.cnt[a] = c /\ \A d \in Arrays : d # a => w.cnt[d] = m.cnt[d]
<1>1. w = Recounted(m, a, c)
  BY DEF IsRecounted
<1> QED BY <1>1, RecountedFields

CanAppend(st) ==
    IsState(st) /\ st.h.bad = FALSE /\ st.m.cnt["exports"] + 1 <= st.m.cap["exports"] /\ OrderFits(st.m)

LEMMA AppendFields ==
    ASSUME NEW st, CanAppend(st), NEW x, NEW o, NEW d, d = AppendExport(st, x, o)
    PROVE  Appended(d.m, st.m, o, x) /\ d.loc = st.loc /\ d.h = st.h /\ IsState(d)
<1>1. PICK n, pos, s1, s2 : /\ n = st.m.cnt["exports"] /\ pos = Insertion(st.m, x.name) /\ s1 = Moved(st, pos, n)
                            /\ s2 = Write(s1, "exports", n + 1, o, x)
  OBVIOUS
<1>2. d = [s2 EXCEPT !.m.cnt["exports"] = n + 1]
  BY <1>1 DEF AppendExport, Moved
<1>3. /\ n \in Nat /\ st.m.cap["exports"] \in Nat /\ st.m.cap["export_order"] \in Nat /\ n + 1 <= st.m.cap["exports"]
      /\ st.m.cap["exports"] <= st.m.cap["export_order"]
  BY <1>1, TypeFieldsFacts DEF CanAppend, IsState, IsModule, Laid, OrderFits
<1>4. n + 1 <= st.m.cap["export_order"] /\ n + 1 \in 1..st.m.cap["exports"]
  BY <1>3
<1>5. /\ IsState(s1) /\ s1.loc = st.loc /\ s1.h = st.h
      /\ s1.m.cnt = st.m.cnt /\ s1.m.ptr = st.m.ptr /\ s1.m.cap = st.m.cap /\ SameRest(s1.m, st.m)
      /\ \A c \in Arrays : c # "export_order" => s1.m.own[c] = st.m.own[c] /\ s1.m.ent[c] = st.m.ent[c]
  <2>1. s1 = Moved(st, pos, n)
    BY <1>1
  <2>2. CanMove(st, n)
    BY <1>3, <1>4 DEF CanAppend, CanMove
  <2> QED BY <2>1, <2>2, MovedFields
<1>6. PICK i, a : i = n + 1 /\ a = "exports"
  OBVIOUS
<1>7. Written(s2.m, s1.m, a, i, o, x) /\ IsState(s2) /\ s2.loc = s1.loc /\ s2.h = s1.h
  <2>1. a \in Arrays /\ i \in 1..s1.m.cap[a] /\ s2 = Write(s1, a, i, o, x)
    BY <1>1, <1>4, <1>5, <1>6, TypeFieldsFacts
  <2> QED BY <1>5, <2>1, WriteFields
<1>8. PICK w : w = Recounted(s2.m, a, i)
  OBVIOUS
<1>9. d.m = w /\ d.loc = s2.loc /\ d.h = s2.h /\ d = [m |-> d.m, loc |-> d.loc, h |-> d.h]
  BY <1>2, <1>6, <1>7, <1>8 DEF Recounted, IsState
<1>10. a \in Arrays /\ i \in Nat /\ IsModule(s2.m)
  BY <1>3, <1>6, <1>7, TypeFieldsFacts DEF IsState
<1>11. /\ IsModule(w) /\ SameRest(w, s2.m) /\ w.ptr = s2.m.ptr /\ w.cap = s2.m.cap /\ w.own = s2.m.own /\ w.ent = s2.m.ent
       /\ w.cnt[a] = i /\ \A c \in Arrays : c # a => w.cnt[c] = s2.m.cnt[c]
  <2>1. PICK m2 : m2 = s2.m
    OBVIOUS
  <2>2. IsRecounted(w, m2, a, i) /\ IsModule(m2)
    BY <1>8, <1>10, <2>1 DEF IsRecounted
  <2>3. /\ IsModule(w) /\ SameRest(w, m2) /\ w.ptr = m2.ptr /\ w.cap = m2.cap /\ w.own = m2.own /\ w.ent = m2.ent
        /\ w.cnt[a] = i /\ \A c \in Arrays : c # a => w.cnt[c] = m2.cnt[c]
    BY <1>10, <2>2, IsRecountedFields
  <2> QED BY <2>1, <2>3
<1>12. /\ SameRest(s2.m, s1.m) /\ s2.m.cnt = s1.m.cnt /\ s2.m.ptr = s1.m.ptr /\ s2.m.cap = s1.m.cap
       /\ \A c \in Arrays : c # a => s2.m.own[c] = s1.m.own[c] /\ s2.m.ent[c] = s1.m.ent[c]
       /\ \A j \in 1..s1.m.cap[a] : j # i => s2.m.own[a][j] = s1.m.own[a][j] /\ s2.m.ent[a][j] = s1.m.ent[a][j]
       /\ s2.m.own[a][i] = o /\ s2.m.ent[a][i] = x
  BY <1>7 DEF Written
<1>13. SameRest(w, st.m) /\ w.ptr = st.m.ptr /\ w.cap = st.m.cap
  BY <1>5, <1>11, <1>12 DEF SameRest
<1>14. \A c \in Arrays : (c # "exports" /\ c # "export_order") => w.own[c] = st.m.own[c] /\ w.ent[c] = st.m.ent[c]
  BY <1>5, <1>6, <1>11, <1>12
<1>15. \A j \in 1..n : w.own["exports"][j] = st.m.own["exports"][j] /\ w.ent["exports"][j] = st.m.ent["exports"][j]
  <2>1. \A j \in 1..n : j # i /\ j \in 1..s1.m.cap[a]
    BY <1>3, <1>5, <1>6
  <2>2. s1.m.own[a] = st.m.own[a] /\ s1.m.ent[a] = st.m.ent[a]
    BY <1>5, <1>6, <1>10
  <2> QED BY <1>6, <1>11, <1>12, <2>1, <2>2
<1>16. Appended(w, st.m, o, x)
  <2>1. n = st.m.cnt["exports"] /\ i = n + 1 /\ a = "exports"
    BY <1>1, <1>6
  <2>2. w.cnt["exports"] = st.m.cnt["exports"] + 1 /\ \A c \in Arrays : c # "exports" => w.cnt[c] = st.m.cnt[c]
    BY <1>5, <1>11, <1>12, <2>1
  <2>3. w.own["exports"][n + 1] = o /\ w.ent["exports"][n + 1] = x
    BY <1>11, <1>12, <2>1
  <2> QED BY <1>11, <1>13, <1>14, <1>15, <2>1, <2>2, <2>3 DEF Appended
<1>17. IsState(d)
  BY <1>7, <1>9, <1>11 DEF IsState
<1> QED BY <1>5, <1>7, <1>9, <1>16, <1>17
\* Array a of w has one more entry, which holds o and says e, and the exports have one more,
\* which holds ox and says x; all else but the order of the exports is that of m.
Extended(w, m, a, o, e, ox, x) ==
    /\ IsModule(w) /\ SameRest(w, m) /\ w.ptr = m.ptr /\ w.cap = m.cap
    /\ w.cnt[a] = m.cnt[a] + 1 /\ w.cnt["exports"] = m.cnt["exports"] + 1
    /\ \A d \in Arrays : (d # a /\ d # "exports") => w.cnt[d] = m.cnt[d]
    /\ \A d \in Arrays : (d # a /\ d # "exports" /\ d # "export_order") => w.own[d] = m.own[d] /\ w.ent[d] = m.ent[d]
    /\ \A d \in {a, "exports"} : \A j \in 1..m.cnt[d] : w.own[d][j] = m.own[d][j] /\ w.ent[d][j] = m.ent[d][j]
    /\ w.own[a][m.cnt[a] + 1] = o /\ w.ent[a][m.cnt[a] + 1] = e
    /\ w.own["exports"][m.cnt["exports"] + 1] = ox /\ w.ent["exports"][m.cnt["exports"] + 1] = x

\* Array a and the exports of m have room for one more entry.
HasRoom(m, a) == m.cnt[a] + 1 <= m.cap[a] /\ m.cnt["exports"] + 1 <= m.cap["exports"]

LEMMA HostKindFacts ==
    ASSUME NEW a \in HostKinds
    PROVE  /\ a \in Arrays /\ a \in HostArrays /\ a # "exports" /\ a # "export_order" /\ a # "type_defs" /\ a # "types"
           /\ a # "func_imports" /\ a # "function_type_indices" /\ a # "declared_funcs" /\ a \notin TypeFields
           /\ "exports" \in HostArrays
BY HostArraysFacts DEF HostKinds, HostArrays, TypeFields, TypeArrays

IsNextOf(i, m, a) == i = m.cnt[a] + 1

LEMMA RoomFacts ==
    ASSUME NEW m, IsModule(m), NEW a \in HostKinds, HasRoom(m, a)
    PROVE  /\ a \in Arrays /\ a # "exports" /\ a # "export_order"
           /\ m.cnt[a] \in Nat /\ m.cap[a] \in Nat /\ m.cnt["exports"] \in Nat /\ m.cap["exports"] \in Nat
           /\ m.cnt[a] + 1 \in Nat /\ m.cnt[a] + 1 <= m.cap[a]
           /\ m.cnt["exports"] + 1 \in Nat /\ m.cnt["exports"] + 1 <= m.cap["exports"]
           /\ m.ptr[a] # {} /\ m.ptr["exports"] # {}
<1>1. a \in Arrays /\ a # "exports" /\ a # "export_order" /\ "exports" \in Arrays
  BY HostKindFacts, TypeFieldsFacts
<1>2. m.cnt \in [Arrays -> Nat] /\ m.cap \in [Arrays -> Nat]
  BY DEF IsModule, Laid
<1>3. m.cnt[a] \in Nat /\ m.cap[a] \in Nat /\ m.cnt["exports"] \in Nat /\ m.cap["exports"] \in Nat
  BY <1>1, <1>2
<1>4. m.cnt[a] + 1 <= m.cap[a] /\ m.cnt["exports"] + 1 <= m.cap["exports"]
  BY DEF HasRoom
<1>5. \A d \in Arrays : m.ptr[d] = {} => m.cap[d] = 0
  BY DEF IsModule, Laid
<1>6. m.ptr[a] = {} => m.cap[a] = 0
  BY <1>1, <1>5
<1>7. m.ptr["exports"] = {} => m.cap["exports"] = 0
  BY <1>1, <1>5
<1>8. m.cap[a] # 0 /\ m.cap["exports"] # 0 /\ m.cnt[a] + 1 \in Nat /\ m.cnt["exports"] + 1 \in Nat
  BY <1>3, <1>4
<1> QED BY <1>1, <1>3, <1>4, <1>6, <1>7, <1>8

LEMMA WriteCountAppend ==
    ASSUME NEW m, IsModule(m), NEW a \in HostKinds, HasRoom(m, a), NEW o, NEW e, NEW ox, NEW x, NEW i, IsNextOf(i, m, a),
           NEW w1, Written(w1, m, a, i, o, e), NEW w2, IsRecounted(w2, w1, a, i), NEW w, Appended(w, w2, ox, x)
    PROVE  Extended(w, m, a, o, e, ox, x)
<1>1. /\ a \in Arrays /\ a # "exports" /\ a # "export_order" /\ m.cnt[a] \in Nat /\ m.cap[a] \in Nat /\ i \in Nat /\ i <= m.cap[a]
      /\ m.cnt["exports"] \in Nat
  BY RoomFacts DEF IsNextOf
<1>0. i = m.cnt[a] + 1
  BY DEF IsNextOf
<1>2. /\ IsModule(w1) /\ SameRest(w1, m) /\ w1.cnt = m.cnt /\ w1.ptr = m.ptr /\ w1.cap = m.cap
      /\ \A d \in Arrays : d # a => w1.own[d] = m.own[d] /\ w1.ent[d] = m.ent[d]
      /\ \A j \in 1..m.cap[a] : j # i => w1.own[a][j] = m.own[a][j] /\ w1.ent[a][j] = m.ent[a][j]
      /\ w1.own[a][i] = o /\ w1.ent[a][i] = e
  BY DEF Written
<1>3. /\ IsModule(w2) /\ SameRest(w2, w1) /\ w2.ptr = w1.ptr /\ w2.cap = w1.cap /\ w2.own = w1.own /\ w2.ent = w1.ent
      /\ w2.cnt[a] = i /\ \A d \in Arrays : d # a => w2.cnt[d] = w1.cnt[d]
  BY <1>1, <1>2, IsRecountedFields
<1>4. /\ IsModule(w) /\ SameRest(w, w2) /\ w.ptr = w2.ptr /\ w.cap = w2.cap
      /\ w.cnt["exports"] = w2.cnt["exports"] + 1 /\ (\A d \in Arrays : d # "exports" => w.cnt[d] = w2.cnt[d])
      /\ \A d \in Arrays : (d # "exports" /\ d # "export_order") => w.own[d] = w2.own[d] /\ w.ent[d] = w2.ent[d]
      /\ \A j \in 1..w2.cnt["exports"] : w.own["exports"][j] = w2.own["exports"][j] /\ w.ent["exports"][j] = w2.ent["exports"][j]
      /\ w.own["exports"][w2.cnt["exports"] + 1] = ox /\ w.ent["exports"][w2.cnt["exports"] + 1] = x
  BY DEF Appended
<1>5. w2.cnt["exports"] = m.cnt["exports"]
  BY <1>1, <1>2, <1>3, TypeFieldsFacts
<1>6. SameRest(w, m) /\ w.ptr = m.ptr /\ w.cap = m.cap
  BY <1>2, <1>3, <1>4 DEF SameRest
<1>7. /\ w.cnt[a] = m.cnt[a] + 1 /\ w.cnt["exports"] = m.cnt["exports"] + 1
      /\ \A d \in Arrays : (d # a /\ d # "exports") => w.cnt[d] = m.cnt[d]
  BY <1>0, <1>1, <1>2, <1>3, <1>4, <1>5
<1>8. \A d \in Arrays : (d # a /\ d # "exports" /\ d # "export_order") => w.own[d] = m.own[d] /\ w.ent[d] = m.ent[d]
  BY <1>2, <1>3, <1>4
<1>9. w.own[a] = w1.own[a] /\ w.ent[a] = w1.ent[a]
  BY <1>1, <1>3, <1>4
<1>10. \A j \in 1..m.cnt[a] : w.own[a][j] = m.own[a][j] /\ w.ent[a][j] = m.ent[a][j]
  <2>1. \A j \in 1..m.cnt[a] : j \in 1..m.cap[a] /\ j # i
    BY <1>0, <1>1
  <2> QED BY <1>2, <1>9, <2>1
<1>11. \A j \in 1..m.cnt["exports"] : w.own["exports"][j] = m.own["exports"][j] /\ w.ent["exports"][j] = m.ent["exports"][j]
  <2>1. w2.own["exports"] = m.own["exports"] /\ w2.ent["exports"] = m.ent["exports"]
    BY <1>1, <1>2, <1>3, TypeFieldsFacts
  <2> QED BY <1>4, <1>5, <2>1
<1>12. w.own[a][m.cnt[a] + 1] = o /\ w.ent[a][m.cnt[a] + 1] = e
  BY <1>0, <1>2, <1>9
<1>13. w.own["exports"][m.cnt["exports"] + 1] = ox /\ w.ent["exports"][m.cnt["exports"] + 1] = x
  BY <1>4, <1>5
<1>14. \A d \in {a, "exports"} : \A j \in 1..m.cnt[d] : w.own[d][j] = m.own[d][j] /\ w.ent[d][j] = m.ent[d][j]
  BY <1>10, <1>11
<1> QED BY <1>4, <1>6, <1>7, <1>8, <1>12, <1>13, <1>14 DEF Extended

LEMMA WriteAppendCount ==
    ASSUME NEW m, IsModule(m), NEW a \in HostKinds, HasRoom(m, a), NEW o, NEW e, NEW ox, NEW x, NEW i, IsNextOf(i, m, a),
           NEW w1, Written(w1, m, a, i, o, e), NEW w2, Appended(w2, w1, ox, x), NEW w, IsRecounted(w, w2, a, i)
    PROVE  Extended(w, m, a, o, e, ox, x)
<1>1. /\ a \in Arrays /\ a # "exports" /\ a # "export_order" /\ m.cnt[a] \in Nat /\ m.cap[a] \in Nat /\ i \in Nat /\ i <= m.cap[a]
      /\ m.cnt["exports"] \in Nat
  BY RoomFacts DEF IsNextOf
<1>0. i = m.cnt[a] + 1
  BY DEF IsNextOf
<1>2. /\ IsModule(w1) /\ SameRest(w1, m) /\ w1.cnt = m.cnt /\ w1.ptr = m.ptr /\ w1.cap = m.cap
      /\ \A d \in Arrays : d # a => w1.own[d] = m.own[d] /\ w1.ent[d] = m.ent[d]
      /\ \A j \in 1..m.cap[a] : j # i => w1.own[a][j] = m.own[a][j] /\ w1.ent[a][j] = m.ent[a][j]
      /\ w1.own[a][i] = o /\ w1.ent[a][i] = e
  BY DEF Written
<1>3. /\ IsModule(w2) /\ SameRest(w2, w1) /\ w2.ptr = w1.ptr /\ w2.cap = w1.cap
      /\ w2.cnt["exports"] = w1.cnt["exports"] + 1 /\ (\A d \in Arrays : d # "exports" => w2.cnt[d] = w1.cnt[d])
      /\ \A d \in Arrays : (d # "exports" /\ d # "export_order") => w2.own[d] = w1.own[d] /\ w2.ent[d] = w1.ent[d]
      /\ \A j \in 1..w1.cnt["exports"] : w2.own["exports"][j] = w1.own["exports"][j] /\ w2.ent["exports"][j] = w1.ent["exports"][j]
      /\ w2.own["exports"][w1.cnt["exports"] + 1] = ox /\ w2.ent["exports"][w1.cnt["exports"] + 1] = x
  BY DEF Appended
<1>4. /\ IsModule(w) /\ SameRest(w, w2) /\ w.ptr = w2.ptr /\ w.cap = w2.cap /\ w.own = w2.own /\ w.ent = w2.ent
      /\ w.cnt[a] = i /\ \A d \in Arrays : d # a => w.cnt[d] = w2.cnt[d]
  BY <1>1, <1>3, IsRecountedFields
<1>5. SameRest(w, m) /\ w.ptr = m.ptr /\ w.cap = m.cap
  BY <1>2, <1>3, <1>4 DEF SameRest
<1>6. /\ w.cnt[a] = m.cnt[a] + 1 /\ w.cnt["exports"] = m.cnt["exports"] + 1
      /\ \A d \in Arrays : (d # a /\ d # "exports") => w.cnt[d] = m.cnt[d]
  BY <1>0, <1>1, <1>2, <1>3, <1>4, TypeFieldsFacts
<1>7. \A d \in Arrays : (d # a /\ d # "exports" /\ d # "export_order") => w.own[d] = m.own[d] /\ w.ent[d] = m.ent[d]
  BY <1>2, <1>3, <1>4
<1>8. w.own[a] = w1.own[a] /\ w.ent[a] = w1.ent[a]
  BY <1>1, <1>3, <1>4
<1>9. \A j \in 1..m.cnt[a] : w.own[a][j] = m.own[a][j] /\ w.ent[a][j] = m.ent[a][j]
  <2>1. \A j \in 1..m.cnt[a] : j \in 1..m.cap[a] /\ j # i
    BY <1>0, <1>1
  <2> QED BY <1>2, <1>8, <2>1
<1>10. \A j \in 1..m.cnt["exports"] : w.own["exports"][j] = m.own["exports"][j] /\ w.ent["exports"][j] = m.ent["exports"][j]
  <2>1. w1.own["exports"] = m.own["exports"] /\ w1.ent["exports"] = m.ent["exports"]
    BY <1>1, <1>2, TypeFieldsFacts
  <2> QED BY <1>2, <1>3, <1>4, <2>1
<1>11. w.own[a][m.cnt[a] + 1] = o /\ w.ent[a][m.cnt[a] + 1] = e
  BY <1>0, <1>2, <1>8
<1>12. w.own["exports"][m.cnt["exports"] + 1] = ox /\ w.ent["exports"][m.cnt["exports"] + 1] = x
  BY <1>2, <1>3, <1>4
<1>13. \A d \in {a, "exports"} : \A j \in 1..m.cnt[d] : w.own[d][j] = m.own[d][j] /\ w.ent[d][j] = m.ent[d][j]
  BY <1>9, <1>10
<1> QED BY <1>4, <1>5, <1>6, <1>7, <1>11, <1>12, <1>13 DEF Extended

\* The export before the last one are host functions of w when they are of m.
LEMMA ExtendedHosts ==
    ASSUME NEW m, IsModule(m), Steady(m), m.cnt["functions"] <= m.cap["functions"], NEW a \in HostKinds, HasRoom(m, a),
           NEW o, NEW e, NEW ox, NEW x, NEW w, Extended(w, m, a, o, e, ox, x), NEW j \in 1..m.cnt["exports"]
    PROVE  Host(w, j) <=> Host(m, j)
<1>1. /\ w.ptr = m.ptr /\ w.cnt[a] = m.cnt[a] + 1
      /\ (\A d \in Arrays : (d # a /\ d # "exports") => w.cnt[d] = m.cnt[d])
      /\ (\A d \in Arrays : (d # a /\ d # "exports" /\ d # "export_order") => w.ent[d] = m.ent[d])
      /\ \A d \in {a, "exports"} : \A k \in 1..m.cnt[d] : w.ent[d][k] = m.ent[d][k]
  BY DEF Extended
<1>2. a # "exports" /\ a # "func_imports" /\ a \in Arrays
  BY HostKindFacts
<1>3. w.cnt["func_imports"] = m.cnt["func_imports"] /\ w.ent["exports"][j] = m.ent["exports"][j] /\ m.cnt["func_imports"] \in Nat
  BY <1>1, <1>2, OtherArraysFacts DEF IsModule, Laid
<1>4. CASE a # "functions"
  <2>1. w.ptr["functions"] = m.ptr["functions"] /\ w.cnt["functions"] = m.cnt["functions"] /\ w.ent["functions"] = m.ent["functions"]
    BY <1>1, <1>4, TypeFieldsFacts
  <2> QED BY <1>3, <2>1, HostFrame
<1>5. CASE a = "functions"
  <2>1. PICK y, n, f : y = m.ent["exports"][j] /\ n = m.cnt["functions"] /\ f = m.cnt["func_imports"]
    OBVIOUS
  <2>2. n \in Nat /\ f \in Nat /\ w.cnt["functions"] = n + 1 /\ w.cnt["func_imports"] = f
    BY <1>1, <1>3, <1>5, <2>1, TypeFieldsFacts DEF IsModule, Laid
  <2>3. \A local \in 0..n - 1 : Entry(w, "functions", local) = Entry(m, "functions", local)
    <3>1. ASSUME NEW local \in 0..n - 1 PROVE w.ent["functions"][local + 1] = m.ent["functions"][local + 1]
      <4>1. local + 1 \in 1..n
        BY <2>2
      <4> QED BY <1>1, <1>5, <2>1, <4>1
    <3> QED BY <3>1 DEF Entry
  <2>4. y.kind = "func" => y.i \in Nat /\ y.i < f + n
    BY <2>1 DEF Steady, ExportsBelow, Functions
  <2>5. \A local \in 0..(n + 1) - 1 : local \in 0..n - 1 \/ local = n
    BY <2>2
  <2>6. \A local \in 0..n - 1 : local \in 0..(n + 1) - 1
    BY <2>2
  <2>7. y.kind = "func" => y.i # f + n
    BY <2>2, <2>4
  <2>8. IsHostExport(w, y) <=> IsHostExport(m, y)
    <3>1. IsHostExport(w, y) <=> /\ y.k = "export" /\ y.kind = "func" /\ m.ptr["functions"] # {}
                                 /\ \E local \in 0..(n + 1) - 1 : y.i = f + local /\ Entry(w, "functions", local).k = "host"
      BY <1>1, <2>2 DEF IsHostExport
    <3>2. IsHostExport(m, y) <=> /\ y.k = "export" /\ y.kind = "func" /\ m.ptr["functions"] # {}
                                 /\ \E local \in 0..n - 1 : y.i = f + local /\ Entry(m, "functions", local).k = "host"
      BY <2>1 DEF IsHostExport
    <3> QED BY <2>3, <2>5, <2>6, <2>7, <3>1, <3>2
  <2> QED BY <1>3, <2>1, <2>8 DEF Host
<1> QED BY <1>4, <1>5

\* The blocks N that the entries that are added to m own.
NewBlocks(N, w, m, a, o) ==
    /\ \A b \in o : b[1] = a /\ b[2] = m.cnt[a] + 1
    /\ \A b \in Own(w, "exports", m.cnt["exports"] + 1) : b[1] = "exports" /\ b[2] = m.cnt["exports"] + 1
    /\ \A b : b \in N <=> (a \notin FlatArrays /\ b \in o) \/ b \in Own(w, "exports", m.cnt["exports"] + 1)

LEMMA ExtendedModule ==
    ASSUME NEW t, Sound(t), NEW m, m = t.m, Steady(m), NEW a \in HostKinds, HasRoom(m, a),
           NEW o, NEW e, NEW ox, NEW x, NEW w, Extended(w, m, a, o, e, ox, x), NEW N, NewBlocks(N, w, m, a, o)
    PROVE  KeptModule(w) /\ \A b : InModule(w, b) <=> (InModule(m, b) \/ b \in N)
<1>1. IsModule(m) /\ KeptModule(m) /\ a \in Arrays /\ a \in HostArrays /\ "exports" \in HostArrays /\ "functions" \in HostArrays
  BY HostKindFacts DEF Sound, IsState, HostArrays
<1>2. PICK n, i : n = m.cnt["exports"] + 1 /\ i = m.cnt[a] + 1
  OBVIOUS
<1>3. /\ w.ptr = m.ptr /\ w.cap = m.cap /\ w.cnt[a] = i /\ w.cnt["exports"] = n
      /\ (\A d \in Arrays : (d # a /\ d # "exports") => w.cnt[d] = m.cnt[d])
      /\ (\A d \in Arrays : (d # a /\ d # "exports" /\ d # "export_order") => w.own[d] = m.own[d])
      /\ (\A d \in {a, "exports"} : \A j \in 1..m.cnt[d] : w.own[d][j] = m.own[d][j])
      /\ w.own[a][i] = o
  BY <1>2 DEF Extended
<1>4. /\ m.cnt[a] \in Nat /\ m.cap[a] \in Nat /\ m.cnt["exports"] \in Nat /\ m.cap["exports"] \in Nat
      /\ i <= m.cap[a] /\ n <= m.cap["exports"] /\ i \in Nat /\ n \in Nat
  <2>1. /\ m.cnt[a] \in Nat /\ m.cap[a] \in Nat /\ m.cnt["exports"] \in Nat /\ m.cap["exports"] \in Nat
        /\ m.cnt[a] + 1 \in Nat /\ m.cnt[a] + 1 <= m.cap[a]
        /\ m.cnt["exports"] + 1 \in Nat /\ m.cnt["exports"] + 1 <= m.cap["exports"]
    BY <1>1, RoomFacts
  <2> QED BY <1>2, <2>1
<1>5. m.ptr[a] # {} /\ m.ptr["exports"] # {}
  BY <1>1, RoomFacts
<1>6. m.cnt["functions"] <= m.cap["functions"]
  BY <1>1, SteadyKept, HostArraysFacts
<1>7. \A j \in 1..m.cnt["exports"] : Host(w, j) <=> Host(m, j)
  BY <1>1, <1>6, ExtendedHosts
<1>8. a # "exports" /\ a # "export_order" /\ a # "type_defs" /\ a # "types" /\ "exports" \notin FlatArrays /\ "export_order" \in FlatArrays
  BY HostKindFacts, HostArraysFacts
<1>9. \A d \in Arrays : (d # a /\ d # "exports") => Freed(w, d) = Freed(m, d)
  BY <1>3, <1>8, FreedFacts, TypeFieldsFacts
<1>10. Freed(w, "exports") = n /\ Freed(m, "exports") = m.cnt["exports"]
  BY <1>3, <1>8, FreedFacts, TypeFieldsFacts
<1>11. /\ a \in FlatArrays => Freed(w, a) = 0 /\ Freed(m, a) = 0
       /\ a \notin FlatArrays => Freed(w, a) = i /\ Freed(m, a) = m.cnt[a]
  BY <1>1, <1>3, <1>8, FreedFacts
<1>12. \A d \in Arrays : (d # a /\ d # "exports") => \A j \in 1..Freed(m, d) : Own(w, d, j) = Own(m, d, j)
  <2>1. SUFFICES ASSUME NEW d \in Arrays, d # a, d # "exports", NEW j \in 1..Freed(m, d) PROVE w.own[d] = m.own[d]
    BY DEF Own
  <2>2. d # "export_order"
    <3>1. Freed(m, "export_order") = 0
      BY <1>8, FreedFacts, TypeFieldsFacts
    <3> QED BY <2>1, <3>1
  <2> QED BY <1>3, <2>1, <2>2
<1>13. \A j \in 1..m.cnt[a] : Own(w, a, j) = Own(m, a, j)
  BY <1>3, <1>8 DEF Own
<1>14. \A j \in 1..m.cnt["exports"] : Own(w, "exports", j) = Own(m, "exports", j)
  BY <1>3, <1>7 DEF Own
<1>15. Own(w, a, i) = o
  BY <1>3, <1>8 DEF Own
<1>16. /\ (\A b \in o : b[1] = a /\ b[2] = i) /\ (\A b \in Own(w, "exports", n) : b[1] = "exports" /\ b[2] = n)
       /\ \A b : b \in N <=> (a \notin FlatArrays /\ b \in o) \/ b \in Own(w, "exports", n)
  BY <1>2 DEF NewBlocks
<1>17. KeptModule(w)
  <2>1. ASSUME NEW d \in Arrays, w.ptr[d] # {}
        PROVE  Freed(w, d) <= w.cap[d] /\ \A j \in 1..Freed(w, d) : \A b \in Own(w, d, j) : b[1] = d /\ b[2] = j
    <3>1. Freed(m, d) <= m.cap[d] /\ \A j \in 1..Freed(m, d) : \A b \in Own(m, d, j) : b[1] = d /\ b[2] = j
      BY <1>1, <1>3, <2>1 DEF KeptModule
    <3>2. CASE d # a /\ d # "exports"
      BY <1>3, <1>9, <1>12, <3>1, <3>2
    <3>3. CASE d = a
      <4>1. CASE a \in FlatArrays
        BY <1>3, <1>4, <1>11, <3>3, <4>1
      <4>2. CASE a \notin FlatArrays
        <5>1. \A j \in 1..i : j = i \/ j \in 1..m.cnt[a]
          BY <1>2, <1>4
        <5> QED BY <1>3, <1>4, <1>11, <1>13, <1>15, <1>16, <3>1, <3>3, <4>2, <5>1
      <4> QED BY <4>1, <4>2
    <3>4. CASE d = "exports"
      <4>1. \A j \in 1..n : j = n \/ j \in 1..m.cnt["exports"]
        BY <1>2, <1>4
      <4> QED BY <1>3, <1>4, <1>10, <1>14, <1>16, <3>1, <3>4, <4>1
    <3> QED BY <3>2, <3>3, <3>4
  <2> QED BY <2>1 DEF KeptModule
<1>18. ASSUME NEW b PROVE InModule(w, b) <=> (InModule(m, b) \/ b \in N)
  <2>1. CASE b[1] # a /\ b[1] # "exports"
    <3>1. b \notin N
      BY <1>16, <2>1
    <3> QED BY <1>3, <1>9, <1>12, <2>1, <3>1 DEF InModule
  <2>2. CASE b[1] = a
    <3>1. b \in N <=> (a \notin FlatArrays /\ b \in o)
      BY <1>8, <1>16, <2>2
    <3>2. InModule(m, b) <=> (b = ArrayBlock(a) \/ (b[2] \in 1..Freed(m, a) /\ b \in Own(m, a, b[2])))
      BY <1>1, <1>5, <2>2 DEF InModule
    <3>3. InModule(w, b) <=> (b = ArrayBlock(a) \/ (b[2] \in 1..Freed(w, a) /\ b \in Own(w, a, b[2])))
      BY <1>1, <1>3, <1>5, <2>2 DEF InModule
    <3>4. CASE a \in FlatArrays
      BY <1>11, <3>1, <3>2, <3>3, <3>4
    <3>5. CASE a \notin FlatArrays
      <4>1. \A k : k \in 1..i <=> (k = i \/ k \in 1..m.cnt[a])
        BY <1>2, <1>4
      <4>2. (b[2] \in 1..i /\ b \in Own(w, a, b[2])) <=> ((b[2] \in 1..m.cnt[a] /\ b \in Own(m, a, b[2])) \/ (b[2] = i /\ b \in o))
        BY <1>13, <1>15, <4>1
      <4>3. b \in o => b[2] = i
        BY <1>16
      <4> QED BY <1>11, <3>1, <3>2, <3>3, <3>5, <4>2, <4>3
    <3> QED BY <3>4, <3>5
  <2>3. CASE b[1] = "exports"
    <3>1. b \in N <=> b \in Own(w, "exports", n)
      BY <1>8, <1>16, <2>3
    <3>2. InModule(m, b) <=> (b = ArrayBlock("exports") \/ (b[2] \in 1..Freed(m, "exports") /\ b \in Own(m, "exports", b[2])))
      BY <1>5, <2>3, TypeFieldsFacts DEF InModule
    <3>3. InModule(w, b) <=> (b = ArrayBlock("exports") \/ (b[2] \in 1..Freed(w, "exports") /\ b \in Own(w, "exports", b[2])))
      BY <1>3, <1>5, <2>3, TypeFieldsFacts DEF InModule
    <3>4. \A k : k \in 1..n <=> (k = n \/ k \in 1..m.cnt["exports"])
      BY <1>2, <1>4
    <3>5. (b[2] \in 1..n /\ b \in Own(w, "exports", b[2])) <=>
            ((b[2] \in 1..m.cnt["exports"] /\ b \in Own(m, "exports", b[2])) \/ (b[2] = n /\ b \in Own(w, "exports", n)))
      BY <1>14, <3>4
    <3>6. b \in Own(w, "exports", n) => b[2] = n
      BY <1>16
    <3> QED BY <1>10, <3>1, <3>2, <3>3, <3>5, <3>6
  <2> QED BY <2>1, <2>2, <2>3
<1> QED BY <1>17, <1>18

\* The call leaves the module ready: its new export names a function that exists.
LEMMA ExtendedReady ==
    ASSUME NEW m, IsModule(m), Steady(m), NEW a \in HostKinds, HasRoom(m, a), NEW o, NEW e, NEW ox, NEW x,
           NEW w, Extended(w, m, a, o, e, ox, x), x.kind = "func" => x.i \in Nat /\ x.i < Functions(w)
    PROVE  ReadyOK(w, NoLocals)
<1>1. /\ IsModule(w) /\ SameRest(w, m) /\ w.ptr = m.ptr /\ w.cap = m.cap
      /\ w.cnt[a] = m.cnt[a] + 1 /\ w.cnt["exports"] = m.cnt["exports"] + 1
      /\ (\A d \in Arrays : (d # a /\ d # "exports") => w.cnt[d] = m.cnt[d])
      /\ (\A j \in 1..m.cnt["exports"] : w.ent["exports"][j] = m.ent["exports"][j])
      /\ w.ent["exports"][m.cnt["exports"] + 1] = x
  BY DEF Extended
<1>2. /\ a \in Arrays /\ a # "exports" /\ a # "type_defs" /\ a # "types" /\ a # "func_imports" /\ a # "function_type_indices"
  BY HostKindFacts
<1>3. Counted0(m) /\ TypesFit(m) /\ ReprsFit(m) /\ DeclaredFit(m) /\ OrderFits(m) /\ ExportsBelow(m, Functions(m))
  BY DEF Steady, Fit
<1>4. w.cnt["types"] = m.cnt["types"] /\ w.cnt["func_imports"] = m.cnt["func_imports"]
      /\ w.cnt["function_type_indices"] = m.cnt["function_type_indices"] /\ w.types_cap = m.types_cap
  BY <1>1, <1>2, OtherArraysFacts DEF SameRest
<1>5. m.cnt \in [Arrays -> Nat] /\ "functions" \in Arrays /\ "func_imports" \in Arrays
  BY OtherArraysFacts, TypeFieldsFacts DEF IsModule, Laid
<1>6. m.cnt["functions"] \in Nat /\ m.cnt["func_imports"] \in Nat /\ m.cnt["exports"] \in Nat /\ m.cnt[a] \in Nat
  BY <1>2, <1>5, TypeFieldsFacts
<1>7. m.ptr[a] # {} /\ m.ptr["exports"] # {}
  BY RoomFacts
<1>8. Counted0(w)
  <2>1. SUFFICES ASSUME NEW d \in Growing, w.ptr[d] = {} PROVE Freed(w, d) = 0
    BY DEF Counted0, Freed
  <2>2. Freed(m, d) = 0 /\ d # a /\ d # "exports" /\ d \in Arrays
    BY <1>1, <1>3, <1>7, <2>1, OtherArraysFacts DEF Counted0, Freed
  <2>3. w.cnt[d] = m.cnt[d]
    BY <1>1, <2>2
  <2> QED BY <1>4, <2>2, <2>3, FreedFacts
<1>9. TypesFit(w) /\ ReprsFit(w) /\ OrderFits(w)
  BY <1>1, <1>3, <1>4 DEF TypesFit, ReprsFit, OrderFits
<1>10. DeclaredFit(w)
  <2>1. Limit(w, "func") = Limit(m, "func")
    BY <1>1, <1>4, LimitNat
  <2> QED BY <1>1, <1>3, <2>1 DEF DeclaredFit
<1>11. Functions(m) \in Nat /\ Functions(w) \in Nat /\ Functions(m) <= Functions(w)
  <2>1. w.cnt["functions"] = m.cnt["functions"] \/ w.cnt["functions"] = m.cnt["functions"] + 1
    BY <1>1, <1>5
  <2> QED BY <1>4, <1>6, <2>1 DEF Functions
<1>12. ExportsBelow(w, Functions(w))
  <2>1. SUFFICES ASSUME NEW j \in 1..w.cnt["exports"], w.ent["exports"][j].kind = "func"
                 PROVE  w.ent["exports"][j].i \in Nat /\ w.ent["exports"][j].i < Functions(w)
    BY DEF ExportsBelow
  <2>2. j = m.cnt["exports"] + 1 \/ j \in 1..m.cnt["exports"]
    BY <1>1, <1>6
  <2>3. CASE j \in 1..m.cnt["exports"]
    <3>1. m.ent["exports"][j].kind = "func" => m.ent["exports"][j].i \in Nat /\ m.ent["exports"][j].i < Functions(m)
      BY <1>3, <2>3 DEF ExportsBelow
    <3>2. w.ent["exports"][j] = m.ent["exports"][j]
      BY <1>1, <2>3
    <3>3. w.ent["exports"][j].i \in Nat /\ w.ent["exports"][j].i < Functions(m)
      BY <2>1, <3>1, <3>2
    <3> QED BY <1>11, <3>3
  <2>4. CASE j = m.cnt["exports"] + 1
    BY <1>1, <2>1, <2>4
  <2> QED BY <2>2, <2>3, <2>4
<1> QED BY <1>8, <1>9, <1>10, <1>12 DEF ReadyOK, Fit

LEMMA BareLocals ==
    ASSUME NEW l, SameArrays(l, NoLocals)
    PROVE  \A b : ~InLocal(l, b)
<1>1. \A c \in ImportArrays : l.ptr[c] = {}
  BY NoLocalsFacts DEF SameArrays
<1> QED BY <1>1 DEF InLocal

\* The blocks of t and the new ones N, all of t's locals among them, are the module's.
Settles(h2, t, N) ==
    /\ h2 = [live |-> h2.live, bad |-> h2.bad] /\ h2.bad = FALSE
    /\ SameArrays(t.loc, NoLocals) /\ (\A b : b \in t.loc.held => b \in N)
    /\ \A b : b \in h2.live <=> (b \in t.h.live \/ b \in N)

LEMMA ExtendedSound ==
    ASSUME NEW t, Sound(t), NEW m, m = t.m, Steady(m), NEW a \in HostKinds, HasRoom(m, a),
           NEW o, NEW e, NEW ox, NEW x, NEW w, Extended(w, m, a, o, e, ox, x), NEW N, NewBlocks(N, w, m, a, o),
           NEW h2, Settles(h2, t, N), NEW d, d = [m |-> w, loc |-> NoLocals, h |-> h2]
    PROVE  Sound(d)
<1>1. KeptModule(w) /\ \A b : InModule(w, b) <=> (InModule(m, b) \/ b \in N)
  BY ExtendedModule
<1>2. d = [m |-> d.m, loc |-> d.loc, h |-> d.h] /\ d.m = w /\ d.loc = NoLocals /\ d.h = h2
  OBVIOUS
<1>3. IsModule(w)
  BY DEF Extended
<1>4. \A b : ~InLocal(t.loc, b)
  BY BareLocals DEF Settles
<1>5. \A b : b \in t.h.live <=> (b \in t.loc.held \/ InModule(m, b) \/ InLocal(t.loc, b))
  BY DEF Sound
<1>6. \A b : b \in h2.live <=> InModule(w, b)
  BY <1>1, <1>4, <1>5 DEF Settles
<1>7. h2 = [live |-> h2.live, bad |-> h2.bad] /\ h2.bad = FALSE
  BY DEF Settles
<1> QED BY <1>1, <1>2, <1>3, <1>6, <1>7, SoundAlone

\* A call of the host either keeps the module or leaves it as done.
LEMMA ExtendIInv ==
    ASSUME IInv, NEW name, NEW r, NEW done, Extend(name, r, done), \A t \in r.past : Sound(t) /\ Steady(t.m),
           Sound(done), ReadyOK(done.m, done.loc)
    PROVE  IInv'
<1>1. /\ phase = "ready" /\ spent' = spent + 1 /\ phase' = phase /\ cur' = cur /\ todo' = todo /\ last' = last
      /\ \/ UNCHANGED <<mod, loc, heap>>
         \/ Now(done)
         \/ \E st \in r.past : Now(Keep(st))
  BY DEF Extend
<1>2. cur = "none" /\ todo \in Nat /\ last \in 0..13 /\ spent \in Nat /\ Sound(St) /\ ReadyOK(mod, loc)
  BY <1>1 DEF IInv
<1>3. phase' = "ready" /\ cur' = "none" /\ todo' \in Nat /\ last' \in 0..13 /\ spent' \in Nat
  BY <1>1, <1>2
<1>4. CASE UNCHANGED <<mod, loc, heap>>
  <2>1. Now(St) /\ ReadyOK(St.m, St.loc)
    BY <1>2, <1>4, StFields DEF Now
  <2> QED BY <1>2, <1>3, <2>1, ReadyStep
<1>5. CASE Now(done)
  BY <1>3, <1>5, ReadyStep
<1>6. CASE \E st \in r.past : Now(Keep(st))
  <2>1. PICK st \in r.past : Now(Keep(st))
    BY <1>6
  <2>2. PICK u : u = Keep(st)
    OBVIOUS
  <2>3. Sound(st) /\ Steady(st.m)
    BY <2>1
  <2>4. Sound(u) /\ u.m = st.m /\ u.loc = NoLocals
    BY <2>2, <2>3, KeepSound
  <2>5. ReadyOK(u.m, u.loc)
    BY <2>3, <2>4 DEF ReadyOK, Steady
  <2>6. Now(u)
    BY <2>1, <2>2
  <2> QED BY <1>3, <2>4, <2>5, <2>6, ReadyStep
<1> QED BY <1>1, <1>4, <1>5, <1>6

RoomFor(st, a, i) == EnsureCap(EnsureExport(Start(st)), a, i)

LEMMA RoomMade ==
    ASSUME NEW st, Sound(st), Steady(st.m), st.loc = NoLocals, NEW a \in HostKinds, NEW i, IsNextOf(i, st.m, a),
           NEW q, q = RoomFor(st, a, i)
    PROVE  /\ SteadyRun(q, st.m.cnt) /\ q.now.loc = NoLocals /\ HasRoom(q.now.m, a) /\ q.now.m.cnt = st.m.cnt
           /\ i \in Nat /\ i # 0 /\ FreshEntry(q.now, a, i) /\ FreshEntry(q.now, "exports", st.m.cnt["exports"] + 1)
<1>1. PICK c, r0, r1 : c = st.m.cnt /\ r0 = Start(st) /\ r1 = EnsureExport(r0)
  OBVIOUS
<1>2. a \in Arrays /\ a \in HostArrays /\ a \in {"functions", "globals", "memories"} /\ "exports" \in HostArrays
  BY HostKindFacts DEF HostKinds
<1>3. i \in Nat /\ i # 0 /\ i = c[a] + 1 /\ c[a] \in Nat /\ c["exports"] \in Nat
  <2>1. c \in [Arrays -> Nat]
    BY <1>1 DEF Sound, IsState, IsModule, Laid
  <2>2. c[a] \in Nat /\ c["exports"] \in Nat
    BY <1>2, <2>1, TypeFieldsFacts
  <2>3. i = c[a] + 1
    BY <1>1 DEF IsNextOf
  <2> QED BY <2>2, <2>3
<1>4. r0.now = st /\ Stops(r0) = {st}
  BY <1>1, StartFacts
<1>5. Reallocates(r0, st, c)
  BY <1>1, <1>4 DEF Reallocates, SteadyRun
<1>6. Reallocates(r1, st, c) /\ c["exports"] + 1 <= r1.now.m.cap["exports"]
  BY <1>1, <1>5, ExportEnsured
<1>7. q = EnsureCap(r1, a, i)
  BY <1>1 DEF RoomFor
<1>8. Reallocates(q, st, c) /\ i <= q.now.m.cap[a] /\ q.now.m.cap["exports"] = r1.now.m.cap["exports"]
  <2>1. PICK p, k : p = EnsureCap(r1, a, k) /\ k = i
    OBVIOUS
  <2>2. Bare(st) /\ EnsuresCap(p, r1, a, k)
    BY <1>3, <2>1 DEF Bare, EnsuresCap
  <2>3. Reallocates(p, st, c) /\ k <= p.now.m.cap[a] /\ p.now.m.cap["exports"] = r1.now.m.cap["exports"]
    BY <1>6, <2>2, CapEnsured
  <2> QED BY <1>7, <2>1, <2>3
<1>9. PICK t : t = q.now
  OBVIOUS
<1>10. SteadyRun(q, c) /\ t.loc = NoLocals
  BY <1>8, <1>9 DEF Reallocates
<1>11. Sound(t) /\ Steady(t.m) /\ t.m.cnt = c
  BY <1>9, <1>10, SteadyNow
<1>12. HasRoom(t.m, a)
  BY <1>3, <1>6, <1>8, <1>9, <1>11 DEF HasRoom
<1>13. \A d \in HostArrays : Freed(t.m, d) = c[d] \/ Freed(t.m, d) = 0
  BY <1>11, HostArraysFacts, FreedFacts
<1>14. \A b : b \notin t.loc.held
  BY <1>10, NoLocalsFacts
<1>15. FreshEntry(t, a, i)
  <2>1. i \notin 1..Freed(t.m, a)
    BY <1>2, <1>3, <1>13
  <2>2. a \notin ImportArrays
    BY <1>2, HostArraysFacts
  <2> QED BY <1>3, <1>11, <1>14, <2>1, <2>2, FreshOf
<1>16. FreshEntry(t, "exports", c["exports"] + 1)
  <2>1. PICK j, x : j = c["exports"] + 1 /\ x = "exports"
    OBVIOUS
  <2>2. j \notin 1..Freed(t.m, x) /\ j # 0
    BY <1>2, <1>3, <1>13, <2>1
  <2>3. x \notin ImportArrays
    BY <1>2, <2>1, HostArraysFacts
  <2>4. FreshEntry(t, x, j)
    BY <1>11, <1>14, <2>2, <2>3, FreshOf
  <2> QED BY <2>1, <2>4
<1> QED BY <1>1, <1>3, <1>9, <1>10, <1>11, <1>12, <1>15, <1>16

LEMMA UnheldFields ==
    ASSUME NEW p, Sound(p), NEW u, u = Unheld(p)
    PROVE  IsState(u) /\ u.m = p.m /\ u.loc = NoLocals /\ u.h = p.h /\ u.h.bad = FALSE
<1>1. p = [m |-> p.m, loc |-> p.loc, h |-> p.h] /\ p.h = [live |-> p.h.live, bad |-> p.h.bad] /\ IsModule(p.m) /\ p.h.bad = FALSE
  BY DEF Sound, IsState
<1>2. u = [m |-> p.m, loc |-> NoLocals, h |-> p.h]
  BY <1>1 DEF Unheld
<1>3. u.m = p.m /\ u.loc = NoLocals /\ u.h = p.h
  BY <1>2
<1>4. IsState(u)
  BY <1>1, <1>2, <1>3, NoLocalsFacts DEF IsState
<1> QED BY <1>1, <1>3, <1>4

AppendCount(st, a, i, x, o) == [AppendExport(st, x, o) EXCEPT !.m.cnt[a] = i]

\* st is a state whose module m was, but for its entry i of array a.
Entering(st, m, a, i, o, e) == IsState(st) /\ st.h.bad = FALSE /\ Written(st.m, m, a, i, o, e)

LEMMA AppendCountFields ==
    ASSUME NEW m, IsModule(m), OrderFits(m), NEW a \in HostKinds, HasRoom(m, a), NEW i, IsNextOf(i, m, a),
           NEW st, NEW o, NEW e, Entering(st, m, a, i, o, e), NEW x, NEW ox, NEW d, d = AppendCount(st, a, i, x, ox)
    PROVE  Extended(d.m, m, a, o, e, ox, x) /\ d.loc = st.loc /\ d.h = st.h /\ d = [m |-> d.m, loc |-> d.loc, h |-> d.h]
<1>1. IsState(st) /\ st.h.bad = FALSE /\ Written(st.m, m, a, i, o, e)
  BY DEF Entering
<1>2. PICK s1 : s1 = AppendExport(st, x, ox)
  OBVIOUS
<1>3. st.m.cnt["exports"] + 1 <= st.m.cap["exports"] /\ OrderFits(st.m)
  BY <1>1 DEF Written, HasRoom, OrderFits
<1>4. Appended(s1.m, st.m, ox, x) /\ s1.loc = st.loc /\ s1.h = st.h /\ IsState(s1)
  <2>1. CanAppend(st)
    BY <1>1, <1>3 DEF CanAppend
  <2> QED BY <1>2, <2>1, AppendFields
<1>5. PICK w : w = Recounted(s1.m, a, i)
  OBVIOUS
<1>6. d = [s1 EXCEPT !.m = w]
  BY <1>2, <1>4, <1>5 DEF AppendCount, Recounted, IsState
<1>7. d.m = w /\ d.loc = s1.loc /\ d.h = s1.h /\ d = [m |-> d.m, loc |-> d.loc, h |-> d.h]
  BY <1>4, <1>6 DEF IsState
<1>8. IsRecounted(w, s1.m, a, i)
  BY <1>5 DEF IsRecounted
<1>9. PICK w1, w2 : w1 = st.m /\ w2 = s1.m
  OBVIOUS
<1>10. Written(w1, m, a, i, o, e) /\ Appended(w2, w1, ox, x) /\ IsRecounted(w, w2, a, i)
  BY <1>1, <1>4, <1>8, <1>9
<1>11. Extended(w, m, a, o, e, ox, x)
  BY <1>10, WriteAppendCount
<1> QED BY <1>4, <1>7, <1>11

CountAlloc(s, i, b) == [s EXCEPT !.m.cnt["functions"] = i, !.h = Alloc(@, {b})]

CanCountAlloc(s, i) == IsState(s) /\ s.h.bad = FALSE /\ i \in Nat

CountsAlloc(u, s, i, b) ==
    /\ IsState(u) /\ IsRecounted(u.m, s.m, "functions", i) /\ u.loc = s.loc /\ u.h.bad = FALSE
    /\ u.h = [live |-> u.h.live, bad |-> u.h.bad] /\ \A c : c \in u.h.live <=> (c \in s.h.live \/ c = b)

LEMMA CountAllocFields ==
    ASSUME NEW s, NEW i, CanCountAlloc(s, i), NEW b, NEW u, u = CountAlloc(s, i, b)
    PROVE  CountsAlloc(u, s, i, b)
<1>1. /\ s = [m |-> s.m, loc |-> s.loc, h |-> s.h] /\ s.h = [live |-> s.h.live, bad |-> s.h.bad] /\ IsModule(s.m) /\ IsLocals(s.loc)
      /\ s.h.bad = FALSE /\ i \in Nat
  BY DEF CanCountAlloc, IsState
<1>2. PICK w, g : w = Recounted(s.m, "functions", i) /\ g = Alloc(s.h, {b})
  OBVIOUS
<1>3. u = [m |-> w, loc |-> s.loc, h |-> g]
  BY <1>1, <1>2 DEF CountAlloc, Recounted
<1>4. u.m = w /\ u.loc = s.loc /\ u.h = g
  BY <1>3
<1>5. PICK f : f = "functions"
  OBVIOUS
<1>6. IsRecounted(w, s.m, f, i) /\ f \in Arrays
  BY <1>2, <1>5, TypeFieldsFacts DEF IsRecounted
<1>7. IsModule(w)
  BY <1>1, <1>6, IsRecountedFields
<1>8. g = [live |-> s.h.live \cup {b}, bad |-> s.h.bad]
  BY <1>2 DEF Alloc
<1>9. g = [live |-> g.live, bad |-> g.bad] /\ g.bad = FALSE /\ \A c : c \in g.live <=> (c \in s.h.live \/ c = b)
  BY <1>1, <1>8
<1>10. IsState(u)
  BY <1>1, <1>3, <1>4, <1>7, <1>9 DEF IsState
<1> QED BY <1>4, <1>5, <1>6, <1>9, <1>10 DEF CountsAlloc

FunctionAppended(d, st, m, o, e, ox, x, b) ==
    /\ Extended(d.m, m, "functions", o, e, ox, x) /\ d.loc = st.loc /\ d.h.bad = FALSE
    /\ d.h = [live |-> d.h.live, bad |-> d.h.bad] /\ (\A c : c \in d.h.live <=> (c \in st.h.live \/ c = b))
    /\ d = [m |-> d.m, loc |-> d.loc, h |-> d.h]

LEMMA CountAppendFields ==
    ASSUME NEW m, IsModule(m), OrderFits(m), HasRoom(m, "functions"), NEW i, IsNextOf(i, m, "functions"),
           NEW st, NEW o, NEW e, Entering(st, m, "functions", i, o, e), NEW x, NEW ox, NEW b, NEW d, d = AppendExport(CountAlloc(st, i, b), x, ox)
    PROVE  FunctionAppended(d, st, m, o, e, ox, x, b)
<1>1. IsState(st) /\ st.h.bad = FALSE /\ Written(st.m, m, "functions", i, o, e)
  BY DEF Entering
<1>2. PICK f : f = "functions"
  OBVIOUS
<1>0. PICK s : s = CountAlloc(st, i, b)
  OBVIOUS
<1>3. f \in HostKinds /\ HasRoom(m, f) /\ IsNextOf(i, m, f) /\ Written(st.m, m, f, i, o, e)
  BY <1>1, <1>2 DEF HostKinds
<1>4. i \in Nat
  BY <1>3, RoomFacts DEF IsNextOf
<1>5. /\ IsState(s) /\ IsRecounted(s.m, st.m, "functions", i) /\ s.loc = st.loc /\ s.h.bad = FALSE
      /\ s.h = [live |-> s.h.live, bad |-> s.h.bad] /\ \A c : c \in s.h.live <=> (c \in st.h.live \/ c = b)
  <2>1. CanCountAlloc(st, i)
    BY <1>1, <1>4 DEF CanCountAlloc
  <2>2. CountsAlloc(s, st, i, b)
    BY <1>0, <2>1, CountAllocFields
  <2> QED BY <2>2 DEF CountsAlloc
<1>6. IsRecounted(s.m, st.m, f, i)
  BY <1>2, <1>5
<1>7. IsModule(st.m) /\ f \in Arrays /\ f # "exports"
  BY <1>1, <1>3, HostKindFacts DEF IsState
<1>8. PICK w1, w2 : w1 = st.m /\ w2 = s.m
  OBVIOUS
<1>9. IsModule(w1) /\ Written(w1, m, f, i, o, e) /\ IsRecounted(w2, w1, f, i)
  BY <1>3, <1>6, <1>7, <1>8
<1>10. w2.cap = w1.cap /\ w2.cnt["exports"] = w1.cnt["exports"]
  BY <1>4, <1>7, <1>9, IsRecountedFields, TypeFieldsFacts
<1>11. w1.cap = m.cap /\ w1.cnt = m.cnt
  BY <1>9 DEF Written
<1>12. s.m.cnt["exports"] + 1 <= s.m.cap["exports"] /\ OrderFits(s.m)
  BY <1>8, <1>10, <1>11 DEF HasRoom, OrderFits
<1>13. d = AppendExport(s, x, ox)
  BY <1>0
<1>14. Appended(d.m, s.m, ox, x) /\ d.loc = s.loc /\ d.h = s.h /\ IsState(d)
  <2>1. CanAppend(s)
    BY <1>5, <1>12 DEF CanAppend
  <2> QED BY <1>13, <2>1, AppendFields
<1>15. PICK w : w = d.m
  OBVIOUS
<1>16. Appended(w, w2, ox, x)
  BY <1>8, <1>14, <1>15
<1>17. Extended(w, m, f, o, e, ox, x)
  BY <1>3, <1>9, <1>16, WriteCountAppend
<1>18. d = [m |-> d.m, loc |-> d.loc, h |-> d.h]
  BY <1>14 DEF IsState
<1> QED BY <1>2, <1>5, <1>14, <1>15, <1>17, <1>18 DEF FunctionAppended

\* p is about to settle: s is p with entry i of array a written and its locals given up,
\* the label of the export being the only one.
Settling(p, s, a, i, o, e, label) ==
    /\ Sound(p) /\ Steady(p.m) /\ SameArrays(p.loc, NoLocals) /\ p.loc.held = {label}
    /\ a \in HostKinds /\ HasRoom(p.m, a) /\ IsNextOf(i, p.m, a)
    /\ Entering(s, p.m, a, i, o, e) /\ s.loc = NoLocals
    /\ \A b : b \in s.h.live <=> (b \in p.h.live \/ b \in o)
    /\ label[1] = "exports" /\ label[2] = p.m.cnt["exports"] + 1
    /\ (\A b \in o : b[1] = a /\ b[2] = i) /\ (a \in FlatArrays => o = {})

LEMMA HostSettled ==
    ASSUME NEW p, NEW s, NEW a, NEW i, NEW o, NEW e, NEW label, Settling(p, s, a, i, o, e, label), NEW x, x.kind # "func",
           NEW d, d = AppendCount(s, a, i, x, {label})
    PROVE  Sound(d) /\ ReadyOK(d.m, d.loc)
<1>1. /\ Sound(p) /\ Steady(p.m) /\ SameArrays(p.loc, NoLocals)
      /\ a \in HostKinds /\ HasRoom(p.m, a) /\ IsNextOf(i, p.m, a) /\ Entering(s, p.m, a, i, o, e)
  BY DEF Settling
<1>2. PICK m, ox : m = p.m /\ ox = {label}
  OBVIOUS
<1>3. IsModule(m) /\ OrderFits(m) /\ Steady(m) /\ HasRoom(m, a) /\ IsNextOf(i, m, a) /\ Entering(s, m, a, i, o, e)
  BY <1>1, <1>2 DEF Sound, IsState, Steady
<1>4. PICK u : u = AppendCount(s, a, i, x, ox)
  OBVIOUS
<1>5. Extended(u.m, m, a, o, e, ox, x) /\ u.loc = s.loc /\ u.h = s.h /\ u = [m |-> u.m, loc |-> u.loc, h |-> u.h]
  BY <1>1, <1>3, <1>4, AppendCountFields
<1>6. PICK w, h2, N : w = u.m /\ h2 = u.h /\ N = o \cup {label}
  OBVIOUS
<1>7. Extended(w, m, a, o, e, ox, x)
  BY <1>5, <1>6
<1>8. s.loc = NoLocals /\ s.h.bad = FALSE /\ s.h = [live |-> s.h.live, bad |-> s.h.bad]
  BY DEF Settling, Entering, IsState
<1>9. u.loc = NoLocals /\ h2 = s.h /\ u = [m |-> w, loc |-> NoLocals, h |-> h2]
  BY <1>5, <1>6, <1>8
<1>10. Settles(h2, p, N)
  <2>1. \A b : b \in h2.live <=> (b \in p.h.live \/ b \in o)
    BY <1>9 DEF Settling
  <2>2. \A b : b \in p.loc.held <=> b = label
    BY DEF Settling
  <2>3. label \in p.h.live
    BY <1>1, <2>2 DEF Sound
  <2>4. \A b : b \in N <=> (b \in o \/ b = label)
    BY <1>6
  <2>5. \A b : b \in h2.live <=> (b \in p.h.live \/ b \in N)
    BY <2>1, <2>3, <2>4
  <2>6. \A b : b \in p.loc.held => b \in N
    BY <2>2, <2>4
  <2> QED BY <1>1, <1>8, <1>9, <2>5, <2>6 DEF Settles
<1>11. PICK n : n = m.cnt["exports"] + 1
  OBVIOUS
<1>12. Own(w, "exports", n) = ox
  <2>1. w.own["exports"][n] = ox /\ w.ent["exports"][n] = x
    BY <1>7, <1>11 DEF Extended
  <2>2. ~Host(w, n)
    BY <2>1 DEF Host, IsHostExport
  <2> QED BY <2>1, <2>2 DEF Own
<1>13. NewBlocks(N, w, m, a, o)
  <2>1. label[1] = "exports" /\ label[2] = n
    BY <1>2, <1>11 DEF Settling
  <2>2. \A b \in Own(w, "exports", n) : b[1] = "exports" /\ b[2] = n
    BY <1>2, <1>12, <2>1
  <2>3. (\A b \in o : b[1] = a /\ b[2] = i) /\ i = m.cnt[a] + 1
    BY <1>3 DEF Settling, IsNextOf
  <2>4. \A b : b \in N <=> (a \notin FlatArrays /\ b \in o) \/ b \in Own(w, "exports", n)
    <3>1. \A b : b \in N <=> (b \in o \/ b = label)
      BY <1>6
    <3>2. \A b : b \in Own(w, "exports", n) <=> b = label
      BY <1>2, <1>12
    <3>3. \A b \in o : a \notin FlatArrays
      BY DEF Settling
    <3> QED BY <3>1, <3>2, <3>3
  <2>5. \A b \in o : b[1] = a /\ b[2] = m.cnt[a] + 1
    BY <2>3
  <2> QED BY <1>11, <2>2, <2>4, <2>5 DEF NewBlocks
<1>14. Sound(u)
  BY <1>1, <1>2, <1>3, <1>7, <1>9, <1>10, <1>13, ExtendedSound
<1>15. ReadyOK(w, NoLocals)
  BY <1>1, <1>3, <1>7, ExtendedReady
<1>16. u = d
  BY <1>2, <1>4
<1> QED BY <1>6, <1>9, <1>14, <1>15, <1>16

LabelOf(st) == Block("exports", st.m.cnt["exports"] + 1, "name")

\* p is a state of a call that has made room in array a and named the export.
Labelled(p, c, a, i, label) ==
    /\ Sound(p) /\ Steady(p.m) /\ p.m.cnt = c /\ p.loc.held = {label} /\ SameArrays(p.loc, NoLocals)
    /\ HasRoom(p.m, a) /\ i \in Nat /\ i # 0 /\ FreshEntry(p, a, i)

LEMMA RoomLabelled ==
    ASSUME NEW st, Sound(st), Steady(st.m), Bare(st), NEW a \in HostKinds, NEW i, IsNextOf(i, st.m, a),
           NEW label, label = LabelOf(st), NEW r, r = RoomFor(st, a, i) ++ ForLocal(label)
    PROVE  SteadyRun(r, st.m.cnt) /\ Labelled(r.now, st.m.cnt, a, i, label)
<1>1. PICK q, c : q = RoomFor(st, a, i) /\ c = st.m.cnt
  OBVIOUS
<1>2. /\ SteadyRun(q, st.m.cnt) /\ q.now.loc = NoLocals /\ HasRoom(q.now.m, a) /\ q.now.m.cnt = st.m.cnt
      /\ i \in Nat /\ i # 0 /\ FreshEntry(q.now, a, i) /\ FreshEntry(q.now, "exports", st.m.cnt["exports"] + 1)
  <2>1. st.loc = NoLocals /\ q = RoomFor(st, a, i)
    BY <1>1 DEF Bare
  <2> QED BY <2>1, RoomMade
<1>3. PICK b : b = label
  OBVIOUS
<1>4. b \notin q.now.h.live /\ b[1] = "exports"
  BY <1>2, <1>3, BlockFacts DEF FreshEntry, LabelOf
<1>5. PICK z : z = q ++ ForLocal(b)
  OBVIOUS
<1>6. SteadyRun(q, c)
  BY <1>1, <1>2
<1>7. /\ SteadyRun(z, c) /\ z.now.m = q.now.m /\ z.now.loc.held = q.now.loc.held \cup {b}
      /\ SameArrays(z.now.loc, q.now.loc) /\ HeapMore(z.now.h, q.now.h, b)
  BY <1>4, <1>5, <1>6, SteadyLocal
<1>8. z = r
  BY <1>1, <1>3, <1>5
<1>9. PICK p : p = z.now
  OBVIOUS
<1>10. Sound(p) /\ Steady(p.m) /\ p.m.cnt = c
  BY <1>7, <1>9, SteadyNow
<1>11. p.loc.held = {b} /\ SameArrays(p.loc, NoLocals) /\ HasRoom(p.m, a)
  BY <1>2, <1>7, <1>9, NoLocalsFacts
<1>12. FreshEntry(p, a, i)
  <2>1. SUFFICES ASSUME NEW f PROVE Block(a, i, f) \notin p.h.live
    BY DEF FreshEntry
  <2>2. PICK v : v = Block(a, i, f)
    OBVIOUS
  <2>3. v \notin q.now.h.live /\ v[1] = a /\ a # "exports"
    BY <1>2, <2>2, BlockFacts, HostKindFacts DEF FreshEntry
  <2>4. v # b
    BY <1>4, <2>3
  <2> QED BY <1>7, <1>9, <2>2, <2>3, <2>4 DEF HeapMore
<1>13. Labelled(p, c, a, i, b)
  BY <1>2, <1>10, <1>11, <1>12 DEF Labelled
<1> QED BY <1>1, <1>3, <1>7, <1>8, <1>9, <1>13

\* A call whose stops keep the module, and that ends in the state d.
Calls(r, d) == (\A t \in r.past : Sound(t) /\ Steady(t.m)) /\ Sound(d) /\ ReadyOK(d.m, d.loc)

LEMMA SteadyPast ==
    ASSUME NEW r, NEW c, SteadyRun(r, c)
    PROVE  \A t \in r.past : Sound(t) /\ Steady(t.m)
BY DEF SteadyRun, Stops

MemoryDone(p, i, e, x, label) == AppendCount(Write(Unheld(p), "memories", i, {}, e), "memories", i, x, {label})

LEMMA MemoryCalls ==
    ASSUME NEW st, Sound(st), Steady(st.m), Bare(st), NEW i, IsNextOf(i, st.m, "memories"),
           NEW label, label = LabelOf(st), NEW r, r = RoomFor(st, "memories", i) ++ ForLocal(label),
           NEW e, NEW x, x.kind # "func", NEW d, d = MemoryDone(r.now, i, e, x, label)
    PROVE  Calls(r, d)
<1>1. PICK a, c, p, o : a = "memories" /\ c = st.m.cnt /\ p = r.now /\ o = {}
  OBVIOUS
<1>2. a \in HostKinds /\ IsNextOf(i, st.m, a) /\ r = RoomFor(st, a, i) ++ ForLocal(label)
  BY <1>1 DEF HostKinds
<1>3. SteadyRun(r, c) /\ Labelled(p, c, a, i, label)
  <2>1. SteadyRun(r, st.m.cnt) /\ Labelled(r.now, st.m.cnt, a, i, label)
    BY <1>2, RoomLabelled
  <2> QED BY <1>1, <2>1
<1>4. PICK u, s : u = Unheld(p) /\ s = Write(u, a, i, o, e)
  OBVIOUS
<1>5. Sound(p) /\ Steady(p.m) /\ p.m.cnt = c /\ p.loc.held = {label} /\ SameArrays(p.loc, NoLocals) /\ HasRoom(p.m, a)
  BY <1>3 DEF Labelled
<1>6. IsState(u) /\ u.m = p.m /\ u.loc = NoLocals /\ u.h = p.h /\ u.h.bad = FALSE
  BY <1>4, <1>5, UnheldFields
<1>7. IsNextOf(i, p.m, a)
  BY <1>1, <1>2, <1>5 DEF IsNextOf
<1>8. i \in 1..u.m.cap[a] /\ a \in Arrays
  <2>1. IsModule(p.m)
    BY <1>5 DEF Sound, IsState
  <2>2. p.m.cnt[a] + 1 <= p.m.cap[a] /\ p.m.cnt[a] \in Nat /\ p.m.cap[a] \in Nat /\ a \in Arrays
    BY <1>2, <1>5, <2>1, RoomFacts
  <2>3. i = p.m.cnt[a] + 1
    BY <1>7 DEF IsNextOf
  <2> QED BY <1>6, <2>2, <2>3
<1>9. Written(s.m, u.m, a, i, o, e) /\ IsState(s) /\ s.loc = u.loc /\ s.h = u.h
  <2>1. s = Write(u, a, i, o, e)
    BY <1>4
  <2> QED BY <1>6, <1>8, <2>1, WriteFields
<1>10. Entering(s, p.m, a, i, o, e) /\ s.loc = NoLocals
  BY <1>6, <1>9 DEF Entering
<1>11. label[1] = "exports" /\ label[2] = p.m.cnt["exports"] + 1
  <2>1. st.m.cnt["exports"] = p.m.cnt["exports"]
    BY <1>1, <1>5
  <2>2. label = Block("exports", st.m.cnt["exports"] + 1, "name")
    BY DEF LabelOf
  <2> QED BY <2>1, <2>2, BlockFacts
<1>12. \A b : b \in s.h.live <=> (b \in p.h.live \/ b \in o)
  BY <1>1, <1>6, <1>9
<1>13. (\A b \in o : b[1] = a /\ b[2] = i) /\ (a \in FlatArrays => o = {})
  BY <1>1
<1>14. Settling(p, s, a, i, o, e, label)
  BY <1>2, <1>5, <1>7, <1>10, <1>11, <1>12, <1>13 DEF Settling
<1>15. PICK z : z = AppendCount(s, a, i, x, {label})
  OBVIOUS
<1>16. Sound(z) /\ ReadyOK(z.m, z.loc)
  BY <1>14, <1>15, HostSettled
<1>17. z = d
  BY <1>1, <1>4, <1>15 DEF MemoryDone
<1> QED BY <1>3, <1>16, <1>17, SteadyPast DEF Calls

LEMMA UnheldState ==
    ASSUME NEW p, IsState(p), NEW u, u = Unheld(p)
    PROVE  IsState(u) /\ u.m = p.m /\ u.loc = NoLocals /\ u.h = p.h
<1>1. p = [m |-> p.m, loc |-> p.loc, h |-> p.h] /\ p.h = [live |-> p.h.live, bad |-> p.h.bad] /\ IsModule(p.m)
  BY DEF IsState
<1>2. u = [m |-> p.m, loc |-> NoLocals, h |-> p.h]
  BY <1>1 DEF Unheld
<1>3. u.m = p.m /\ u.loc = NoLocals /\ u.h = p.h
  BY <1>2
<1> QED BY <1>1, <1>2, <1>3, NoLocalsFacts DEF IsState

LEMMA SteadyLike ==
    ASSUME NEW m, Steady(m), NEW m2, Like(m2, m)
    PROVE  Steady(m2)
<1>1. Fit(m2)
  BY FitLike DEF Steady
<1>2. m2.cnt["exports"] = m.cnt["exports"] /\ m2.ent["exports"] = m.ent["exports"] /\ Functions(m2) = Functions(m)
  BY OtherArraysFacts, TypeFieldsFacts DEF Like, Functions
<1>3. m2.cap["exports"] = m.cap["exports"] /\ m2.cap["export_order"] = m.cap["export_order"]
  BY TypeFieldsFacts DEF Like
<1> QED BY <1>1, <1>2, <1>3 DEF Steady, OrderFits, ExportsBelow

\* The slot of the new global is cleared; it is not counted yet.
\* Global i is the next of c, and q has zeroed its entry.
NextGlobal(r, c, i, label) ==
    SteadyRun(r, c) /\ Labelled(r.now, c, "globals", i, label) /\ i = c["globals"] + 1

BeginsGlobal(q, r, i, e) == q = r ++ Begin("globals", i, e, 0)

LEMMA SteadyBegin ==
    ASSUME NEW r, NEW c, NEW i, NEW label, NextGlobal(r, c, i, label), NEW e, NEW q, BeginsGlobal(q, r, i, e)
    PROVE  /\ SteadyRun(q, c) /\ Labelled(q.now, c, "globals", i, label)
           /\ q.now.m.own["globals"][i] = {} /\ q.now.m.ent["globals"][i] = e
<1>0. /\ SteadyRun(r, c) /\ Labelled(r.now, c, "globals", i, label) /\ i = c["globals"] + 1
      /\ q = r ++ Begin("globals", i, e, 0)
  BY DEF NextGlobal, BeginsGlobal
<1>1. PICK p, a, z, u : p = r.now /\ a = "globals" /\ z = 0 /\ u = q.now
  OBVIOUS
<1>2. /\ Sound(p) /\ Steady(p.m) /\ p.m.cnt = c /\ p.loc.held = {label} /\ SameArrays(p.loc, NoLocals)
      /\ HasRoom(p.m, a) /\ i \in Nat /\ i # 0 /\ FreshEntry(p, a, i)
  BY <1>0, <1>1 DEF Labelled
<1>3. IsState(p) /\ IsModule(p.m) /\ a \in HostKinds
  BY <1>1, <1>2 DEF Sound, IsState, HostKinds
<1>4. /\ a \in Arrays /\ p.m.cnt[a] \in Nat /\ p.m.cap[a] \in Nat /\ p.m.cnt[a] + 1 <= p.m.cap[a]
  BY <1>2, <1>3, RoomFacts
<1>5. i \in 1..p.m.cap[a] /\ i > p.m.cnt[a]
  <2>1. i = p.m.cnt[a] + 1
    BY <1>0, <1>1, <1>2
  <2> QED BY <1>4, <2>1
<1>6. Freed(p.m, a) = p.m.cnt[a] /\ a \notin ImportArrays /\ a # "functions" /\ a # "exports"
  BY <1>1, <1>4, HostArraysFacts, FreedFacts, HostKindFacts, <1>3 DEF HostArrays
<1>7. CanBegin(p.m, a, i, z)
  BY <1>1, <1>4, <1>5, <1>6 DEF CanBegin
<1>8. u = Step(p, Begin(a, i, e, z)) /\ Stops(q) = Stops(r) \cup {u}
  BY <1>0, <1>1, RunFacts
<1>9. u = Step(p, Begin(a, i, e, z)) /\ z \in {0, 1}
  BY <1>1, <1>8
<1>10. Sound(u)
  BY <1>2, <1>7, <1>9, BeginSound
<1>11. /\ IsState(u) /\ u.loc = p.loc /\ u.h = p.h /\ u.m.cnt = Bump(p.m.cnt, a, z)
       /\ u.m.ptr = p.m.ptr /\ u.m.cap = p.m.cap
       /\ u.m.own = Put(p.m.own, a, Put(p.m.own[a], i, {}))
       /\ u.m.ent = Put(p.m.ent, a, Put(p.m.ent[a], i, e)) /\ SameRest(u.m, p.m)
  BY <1>3, <1>4, <1>5, <1>9, BeginFields
<1>12. u.m.cnt = p.m.cnt
  <2>1. p.m.cnt \in [Arrays -> Nat]
    BY <1>3 DEF IsModule, Laid
  <2> QED BY <1>1, <1>4, <1>11, <2>1 DEF Bump
<1>13. /\ a \in DOMAIN p.m.own /\ DOMAIN p.m.own[a] = 1..p.m.cap[a] /\ DOMAIN p.m.ent = Arrays
       /\ a \in DOMAIN p.m.ent /\ DOMAIN p.m.ent[a] = 1..p.m.cap[a]
  BY <1>3, <1>4 DEF IsModule, Laid
<1>14. u.m.own[a][i] = {}
  BY <1>5, <1>11, <1>13 DEF Put
<1>15. u.m.ent[a][i] = e
  BY <1>5, <1>11, <1>13 DEF Put
<1>16. u.m.ent["exports"] = p.m.ent["exports"]
  BY <1>6, <1>11, <1>13, TypeFieldsFacts DEF Put
<1>17. Like(u.m, p.m)
  BY <1>11, <1>12, <1>16 DEF Like, SameRest
<1>18. Steady(u.m)
  BY <1>2, <1>17, SteadyLike
<1>19. HasRoom(u.m, a) /\ FreshEntry(u, a, i) /\ u.m.cnt = c
  BY <1>2, <1>11, <1>12 DEF HasRoom, FreshEntry
<1>20. Labelled(u, c, a, i, label)
  BY <1>2, <1>10, <1>11, <1>18, <1>19 DEF Labelled
<1>21. SteadyRun(q, c)
  BY <1>0, <1>8, <1>10, <1>18, <1>19 DEF SteadyRun
<1> QED BY <1>1, <1>14, <1>15, <1>20, <1>21

LEMMA GivenWritten ==
    ASSUME NEW p, IsState(p), NEW a \in Arrays, NEW i \in 1..p.m.cap[a], NEW e, p.m.own[a][i] = {}, p.m.ent[a][i] = e,
           NEW b, b[1] = a, b[2] = i, NEW s, s = Step(p, ForEntry(b))
    PROVE  Written(s.m, p.m, a, i, {b}, e) /\ IsState(s) /\ HeapMore(s.h, p.h, b)
<1>1. /\ IsState(s) /\ s.loc = p.loc /\ HeapMore(s.h, p.h, b)
      /\ s.m.cnt = p.m.cnt /\ s.m.ptr = p.m.ptr /\ s.m.cap = p.m.cap
      /\ s.m.own = Given(p.m.own, b) /\ s.m.ent = p.m.ent /\ SameRest(s.m, p.m)
  BY EntryFields
<1>2. DOMAIN p.m.own = Arrays /\ DOMAIN p.m.own[a] = 1..p.m.cap[a] /\ IsModule(s.m)
  BY <1>1 DEF IsState, IsModule, Laid
<1>3. PICK o : o = p.m.own[a][i] \cup {b}
  OBVIOUS
<1>4. s.m.own = Put(p.m.own, a, Put(p.m.own[a], i, o))
  BY <1>1, <1>3 DEF Given
<1>5. \A d \in Arrays : d # a => s.m.own[d] = p.m.own[d]
  BY <1>2, <1>4 DEF Put
<1>6. s.m.own[a] = Put(p.m.own[a], i, o)
  BY <1>2, <1>4 DEF Put
<1>7. s.m.own[a][i] = o /\ \A j \in 1..p.m.cap[a] : j # i => s.m.own[a][j] = p.m.own[a][j]
  BY <1>2, <1>6 DEF Put
<1>8. o = {b}
  BY <1>3
<1> QED BY <1>1, <1>2, <1>5, <1>7, <1>8 DEF Written

GlobalCall(st, i, e, label, b) == RoomFor(st, "globals", i) ++ ForLocal(label) ++ Begin("globals", i, e, 0) ++ ForEntry(b)

LEMMA GlobalCalls ==
    ASSUME NEW st, Sound(st), Steady(st.m), Bare(st), NEW i, IsNextOf(i, st.m, "globals"),
           NEW label, label = LabelOf(st), NEW b, b[1] = "globals", b[2] = i, NEW f, b = Block("globals", i, f), NEW e,
           NEW r, r = GlobalCall(st, i, e, label, b),
           NEW x, x.kind # "func", NEW d, d = AppendCount(Unheld(r.now), "globals", i, x, {label})
    PROVE  Calls(r, d)
<1>1. PICK a, c : a = "globals" /\ c = st.m.cnt
  OBVIOUS
<1>2. PICK r0 : r0 = RoomFor(st, a, i) ++ ForLocal(label)
  OBVIOUS
<1>3. a \in HostKinds /\ IsNextOf(i, st.m, a)
  BY <1>1 DEF HostKinds
<1>4. SteadyRun(r0, c) /\ Labelled(r0.now, c, a, i, label)
  <2>1. SteadyRun(r0, st.m.cnt) /\ Labelled(r0.now, st.m.cnt, a, i, label)
    BY <1>2, <1>3, RoomLabelled
  <2> QED BY <1>1, <2>1
<1>5. PICK r1 : r1 = r0 ++ Begin("globals", i, e, 0)
  OBVIOUS
<1>6. /\ SteadyRun(r1, c) /\ Labelled(r1.now, c, a, i, label)
      /\ r1.now.m.own[a][i] = {} /\ r1.now.m.ent[a][i] = e
  <2>1. Labelled(r0.now, c, "globals", i, label) /\ i = c["globals"] + 1
    BY <1>1, <1>3, <1>4 DEF IsNextOf
  <2>2. /\ SteadyRun(r1, c) /\ Labelled(r1.now, c, "globals", i, label)
        /\ r1.now.m.own["globals"][i] = {} /\ r1.now.m.ent["globals"][i] = e
    <3>1. NextGlobal(r0, c, i, label) /\ BeginsGlobal(r1, r0, i, e)
      BY <1>4, <1>5, <2>1 DEF NextGlobal, BeginsGlobal
    <3> QED BY <3>1, SteadyBegin
  <2> QED BY <1>1, <2>2
<1>7. PICK p, s0, k : p = r1.now /\ s0 = Step(p, ForEntry(k)) /\ k = b
  OBVIOUS
<1>8. r = r1 ++ ForEntry(b)
  BY <1>1, <1>2, <1>5 DEF GlobalCall
<1>9. r.now = s0 /\ r.past = Stops(r1)
  BY <1>7, <1>8, RunFacts
<1>10. /\ Sound(p) /\ Steady(p.m) /\ p.m.cnt = c /\ p.loc.held = {label} /\ SameArrays(p.loc, NoLocals)
       /\ HasRoom(p.m, a) /\ i \in Nat /\ i # 0 /\ FreshEntry(p, a, i)
  BY <1>6, <1>7 DEF Labelled
<1>11. IsState(p) /\ IsModule(p.m) /\ p.h.bad = FALSE
  BY <1>10 DEF Sound, IsState
<1>12. IsNextOf(i, p.m, a)
  BY <1>1, <1>3, <1>10 DEF IsNextOf
<1>13. i \in 1..p.m.cap[a] /\ a \in Arrays
  <2>1. p.m.cnt[a] + 1 <= p.m.cap[a] /\ p.m.cnt[a] \in Nat /\ p.m.cap[a] \in Nat /\ a \in Arrays
    BY <1>3, <1>10, <1>11, RoomFacts
  <2>2. i = p.m.cnt[a] + 1
    BY <1>12 DEF IsNextOf
  <2> QED BY <2>1, <2>2
<1>14. k[1] = a /\ k[2] = i
  BY <1>1, <1>7
<1>15. Written(s0.m, p.m, a, i, {k}, e) /\ IsState(s0) /\ HeapMore(s0.h, p.h, k)
  <2>1. p.m.own[a][i] = {} /\ p.m.ent[a][i] = e
    BY <1>6, <1>7
  <2>2. s0 = Step(p, ForEntry(k))
    BY <1>7
  <2> QED BY <1>11, <1>13, <1>14, <2>1, <2>2, GivenWritten
<1>16. PICK s, o : s = Unheld(s0) /\ o = {k}
  OBVIOUS
<1>17. IsState(s) /\ s.m = s0.m /\ s.loc = NoLocals /\ s.h = s0.h
  BY <1>15, <1>16, UnheldState
<1>18. s.h.bad = FALSE /\ \A v : v \in s.h.live <=> (v \in p.h.live \/ v \in o)
  BY <1>11, <1>15, <1>16, <1>17 DEF HeapMore
<1>19. Entering(s, p.m, a, i, o, e)
  BY <1>15, <1>16, <1>17, <1>18 DEF Entering
<1>20. label[1] = "exports" /\ label[2] = p.m.cnt["exports"] + 1
  BY <1>1, <1>10, BlockFacts DEF LabelOf
<1>21. (\A v \in o : v[1] = a /\ v[2] = i) /\ a \notin FlatArrays
  BY <1>1, <1>14, <1>16, HostArraysFacts
<1>22. Settling(p, s, a, i, o, e, label)
  BY <1>3, <1>10, <1>12, <1>17, <1>18, <1>19, <1>20, <1>21 DEF Settling
<1>23. PICK z : z = AppendCount(s, a, i, x, {label})
  OBVIOUS
<1>24. Sound(z) /\ ReadyOK(z.m, z.loc)
  BY <1>22, <1>23, HostSettled
<1>25. z = d
  BY <1>1, <1>9, <1>16, <1>23
<1>26. \A t \in r.past : Sound(t) /\ Steady(t.m)
  BY <1>6, <1>9 DEF SteadyRun
<1> QED BY <1>24, <1>25, <1>26 DEF Calls

\* The blocks of a host function.
FunctionParts(i) == {Block("functions", i, "name"), Block("functions", i, "param_types"),
                     Block("functions", i, "result_types"), Block("functions", i, "userdata")}

FunctionCall(st, i) ==
    RoomFor(st, "functions", i) ++ ForLocal(Block("functions", i, "name")) ++ ForLocal(Block("functions", i, "param_types"))
    ++ ForLocal(Block("functions", i, "result_types"))

\* p is a state of a call that has allocated the parts F of a function, and none of the others.
Parted(p, m, i, F) ==
    /\ Sound(p) /\ Steady(p.m) /\ p.m = m /\ SameArrays(p.loc, NoLocals) /\ p.loc.held = F
    /\ \A f : Block("functions", i, f) \notin F => Block("functions", i, f) \notin p.h.live

LEMMA PartedMore ==
    ASSUME NEW r, NEW c, SteadyRun(r, c), NEW m, NEW i, NEW F, Parted(r.now, m, i, F), NEW f, NEW b, b = Block("functions", i, f), b \notin F,
           NEW q, q = r ++ ForLocal(b)
    PROVE  SteadyRun(q, c) /\ Parted(q.now, m, i, F \cup {b})
<1>1. PICK p, u : p = r.now /\ u = q.now
  OBVIOUS
<1>2. /\ Sound(p) /\ Steady(p.m) /\ p.m = m /\ SameArrays(p.loc, NoLocals) /\ p.loc.held = F
      /\ \A g : Block("functions", i, g) \notin F => Block("functions", i, g) \notin p.h.live
  BY <1>1 DEF Parted
<1>3. b \notin r.now.h.live
  BY <1>1, <1>2
<1>4. /\ SteadyRun(q, c) /\ q.now.m = r.now.m /\ q.now.loc.held = r.now.loc.held \cup {b}
      /\ SameArrays(q.now.loc, r.now.loc) /\ HeapMore(q.now.h, r.now.h, b)
  BY <1>3, SteadyLocal
<1>5. Sound(u) /\ Steady(u.m)
  BY <1>1, <1>4, SteadyNow
<1>6. u.m = m /\ u.loc.held = F \cup {b} /\ u.h.live = p.h.live \cup {b}
  BY <1>1, <1>2, <1>4 DEF HeapMore
<1>7. SameArrays(u.loc, NoLocals)
  BY <1>1, <1>2, <1>4 DEF SameArrays
<1>8. \A g : Block("functions", i, g) \notin F \cup {b} => Block("functions", i, g) \notin u.h.live
  BY <1>2, <1>6
<1> QED BY <1>1, <1>4, <1>5, <1>6, <1>7, <1>8 DEF Parted

HostEntry == [k |-> "host"]

FunctionDone(p, i, x) ==
    AppendExport(CountAlloc(Write(Unheld(p), "functions", i, FunctionParts(i), HostEntry), i, Block("functions", i, "userdata")),
                 x, {Block("functions", i, "name")})

LEMMA FunctionParted ==
    ASSUME NEW st, Sound(st), Steady(st.m), Bare(st), NEW i, IsNextOf(i, st.m, "functions"), NEW r, r = FunctionCall(st, i),
           NEW b1, NEW b2, NEW b3, b1 = Block("functions", i, "name"), b2 = Block("functions", i, "param_types"),
           b3 = Block("functions", i, "result_types")
    PROVE  /\ SteadyRun(r, st.m.cnt) /\ Parted(r.now, r.now.m, i, {b1, b2, b3}) /\ HasRoom(r.now.m, "functions")
           /\ r.now.m.cnt = st.m.cnt /\ i \in Nat /\ i # 0
<1>1. PICK q, c, m, a : q = RoomFor(st, a, i) /\ c = st.m.cnt /\ m = q.now.m /\ a = "functions"
  OBVIOUS
<1>2. a \in HostKinds /\ IsNextOf(i, st.m, a) /\ st.loc = NoLocals /\ q = RoomFor(st, a, i)
  BY <1>1 DEF HostKinds, Bare
<1>3. /\ SteadyRun(q, st.m.cnt) /\ q.now.loc = NoLocals /\ HasRoom(q.now.m, a) /\ q.now.m.cnt = st.m.cnt
      /\ i \in Nat /\ i # 0 /\ FreshEntry(q.now, a, i)
  BY <1>2, RoomMade
<1>4. SteadyRun(q, c)
  BY <1>1, <1>3
<1>5. PICK F0, F1, F2 : F0 = {} /\ F1 = F0 \cup {b1} /\ F2 = F1 \cup {b2}
  OBVIOUS
<1>6. Parted(q.now, m, i, F0)
  <2>1. PICK p : p = q.now
    OBVIOUS
  <2>2. Sound(p) /\ Steady(p.m)
    BY <1>4, <2>1, SteadyNow
  <2>3. SameArrays(p.loc, NoLocals) /\ p.loc.held = F0 /\ p.m = m
    BY <1>1, <1>3, <1>5, <2>1, NoLocalsFacts DEF SameArrays
  <2>4. \A f : Block("functions", i, f) \notin p.h.live
    BY <1>1, <1>3, <2>1 DEF FreshEntry
  <2> QED BY <2>1, <2>2, <2>3, <2>4 DEF Parted
<1>7. b1 # b2 /\ b1 # b3 /\ b2 # b3
  BY BlockFacts
<1>8. b1 \notin F0 /\ b2 \notin F1 /\ b3 \notin F2
  BY <1>5, <1>7
<1>9. PICK n1, n2, n3, k1, k2, k3 : /\ n1 = "name" /\ n2 = "param_types" /\ n3 = "result_types"
                                    /\ k1 = Block("functions", i, n1) /\ k2 = Block("functions", i, n2) /\ k3 = Block("functions", i, n3)
  OBVIOUS
<1>10. k1 \notin F0 /\ k2 \notin F1 /\ k3 \notin F2 /\ k1 = b1 /\ k2 = b2 /\ k3 = b3
  BY <1>8, <1>9
<1>11. k1 = Block("functions", i, n1) /\ k2 = Block("functions", i, n2) /\ k3 = Block("functions", i, n3)
  BY <1>9
<1>12. PICK r1 : r1 = q ++ ForLocal(k1)
  OBVIOUS
<1>13. PICK r2 : r2 = r1 ++ ForLocal(k2)
  OBVIOUS
<1>14. PICK r3 : r3 = r2 ++ ForLocal(k3)
  OBVIOUS
<1>15. SteadyRun(r1, c) /\ Parted(r1.now, m, i, F0 \cup {k1})
  <2>1. k1 \notin F0
    BY <1>10
  <2> QED BY <1>4, <1>6, <1>11, <1>12, <2>1, PartedMore
<1>16. SteadyRun(r2, c) /\ Parted(r2.now, m, i, F1 \cup {k2})
  <2>1. Parted(r1.now, m, i, F1)
    BY <1>5, <1>10, <1>15
  <2>2. k2 \notin F1
    BY <1>10
  <2> QED BY <1>11, <1>13, <1>15, <2>1, <2>2, PartedMore
<1>17. SteadyRun(r3, c) /\ Parted(r3.now, m, i, F2 \cup {k3})
  <2>1. Parted(r2.now, m, i, F2)
    BY <1>5, <1>10, <1>16
  <2>2. k3 \notin F2
    BY <1>10
  <2> QED BY <1>11, <1>14, <1>16, <2>1, <2>2, PartedMore
<1>18. F2 \cup {k3} = {b1, b2, b3}
  BY <1>5, <1>10
<1>19. r3 = r
  BY <1>1, <1>10, <1>12, <1>13, <1>14 DEF FunctionCall
<1>20. Parted(r.now, m, i, {b1, b2, b3}) /\ r.now.m = m
  BY <1>17, <1>18, <1>19 DEF Parted
<1> QED BY <1>1, <1>3, <1>17, <1>19, <1>20

\* The export of a host function names it.
LEMMA NewHost ==
    ASSUME NEW m, IsModule(m), NEW a, a = "functions", HasRoom(m, a), NEW i, IsNextOf(i, m, a), NEW o, NEW ox, NEW x,
           x.k = "export", x.kind = "func", x.i = m.cnt["func_imports"] + i - 1,
           NEW w, Extended(w, m, a, o, HostEntry, ox, x)
    PROVE  /\ Host(w, m.cnt["exports"] + 1) /\ x.i \in Nat /\ x.i < Functions(w)
<1>1. a \in HostKinds
  BY DEF HostKinds
<1>2. /\ w.ptr = m.ptr /\ w.cnt[a] = m.cnt[a] + 1 /\ (\A d \in Arrays : (d # a /\ d # "exports") => w.cnt[d] = m.cnt[d])
      /\ w.ent[a][m.cnt[a] + 1] = HostEntry /\ w.ent["exports"][m.cnt["exports"] + 1] = x
  BY DEF Extended
<1>3. m.cnt[a] \in Nat /\ m.ptr[a] # {} /\ i = m.cnt[a] + 1
  BY <1>1, RoomFacts DEF IsNextOf
<1>4. m.cnt["func_imports"] \in Nat /\ w.cnt["func_imports"] = m.cnt["func_imports"]
  BY <1>2, OtherArraysFacts DEF IsModule, Laid
<1>5. PICK j, f : j = m.cnt[a] /\ f = m.cnt["func_imports"]
  OBVIOUS
<1>6. j \in Nat /\ f \in Nat /\ w.cnt["functions"] = j + 1 /\ w.cnt["func_imports"] = f /\ w.ptr["functions"] # {} /\ x.i = f + (j + 1) - 1
  BY <1>2, <1>3, <1>4, <1>5
<1>7. j \in 0..w.cnt["functions"] - 1 /\ x.i = f + j
  BY <1>6
<1>8. Entry(w, "functions", j).k = "host"
  BY <1>2, <1>5 DEF Entry, HostEntry
<1>9. IsHostExport(w, x)
  BY <1>6, <1>7, <1>8 DEF IsHostExport
<1>10. Host(w, m.cnt["exports"] + 1)
  BY <1>2, <1>9 DEF Host
<1>11. Functions(w) = f + (j + 1)
  BY <1>6 DEF Functions
<1> QED BY <1>6, <1>7, <1>10, <1>11

IsFuncExport(x, m, i) == x.k = "export" /\ x.kind = "func" /\ x.i = m.cnt["func_imports"] + i - 1

LEMMA FunctionCalls ==
    ASSUME NEW st, Sound(st), Steady(st.m), Bare(st), NEW i, IsNextOf(i, st.m, "functions"),
           NEW r, r = FunctionCall(st, i), NEW x, IsFuncExport(x, st.m, i), NEW d, d = FunctionDone(r.now, i, x)
    PROVE  Calls(r, d)
<1>1. PICK b1, b2, b3, b4 : /\ b1 = Block("functions", i, "name") /\ b2 = Block("functions", i, "param_types")
                            /\ b3 = Block("functions", i, "result_types") /\ b4 = Block("functions", i, "userdata")
  OBVIOUS
<1>2. PICK p, m, N, a : p = r.now /\ m = p.m /\ N = FunctionParts(i) /\ a = "functions"
  OBVIOUS
<1>3. /\ SteadyRun(r, st.m.cnt) /\ Parted(p, m, i, {b1, b2, b3}) /\ HasRoom(m, a)
      /\ m.cnt = st.m.cnt /\ i \in Nat /\ i # 0
  <2>1. /\ SteadyRun(r, st.m.cnt) /\ Parted(r.now, r.now.m, i, {b1, b2, b3}) /\ HasRoom(r.now.m, "functions")
        /\ r.now.m.cnt = st.m.cnt /\ i \in Nat /\ i # 0
    BY <1>1, FunctionParted
  <2> QED BY <1>2, <2>1
<1>4. Sound(p) /\ Steady(m) /\ SameArrays(p.loc, NoLocals) /\ p.loc.held = {b1, b2, b3}
  BY <1>2, <1>3 DEF Parted
<1>5. IsModule(m) /\ OrderFits(m) /\ IsNextOf(i, m, a) /\ a \in HostKinds
  <2>1. IsModule(m)
    BY <1>2, <1>4 DEF Sound, IsState
  <2>2. IsNextOf(i, m, a)
    BY <1>2, <1>3 DEF IsNextOf
  <2> QED BY <1>2, <1>4, <2>1, <2>2 DEF Steady, HostKinds
<1>6. PICK u, s : u = Unheld(p) /\ s = Write(u, a, i, N, HostEntry)
  OBVIOUS
<1>7. IsState(u) /\ u.m = m /\ u.loc = NoLocals /\ u.h = p.h /\ u.h.bad = FALSE
  BY <1>2, <1>4, <1>6, UnheldFields
<1>8. i \in 1..u.m.cap[a] /\ a \in Arrays
  <2>1. m.cnt[a] + 1 <= m.cap[a] /\ m.cnt[a] \in Nat /\ m.cap[a] \in Nat /\ a \in Arrays
    BY <1>3, <1>5, RoomFacts
  <2>2. i = m.cnt[a] + 1
    BY <1>5 DEF IsNextOf
  <2> QED BY <1>7, <2>1, <2>2
<1>9. PICK e : e = HostEntry
  OBVIOUS
<1>10. Written(s.m, u.m, a, i, N, e) /\ IsState(s) /\ s.loc = u.loc /\ s.h = u.h
  <2>1. s = Write(u, a, i, N, e)
    BY <1>6, <1>9
  <2> QED BY <1>7, <1>8, <2>1, WriteFields
<1>11. Entering(s, m, "functions", i, N, e) /\ s.loc = NoLocals
  BY <1>2, <1>7, <1>10 DEF Entering
<1>12. PICK b, ox, z : b = b4 /\ ox = {b1} /\ z = AppendExport(CountAlloc(s, i, b), x, ox)
  OBVIOUS
<1>13. HasRoom(m, "functions") /\ IsNextOf(i, m, "functions") /\ z = AppendExport(CountAlloc(s, i, b), x, ox)
  BY <1>2, <1>3, <1>5, <1>12
<1>14. /\ Extended(z.m, m, "functions", N, e, ox, x) /\ z.loc = s.loc /\ z.h.bad = FALSE
       /\ z.h = [live |-> z.h.live, bad |-> z.h.bad] /\ (\A c : c \in z.h.live <=> (c \in s.h.live \/ c = b))
       /\ z = [m |-> z.m, loc |-> z.loc, h |-> z.h]
  <2>1. IsModule(m) /\ OrderFits(m) /\ Entering(s, m, "functions", i, N, e)
    BY <1>5, <1>11
  <2>2. FunctionAppended(z, s, m, N, e, ox, x, b)
    BY <1>13, <2>1, CountAppendFields
  <2> QED BY <2>2 DEF FunctionAppended
<1>15. PICK w, h2 : w = z.m /\ h2 = z.h
  OBVIOUS
<1>16. Extended(w, m, a, N, e, ox, x)
  BY <1>2, <1>14, <1>15
<1>17. \A c : c \in N <=> (c = b1 \/ c = b2 \/ c = b3 \/ c = b4)
  BY <1>1, <1>2 DEF FunctionParts
<1>18. Settles(h2, p, N)
  <2>1. \A c : c \in h2.live <=> (c \in p.h.live \/ c = b4)
    BY <1>7, <1>10, <1>12, <1>14, <1>15
  <2>2. \A c : c \in p.loc.held <=> (c = b1 \/ c = b2 \/ c = b3)
    BY <1>4
  <2>3. b1 \in p.h.live /\ b2 \in p.h.live /\ b3 \in p.h.live
    BY <1>4, <2>2 DEF Sound
  <2>4. \A c : c \in h2.live <=> (c \in p.h.live \/ c \in N)
    BY <1>17, <2>1, <2>3
  <2>5. \A c : c \in p.loc.held => c \in N
    BY <1>17, <2>2
  <2> QED BY <1>4, <1>14, <1>15, <2>4, <2>5 DEF Settles
<1>19. PICK n : n = m.cnt["exports"] + 1
  OBVIOUS
<1>20. Host(w, n) /\ x.i \in Nat /\ x.i < Functions(w)
  <2>1. x.k = "export" /\ x.kind = "func" /\ x.i = m.cnt["func_imports"] + i - 1
    BY <1>3 DEF IsFuncExport
  <2>2. Extended(w, m, a, N, HostEntry, ox, x)
    BY <1>9, <1>16
  <2> QED BY <1>2, <1>3, <1>5, <1>19, <2>1, <2>2, NewHost
<1>21. Own(w, "exports", n) = {}
  BY <1>20 DEF Own
<1>22. NewBlocks(N, w, m, a, N)
  <2>1. \A c \in N : c[1] = a /\ c[2] = i
    BY <1>1, <1>2, <1>17, BlockFacts
  <2>2. i = m.cnt[a] + 1 /\ a \notin FlatArrays
    BY <1>2, <1>5, HostArraysFacts DEF IsNextOf
  <2> QED BY <1>19, <1>21, <2>1, <2>2 DEF NewBlocks
<1>23. z = [m |-> w, loc |-> NoLocals, h |-> h2]
  BY <1>11, <1>14, <1>15
<1>24. Sound(z)
  BY <1>2, <1>3, <1>4, <1>5, <1>16, <1>18, <1>22, <1>23, ExtendedSound
<1>25. ReadyOK(w, NoLocals)
  BY <1>3, <1>4, <1>5, <1>16, <1>20, ExtendedReady
<1>26. z = d
  BY <1>1, <1>2, <1>6, <1>12 DEF FunctionDone
<1>27. ReadyOK(z.m, z.loc)
  BY <1>11, <1>14, <1>15, <1>25
<1> QED BY <1>3, <1>24, <1>26, <1>27, SteadyPast DEF Calls

LEMMA ReadySt ==
    ASSUME IInv, phase = "ready", NEW st, st = St
    PROVE  Sound(st) /\ Steady(st.m) /\ Bare(st) /\ st.m = mod /\ IsModule(st.m) /\ Fit(st.m)
<1>1. Sound(St) /\ ReadyOK(mod, loc)
  BY DEF IInv
<1> QED BY <1>1, StFields DEF ReadyOK, Steady, Bare, Sound, IsState

LEMMA CallsIInv ==
    ASSUME IInv, NEW name, NEW r, NEW d, Extend(name, r, d), Calls(r, d)
    PROVE  IInv'
<1>1. (\A t \in r.past : Sound(t) /\ Steady(t.m)) /\ Sound(d) /\ ReadyOK(d.m, d.loc)
  BY DEF Calls
<1> QED BY <1>1, ExtendIInv

LEMMA ExportMemoryStep ==
    ASSUME IInv, NEW name, ExportMemory(name)
    PROVE  IInv'
<1>1. PICK st, i, label, e, x : /\ st = St /\ i = mod.cnt["memories"] + 1 /\ label = LabelOf(st) /\ e = Expr("memory", 0)
                                /\ x = Export(name, "memory", mod.cnt["memory_imports"] + i - 1)
  OBVIOUS
<1>2. PICK r : r = RoomFor(st, "memories", i) ++ ForLocal(label)
  OBVIOUS
<1>3. PICK d : d = MemoryDone(r.now, i, e, x, label)
  OBVIOUS
<1>4. Extend(name, r, d)
  <2>1. label = Block("exports", mod.cnt["exports"] + 1, "name")
    BY <1>1, StFields DEF LabelOf
  <2>2. r = EnsureCap(EnsureExport(Start(St)), "memories", i) ++ ForLocal(label)
    BY <1>1, <1>2 DEF RoomFor
  <2>3. d = [AppendExport(Write(Unheld(r.now), "memories", i, {}, e), x, {label}) EXCEPT !.m.cnt["memories"] = i]
    BY <1>3 DEF MemoryDone, AppendCount
  <2> QED BY <1>1, <2>1, <2>2, <2>3 DEF ExportMemory
<1>5. phase = "ready"
  BY <1>4 DEF Extend
<1>6. Sound(st) /\ Steady(st.m) /\ Bare(st) /\ st.m = mod
  BY <1>1, <1>5, ReadySt
<1>7. IsNextOf(i, st.m, "memories") /\ label = LabelOf(st) /\ x.kind # "func"
  BY <1>1, <1>6 DEF IsNextOf, Export
<1>8. Calls(r, d)
  BY <1>2, <1>3, <1>6, <1>7, MemoryCalls
<1> QED BY <1>4, <1>8, CallsIInv

LEMMA ExportGlobalStep ==
    ASSUME IInv, NEW name, ExportGlobal(name)
    PROVE  IInv'
<1>1. PICK st, i, label, e, x, f : /\ st = St /\ i = mod.cnt["globals"] + 1 /\ label = LabelOf(st)
                                   /\ e = [k |-> "global", x |-> Expr("const", 0), mut |-> TRUE] /\ f = "init_expr"
                                   /\ x = Export(name, "global", mod.cnt["global_imports"] + i - 1)
  OBVIOUS
<1>2. PICK b : b = Block("globals", i, f)
  OBVIOUS
<1>3. PICK r : r = GlobalCall(st, i, e, label, b)
  OBVIOUS
<1>4. PICK d : d = AppendCount(Unheld(r.now), "globals", i, x, {label})
  OBVIOUS
<1>5. Extend(name, r, d)
  <2>1. label = Block("exports", mod.cnt["exports"] + 1, "name") /\ b = Block("globals", i, "init_expr")
    BY <1>1, <1>2, StFields DEF LabelOf
  <2>2. r = EnsureCap(EnsureExport(Start(St)), "globals", i) ++ ForLocal(label) ++ Begin("globals", i, e, 0) ++ ForEntry(b)
    BY <1>1, <1>3 DEF GlobalCall, RoomFor
  <2>3. d = [AppendExport(Unheld(r.now), x, {label}) EXCEPT !.m.cnt["globals"] = i]
    BY <1>4 DEF AppendCount
  <2> QED BY <1>1, <2>1, <2>2, <2>3 DEF ExportGlobal
<1>6. phase = "ready"
  BY <1>5 DEF Extend
<1>7. Sound(st) /\ Steady(st.m) /\ Bare(st) /\ st.m = mod
  BY <1>1, <1>6, ReadySt
<1>8. IsNextOf(i, st.m, "globals") /\ label = LabelOf(st) /\ x.kind # "func" /\ b[1] = "globals" /\ b[2] = i
  BY <1>1, <1>2, <1>7, BlockFacts DEF IsNextOf, Export
<1>9. Calls(r, d)
  BY <1>2, <1>3, <1>4, <1>7, <1>8, GlobalCalls
<1> QED BY <1>5, <1>9, CallsIInv

LEMMA ExportFuncStep ==
    ASSUME IInv, NEW name, ExportFunc(name)
    PROVE  IInv'
<1>1. PICK st, i, x : /\ st = St /\ i = mod.cnt["functions"] + 1
                      /\ x = Export(name, "func", mod.cnt["func_imports"] + i - 1)
  OBVIOUS
<1>2. PICK r : r = FunctionCall(st, i)
  OBVIOUS
<1>3. PICK d : d = FunctionDone(r.now, i, x)
  OBVIOUS
<1>4. Extend(name, r, d)
  <2>1. r = EnsureCap(EnsureExport(Start(St)), "functions", i) ++ ForLocal(Block("functions", i, "name"))
              ++ ForLocal(Block("functions", i, "param_types")) ++ ForLocal(Block("functions", i, "result_types"))
    BY <1>1, <1>2 DEF FunctionCall, RoomFor
  <2>2. d = AppendExport(CountAlloc(Write(Unheld(r.now), "functions", i, FunctionParts(i), [k |-> "host"]), i,
                                    Block("functions", i, "userdata")), x, {Block("functions", i, "name")})
    BY <1>3 DEF FunctionDone, HostEntry
  <2> QED BY <1>1, <2>1, <2>2 DEF ExportFunc, CountAlloc, FunctionParts
<1>5. phase = "ready"
  BY <1>4 DEF Extend
<1>6. Sound(st) /\ Steady(st.m) /\ Bare(st) /\ st.m = mod
  BY <1>1, <1>5, ReadySt
<1>7. IsNextOf(i, st.m, "functions") /\ IsFuncExport(x, st.m, i)
  BY <1>1, <1>6 DEF IsNextOf, IsFuncExport, Export
<1>8. Calls(r, d)
  BY <1>2, <1>3, <1>6, <1>7, FunctionCalls
<1> QED BY <1>4, <1>8, CallsIInv

-----------------------------------------------------------------------------
(* wah_new_module                                                            *)

ZeroCounts(m) == \A a \in Arrays : m.cnt[a] = 0

\* A new module being made: nothing counted, and nothing allocated but the arrays A.
Making(t, A) ==
    /\ Sound(t) /\ Bare(t) /\ ZeroCounts(t.m) /\ t.m.types_cap = 0
    /\ \A a \in Arrays : a \notin A => t.m.ptr[a] = {} /\ t.m.cap[a] = 0

LEMMA MakingMore ==
    ASSUME NEW t, NEW A, Making(t, A), NEW a \in HostArrays, a \notin A, NEW n \in Nat, NEW u, u = Step(t, Resize(a, n))
    PROVE  Making(u, A \cup {a}) /\ Resizes(u, t, a, n)
<1>1. /\ Sound(t) /\ Bare(t) /\ ZeroCounts(t.m) /\ t.m.types_cap = 0
      /\ \A d \in Arrays : d \notin A => t.m.ptr[d] = {} /\ t.m.cap[d] = 0
  BY DEF Making
<1>2. a \in Arrays /\ a \notin ImportArrays /\ IsState(t)
  BY <1>1, HostArraysFacts DEF Sound
<1>3. Resizes(u, t, a, n)
  BY <1>2, ResizesFields
<1>4. \A d \in Arrays : Freed(t.m, d) = 0
  BY <1>1, FreedFacts, TypeFieldsFacts DEF ZeroCounts
<1>5. t.m.ptr[a] = {}
  BY <1>1, <1>2
<1>6. \A b : b \notin t.loc.held
  BY <1>1, NoLocalsFacts DEF Bare
<1>7. ArrayBlock(a) \notin t.h.live
  BY <1>1, <1>2, <1>5, <1>6, FreshArray
<1>8. Sound(u)
  <2>1. Freed(t.m, a) <= n /\ Freed(t.m, a) = 0
    BY <1>2, <1>4
  <2>2. \A j \in 1..Freed(t.m, "exports") : Host(u.m, j) <=> Host(t.m, j)
    <3>1. Freed(t.m, "exports") = 0
      BY <1>4, TypeFieldsFacts
    <3> QED BY <3>1
  <2> QED BY <1>1, <1>2, <1>7, <2>1, <2>2, ResizeSound
<1>9. Bare(u) /\ ZeroCounts(u.m) /\ u.m.types_cap = 0
  BY <1>1, <1>3 DEF Resizes, Bare, ZeroCounts
<1>10. \A d \in Arrays : d \notin A \cup {a} => u.m.ptr[d] = {} /\ u.m.cap[d] = 0
  BY <1>1, <1>3 DEF Resizes
<1> QED BY <1>3, <1>8, <1>9, <1>10 DEF Making

NewFrom(st) == Start(st) ++ Resize("functions", NewCap) ++ Resize("exports", NewCap) ++ Resize("export_order", NewCap)

LEMMA NewMade ==
    ASSUME NEW st, Making(st, {}), NEW r, r = NewFrom(st)
    PROVE  (\A t \in r.past : Sound(t) /\ Bare(t)) /\ Sound(r.now) /\ ReadyOK(r.now.m, r.now.loc)
<1>1. PICK n, f, x, o : n = NewCap /\ f = "functions" /\ x = "exports" /\ o = "export_order"
  OBVIOUS
<1>2. n \in Nat /\ f \in HostArrays /\ x \in HostArrays /\ o \in HostArrays /\ f # x /\ f # o /\ x # o
  BY <1>1, ModuleLifeAssumption DEF HostArrays
<1>3. PICK r1 : r1 = Start(st) ++ Resize(f, n)
  OBVIOUS
<1>4. PICK r2 : r2 = r1 ++ Resize(x, n)
  OBVIOUS
<1>5. r = r2 ++ Resize(o, n)
  BY <1>1, <1>3, <1>4 DEF NewFrom
<1>6. PICK t1, t2, t3 : t1 = r1.now /\ t2 = r2.now /\ t3 = r.now
  OBVIOUS
<1>7. t1 = Step(st, Resize(f, n)) /\ Stops(r1) = {st} \cup {t1}
  BY <1>3, <1>6, RunFacts, StartFacts
<1>8. t2 = Step(t1, Resize(x, n)) /\ Stops(r2) = Stops(r1) \cup {t2}
  BY <1>4, <1>6, RunFacts
<1>9. t3 = Step(t2, Resize(o, n)) /\ r.past = Stops(r2)
  BY <1>5, <1>6, RunFacts
<1>10. PICK A0, A1, A2, A3 : A0 = {} /\ A1 = A0 \cup {f} /\ A2 = A1 \cup {x} /\ A3 = A2 \cup {o}
  OBVIOUS
<1>11. f \notin A0 /\ x \notin A1 /\ o \notin A2 /\ Making(st, A0)
  BY <1>2, <1>10
<1>12. Making(t1, A1)
  <2>1. t1 = Step(st, Resize(f, n))
    BY <1>7
  <2>2. Making(t1, A0 \cup {f})
    BY <1>2, <1>11, <2>1, MakingMore
  <2> QED BY <1>10, <2>2
<1>13. Making(t2, A2) /\ Resizes(t2, t1, x, n)
  <2>1. t2 = Step(t1, Resize(x, n))
    BY <1>8
  <2>2. Making(t2, A1 \cup {x}) /\ Resizes(t2, t1, x, n)
    BY <1>2, <1>11, <1>12, <2>1, MakingMore
  <2> QED BY <1>10, <2>2
<1>14. Making(t3, A3) /\ Resizes(t3, t2, o, n)
  <2>1. t3 = Step(t2, Resize(o, n))
    BY <1>9
  <2>2. Making(t3, A2 \cup {o}) /\ Resizes(t3, t2, o, n)
    BY <1>2, <1>11, <1>13, <2>1, MakingMore
  <2> QED BY <1>10, <2>2
<1>15. \A t \in r.past : Sound(t) /\ Bare(t)
  BY <1>7, <1>8, <1>9, <1>11, <1>12, <1>13 DEF Making
<1>16. /\ Sound(t3) /\ Bare(t3) /\ ZeroCounts(t3.m) /\ t3.m.types_cap = 0
       /\ \A a \in Arrays : a \notin A3 => t3.m.ptr[a] = {} /\ t3.m.cap[a] = 0
  BY <1>14 DEF Making
<1>17. IsModule(t3.m) /\ t3.m.cap \in [Arrays -> Nat]
  BY <1>16 DEF Sound, IsState, IsModule, Laid
<1>18. \A a \in Arrays : a \in A3 => a \in HostArrays
  BY <1>2, <1>10
<1>19. Counted0(t3.m)
  <2>1. \A a \in Arrays : Freed(t3.m, a) = 0
    BY <1>16, FreedFacts, TypeFieldsFacts DEF ZeroCounts
  <2> QED BY <2>1, OtherArraysFacts DEF Counted0, Freed
<1>20. TypesFit(t3.m)
  <2>1. t3.m.cnt["types"] = 0
    BY <1>16, TypeFieldsFacts DEF ZeroCounts
  <2>2. /\ t3.m.cap["types"] \in Nat /\ t3.m.cap["type_defs"] \in Nat /\ t3.m.cap["typeidx_to_repr"] \in Nat
        /\ t3.m.cap["canonical_map"] \in Nat
    BY <1>17, TypeFieldsFacts
  <2> QED BY <1>16, <2>1, <2>2 DEF TypesFit
<1>21. ReprsFit(t3.m) /\ DeclaredFit(t3.m)
  <2>1. "repr_infos" \notin A3 /\ "declared_funcs" \notin A3
    BY <1>18, TypeFieldsFacts DEF HostArrays
  <2>2. t3.m.cap["repr_infos"] = 0 /\ t3.m.ptr["declared_funcs"] = {}
    BY <1>16, <2>1, TypeFieldsFacts
  <2> QED BY <2>2 DEF ReprsFit, DeclaredFit
<1>22. OrderFits(t3.m)
  <2>1. t3.m.cap[o] = n /\ t3.m.cap[x] = t2.m.cap[x] /\ t2.m.cap[x] = n
    BY <1>2, <1>13, <1>14, HostArraysFacts DEF Resizes
  <2>2. t3.m.cap["exports"] = n /\ t3.m.cap["export_order"] = n
    BY <1>1, <2>1
  <2> QED BY <1>2, <2>2 DEF OrderFits
<1>23. ExportsBelow(t3.m, Functions(t3.m))
  <2>1. t3.m.cnt["exports"] = 0
    BY <1>16, TypeFieldsFacts DEF ZeroCounts
  <2> QED BY <2>1 DEF ExportsBelow
<1>24. ReadyOK(t3.m, t3.loc)
  BY <1>16, <1>19, <1>20, <1>21, <1>22, <1>23 DEF ReadyOK, Fit, Bare
<1> QED BY <1>6, <1>15, <1>16, <1>24

LEMMA NewStep ==
    ASSUME IInv, NewModule
    PROVE  IInv'
<1>1. PICK st, r : st = St /\ r = NewFrom(st)
  OBVIOUS
<1>2. r = NewRun
  BY <1>1 DEF NewFrom, NewRun
<1>3. /\ Parsing("none") /\ mod = EmptyModule
      /\ \/ Now(r.now) /\ phase' = "ready" /\ cur' = cur /\ todo' = todo /\ last' = last /\ spent' = spent
         \/ \E t \in r.past : Abort(t)
  BY <1>2 DEF NewModule
<1>4. phase = "parsing" /\ cur = "none"
  BY <1>3 DEF Parsing
<1>5. loc = NoLocals
  BY <1>3, ParsingLocals
<1>6. Sound(St) /\ todo \in Nat /\ last \in 0..13 /\ spent \in Nat
  BY DEF IInv
<1>7. Making(st, {})
  BY <1>1, <1>3, <1>5, <1>6, StFields, EmptyModuleFacts DEF Making, Bare, ZeroCounts
<1>8. (\A t \in r.past : Sound(t) /\ Bare(t)) /\ Sound(r.now) /\ ReadyOK(r.now.m, r.now.loc)
  BY <1>1, <1>7, NewMade
<1>9. CASE Now(r.now) /\ phase' = "ready" /\ cur' = cur /\ todo' = todo /\ last' = last /\ spent' = spent
  <2>1. PICK t : t = r.now
    OBVIOUS
  <2>2. Sound(t) /\ ReadyOK(t.m, t.loc) /\ Now(t)
    BY <1>8, <1>9, <2>1
  <2>3. phase' = "ready" /\ cur' = "none" /\ todo' \in Nat /\ last' \in 0..13 /\ spent' \in Nat
    BY <1>4, <1>6, <1>9
  <2> QED BY <2>2, <2>3, ReadyStep
<1>10. CASE \E t \in r.past : Abort(t)
  <2>1. PICK t \in r.past : Abort(t)
    BY <1>10
  <2>2. Sound(t) /\ t.loc = NoLocals
    BY <1>8, <2>1 DEF Bare
  <2>3. \A b : b \notin t.loc.held /\ ~InLocal(t.loc, b)
    BY <2>2, NoHeld
  <2> QED BY <2>1, <2>2, <2>3, AbortNow
<1> QED BY <1>3, <1>9, <1>10

-----------------------------------------------------------------------------
(* wah_define_type                                                           *)

LEMMA FrameReady ==
    ASSUME NEW m, Steady(m), NEW m2, TypesFrame(m2, m)
    PROVE  ReadyOK(m2, NoLocals)
<1>1. Fit(m) /\ OrderFits(m) /\ ExportsBelow(m, Functions(m))
  BY DEF Steady
<1>2. Fit(m2) /\ OrderFits(m2) /\ Functions(m2) = Functions(m) /\ \A x : ExportsBelow(m, x) => ExportsBelow(m2, x)
  BY <1>1, FrameFit
<1> QED BY <1>1, <1>2 DEF ReadyOK

\* w is m with its last type, number i, taken back.
RolledBack(w, m, i) ==
    /\ IsModule(w) /\ SameRest(w, m) /\ w.ptr = m.ptr /\ w.cap = m.cap
    /\ w.cnt["types"] = i - 1 /\ (\A d \in Arrays : d # "types" => w.cnt[d] = m.cnt[d])
    /\ (\A d \in Arrays : (d # "types" /\ d # "type_defs") => w.own[d] = m.own[d] /\ w.ent[d] = m.ent[d])
    /\ \A d \in {"types", "type_defs"} : \A j \in 1..i - 1 : w.own[d][j] = m.own[d][j]

LEMMA RolledBackFields ==
    ASSUME NEW m, IsModule(m), NEW i \in Nat, i # 0, i <= m.cap["types"], i <= m.cap["type_defs"], NEW o, NEW e,
           NEW w1, Written(w1, m, "types", i, o, e), NEW w2, Written(w2, w1, "type_defs", i, o, e),
           NEW w, IsRecounted(w, w2, "types", i - 1)
    PROVE  RolledBack(w, m, i)
<1>1. PICK t, y, n : t = "types" /\ y = "type_defs" /\ n = i - 1
  OBVIOUS
<1>2. t \in Arrays /\ y \in Arrays /\ t # y /\ n \in Nat
  BY <1>1, TypeFieldsFacts
<1>3. /\ IsModule(w1) /\ SameRest(w1, m) /\ w1.cnt = m.cnt /\ w1.ptr = m.ptr /\ w1.cap = m.cap
      /\ (\A d \in Arrays : d # t => w1.own[d] = m.own[d] /\ w1.ent[d] = m.ent[d])
      /\ \A j \in 1..m.cap[t] : j # i => w1.own[t][j] = m.own[t][j]
  BY <1>1 DEF Written
<1>4. /\ IsModule(w2) /\ SameRest(w2, w1) /\ w2.cnt = w1.cnt /\ w2.ptr = w1.ptr /\ w2.cap = w1.cap
      /\ (\A d \in Arrays : d # y => w2.own[d] = w1.own[d] /\ w2.ent[d] = w1.ent[d])
      /\ \A j \in 1..w1.cap[y] : j # i => w2.own[y][j] = w1.own[y][j]
  BY <1>1 DEF Written
<1>5. IsRecounted(w, w2, t, n)
  BY <1>1
<1>6. /\ IsModule(w) /\ SameRest(w, w2) /\ w.ptr = w2.ptr /\ w.cap = w2.cap /\ w.own = w2.own /\ w.ent = w2.ent
      /\ w.cnt[t] = n /\ \A d \in Arrays : d # t => w.cnt[d] = w2.cnt[d]
  BY <1>2, <1>4, <1>5, IsRecountedFields
<1>7. SameRest(w, m) /\ w.ptr = m.ptr /\ w.cap = m.cap
  BY <1>3, <1>4, <1>6 DEF SameRest
<1>8. w.cnt["types"] = i - 1 /\ \A d \in Arrays : d # "types" => w.cnt[d] = m.cnt[d]
  BY <1>1, <1>3, <1>4, <1>6
<1>9. \A d \in Arrays : (d # "types" /\ d # "type_defs") => w.own[d] = m.own[d] /\ w.ent[d] = m.ent[d]
  BY <1>1, <1>3, <1>4, <1>6
<1>10. m.cap[t] \in Nat /\ m.cap[y] \in Nat
  BY <1>2 DEF IsModule, Laid
<1>11. \A j \in 1..i - 1 : j # i /\ j \in 1..m.cap[t] /\ j \in 1..m.cap[y]
  BY <1>1, <1>10
<1>12. \A j \in 1..i - 1 : w.own[t][j] = m.own[t][j]
  <2>1. w.own[t] = w1.own[t]
    BY <1>2, <1>4, <1>6
  <2> QED BY <1>3, <1>11, <2>1
<1>13. \A j \in 1..i - 1 : w.own[y][j] = m.own[y][j]
  <2>1. w1.own[y] = m.own[y] /\ w1.cap[y] = m.cap[y]
    BY <1>2, <1>3
  <2> QED BY <1>4, <1>6, <1>11, <2>1
<1> QED BY <1>1, <1>6, <1>7, <1>8, <1>9, <1>12, <1>13 DEF RolledBack

\* What the last type of m owns.
LastType(m, i, b) == b \in m.own["types"][i] \/ b \in m.own["type_defs"][i]

\* The types of m are i in number, and its arrays of them are allocated.
HasTypes(m, i) ==
    /\ i \in Nat /\ i # 0 /\ m.cnt["types"] = i /\ m.ptr["types"] # {} /\ m.ptr["type_defs"] # {}

LEMMA RolledBackModule ==
    ASSUME NEW m, IsModule(m), KeptModule(m), NEW i, HasTypes(m, i), NEW w, RolledBack(w, m, i)
    PROVE  /\ KeptModule(w) /\ (\A b : InModule(w, b) <=> (InModule(m, b) /\ ~LastType(m, i, b)))
           /\ \A b : LastType(m, i, b) => InModule(m, b)
<1>1. i \in Nat /\ i # 0 /\ m.cnt["types"] = i /\ m.ptr["types"] # {} /\ m.ptr["type_defs"] # {}
  BY DEF HasTypes
<1>2. /\ w.ptr = m.ptr /\ w.cap = m.cap
      /\ w.cnt["types"] = i - 1 /\ (\A d \in Arrays : d # "types" => w.cnt[d] = m.cnt[d])
      /\ (\A d \in Arrays : (d # "types" /\ d # "type_defs") => w.own[d] = m.own[d] /\ w.ent[d] = m.ent[d])
      /\ \A d \in {"types", "type_defs"} : \A j \in 1..i - 1 : w.own[d][j] = m.own[d][j]
  BY DEF RolledBack
<1>3. \A d \in {"types", "type_defs"} : d \in Arrays /\ Freed(m, d) = i /\ Freed(w, d) = i - 1 /\ d # "exports" /\ m.ptr[d] # {}
  BY <1>1, <1>2, FreedFacts, TypeFieldsFacts
<1>4. \A d \in Arrays : (d # "types" /\ d # "type_defs") => Freed(w, d) = Freed(m, d)
  BY <1>2, FreedFacts
<1>5. \A j : Host(w, j) <=> Host(m, j)
  <2>1. /\ w.ptr["functions"] = m.ptr["functions"] /\ w.cnt["func_imports"] = m.cnt["func_imports"]
        /\ w.cnt["functions"] = m.cnt["functions"] /\ w.ent["functions"] = m.ent["functions"] /\ w.ent["exports"] = m.ent["exports"]
    BY <1>2, TypeFieldsFacts, OtherArraysFacts
  <2> QED BY <2>1, HostFrame
<1>6. \A d \in Arrays : (d # "types" /\ d # "type_defs") => \A j : Own(w, d, j) = Own(m, d, j)
  BY <1>2, <1>5 DEF Own
<1>7. \A d \in {"types", "type_defs"} : \A j \in 1..i - 1 : Own(w, d, j) = Own(m, d, j)
  BY <1>2, <1>3 DEF Own
<1>8. \A d \in {"types", "type_defs"} : i <= m.cap[d] /\ m.cap[d] \in Nat /\ \A j \in 1..i : \A b \in Own(m, d, j) : b[1] = d /\ b[2] = j
  <2>1. m.cap \in [Arrays -> Nat]
    BY DEF IsModule, Laid
  <2> QED BY <1>3, <2>1 DEF KeptModule
<1>9. \A j : j \in 1..i <=> (j = i \/ j \in 1..i - 1)
  BY <1>1
<1>10. \A d \in {"types", "type_defs"} : Own(m, d, i) = m.own[d][i] /\ i \in 1..i
  BY <1>1, <1>3 DEF Own
<1>11. \A b : LastType(m, i, b) <=> \E d \in {"types", "type_defs"} : b \in Own(m, d, i)
  BY <1>10 DEF LastType
<1>12. \A b : LastType(m, i, b) => b[2] = i /\ b[1] \in {"types", "type_defs"} /\ b \in Own(m, b[1], b[2])
  BY <1>8, <1>10, <1>11
<1>13. KeptModule(w)
  <2>1. ASSUME NEW d \in Arrays, w.ptr[d] # {}
        PROVE  Freed(w, d) <= w.cap[d] /\ \A j \in 1..Freed(w, d) : \A b \in Own(w, d, j) : b[1] = d /\ b[2] = j
    <3>1. CASE d # "types" /\ d # "type_defs"
      BY <1>2, <1>4, <1>6, <2>1, <3>1 DEF KeptModule
    <3>2. CASE d \in {"types", "type_defs"}
      <4>1. Freed(w, d) = i - 1 /\ w.cap[d] = m.cap[d] /\ i <= m.cap[d] /\ m.cap[d] \in Nat
        BY <1>2, <1>3, <1>8, <3>2
      <4>2. i - 1 <= m.cap[d]
        BY <1>1, <4>1
      <4>3. ASSUME NEW j \in 1..i - 1, NEW b \in Own(w, d, j) PROVE b[1] = d /\ b[2] = j
        <5>1. b \in Own(m, d, j) /\ j \in 1..i
          BY <1>7, <1>9, <3>2, <4>3
        <5> QED BY <1>8, <3>2, <5>1
      <4> QED BY <4>1, <4>2, <4>3
    <3> QED BY <3>1, <3>2
  <2> QED BY <2>1 DEF KeptModule
<1>14. ASSUME NEW b PROVE InModule(w, b) <=> (InModule(m, b) /\ ~LastType(m, i, b))
  <2>1. CASE b[1] # "types" /\ b[1] # "type_defs"
    <3>1. ~LastType(m, i, b)
      BY <1>12, <2>1
    <3> QED BY <1>2, <1>4, <1>6, <2>1, <3>1 DEF InModule
  <2>2. CASE b[1] \in {"types", "type_defs"}
    <3>1. PICK d : d = b[1]
      OBVIOUS
    <3>2. d \in Arrays /\ Freed(m, d) = i /\ Freed(w, d) = i - 1 /\ m.ptr[d] # {} /\ w.ptr[d] # {}
      BY <1>2, <1>3, <2>2, <3>1
    <3>3. InModule(m, b) <=> (b = ArrayBlock(d) \/ (b[2] \in 1..i /\ b \in Own(m, d, b[2])))
      BY <3>1, <3>2 DEF InModule
    <3>4. InModule(w, b) <=> (b = ArrayBlock(d) \/ (b[2] \in 1..i - 1 /\ b \in Own(w, d, b[2])))
      BY <3>1, <3>2 DEF InModule
    <3>5. b[2] \in 1..i - 1 => (b \in Own(w, d, b[2]) <=> b \in Own(m, d, b[2]))
      BY <1>7, <2>2, <3>1
    <3>6. LastType(m, i, b) <=> (b[2] = i /\ b \in Own(m, d, b[2]))
      <4>1. LastType(m, i, b) => (b[2] = i /\ b \in Own(m, d, b[2]))
        BY <1>12, <3>1
      <4>2. (b[2] = i /\ b \in Own(m, d, b[2])) => LastType(m, i, b)
        BY <1>11, <2>2, <3>1
      <4> QED BY <4>1, <4>2
    <3>7. b = ArrayBlock(d) => b[2] # i
      BY <1>1, ArrayBlockFacts
    <3>8. b[2] \in 1..i - 1 => b[2] # i
      BY <1>1
    <3> QED BY <1>9, <3>3, <3>4, <3>5, <3>6, <3>7, <3>8
  <2> QED BY <2>1, <2>2
<1>15. ASSUME NEW b, LastType(m, i, b) PROVE InModule(m, b)
  <2>1. b[2] = i /\ b[1] \in {"types", "type_defs"} /\ b \in Own(m, b[1], b[2])
    BY <1>12, <1>15
  <2>2. b[1] \in Arrays /\ m.ptr[b[1]] # {} /\ b[2] \in 1..Freed(m, b[1])
    BY <1>3, <1>10, <2>1
  <2> QED BY <2>1, <2>2 DEF InModule
<1> QED BY <1>13, <1>14, <1>15

\* The state in which wah_define_type releases what the locals hold when it takes type i back.
TakenBack(s, i, own) == [s EXCEPT !.m.cnt["types"] = i - 1, !.h = Free(@, own)]

LEMMA TakenBackFields ==
    ASSUME NEW s, IsState(s), NEW i, i \in Nat, i # 0, NEW own, NEW v, v = TakenBack(s, i, own)
    PROVE  /\ IsRecounted(v.m, s.m, "types", i - 1) /\ v.loc = s.loc /\ v.h.live = s.h.live \ own
           /\ v.h.bad = (s.h.bad \/ ~(own \subseteq s.h.live)) /\ v.h = [live |-> v.h.live, bad |-> v.h.bad]
           /\ v = [m |-> v.m, loc |-> v.loc, h |-> v.h]
<1>1. PICK m, l, h : m = s.m /\ l = s.loc /\ h = s.h
  OBVIOUS
<1>2. s = [m |-> m, loc |-> l, h |-> h]
  BY <1>1 DEF IsState
<1>3. PICK w, g : w = [m EXCEPT !.cnt["types"] = i - 1] /\ g = Free(h, own)
  OBVIOUS
<1>4. v = [m |-> w, loc |-> l, h |-> g]
  BY <1>2, <1>3 DEF TakenBack
<1>5. v.m = w /\ v.loc = l /\ v.h = g /\ v = [m |-> v.m, loc |-> v.loc, h |-> v.h]
  BY <1>4
<1>6. g.live = h.live \ own /\ g.bad = (h.bad \/ ~(own \subseteq h.live)) /\ g = [live |-> g.live, bad |-> g.bad]
  BY <1>3 DEF Free
<1>7. IsRecounted(w, m, "types", i - 1)
  BY <1>3 DEF IsRecounted, Recounted
<1> QED BY <1>1, <1>5, <1>6, <1>7

LEMMA FrameRolledBack ==
    ASSUME NEW m, NEW m1, IsModule(m1), TypesFrame(m1, m), NEW i, HasTypes(m1, i), NEW w, RolledBack(w, m1, i)
    PROVE  TypesFrame(w, m)
<1>1. /\ SameRest(w, m1) /\ w.ptr = m1.ptr /\ w.cap = m1.cap /\ w.cnt["types"] = i - 1
      /\ (\A d \in Arrays : d # "types" => w.cnt[d] = m1.cnt[d])
      /\ (\A d \in Arrays : (d # "types" /\ d # "type_defs") => w.ent[d] = m1.ent[d])
  BY DEF RolledBack
<1>2. i \in Nat /\ i # 0 /\ m1.cnt["types"] = i /\ m1.ptr["types"] # {} /\ m1.ptr["type_defs"] # {}
  BY DEF HasTypes
<1>3. w.types_cap = m1.types_cap /\ m1.types_cap \in Nat
  BY <1>1 DEF SameRest, IsModule
<1>4. i <= m1.types_cap
  BY <1>2 DEF TypesFrame, TypesFit
<1>5. w.cnt["types"] <= w.types_cap
  BY <1>1, <1>2, <1>3, <1>4
<1>6. TypesFit(w) /\ ReprsFit(w)
  BY <1>1, <1>3, <1>5 DEF TypesFrame, TypesFit, ReprsFit
<1>7. \A d \in {"types", "type_defs", "repr_infos"} : w.ptr[d] = {} => Freed(w, d) = 0
  <2>1. SUFFICES ASSUME w.ptr["repr_infos"] = {} PROVE Freed(w, "repr_infos") = 0
    BY <1>1, <1>2
  <2>2. Freed(m1, "repr_infos") = 0
    BY <1>1, <2>1 DEF TypesFrame
  <2> QED BY <1>1, <2>2, FreedFacts, TypeFieldsFacts
<1>8. \A d \in Arrays : (d # "types" /\ d # "repr_infos") => w.cnt[d] = m.cnt[d]
  BY <1>1 DEF TypesFrame
<1>9. \A d \in Arrays : d \notin TypeFields => w.ptr[d] = m.ptr[d] /\ w.cap[d] = m.cap[d] /\ w.ent[d] = m.ent[d]
  <2>1. "types" \in TypeFields /\ "type_defs" \in TypeFields
    BY DEF TypeFields, TypeArrays
  <2> QED BY <1>1, <2>1 DEF TypesFrame
<1> QED BY <1>6, <1>7, <1>8, <1>9 DEF TypesFrame

LEMMA RollbackSound ==
    ASSUME NEW st, Sound(st), NEW m, TypesFrame(st.m, m), NEW i, HasTypes(st.m, i), NEW u, u = Rollback(st, i)
    PROVE  Sound(u) /\ TypesFrame(u.m, m) /\ u.loc = NoLocals
<1>1. PICK m1, none, own, o : m1 = st.m /\ none = [k |-> "none"] /\ own = m1.own["types"][i] \cup m1.own["type_defs"][i] /\ o = {}
  OBVIOUS
<1>2. PICK s0, s1 : s0 = Write(st, "types", i, o, none) /\ s1 = Write(s0, "type_defs", i, o, none)
  OBVIOUS
<1>3. PICK v : v = TakenBack(s1, i, own)
  OBVIOUS
<1>4. u = Keep(v)
  BY <1>1, <1>2, <1>3 DEF Rollback, TakenBack
<1>5. /\ IsState(st) /\ IsModule(m1) /\ KeptModule(m1) /\ TypesFrame(m1, m) /\ HasTypes(m1, i) /\ i \in Nat /\ i # 0
      /\ m1.cap \in [Arrays -> Nat]
  BY <1>1 DEF Sound, IsState, IsModule, Laid, HasTypes
<1>6. i \in 1..m1.cap["types"] /\ i \in 1..m1.cap["type_defs"]
  <2>1. i <= m1.types_cap /\ m1.types_cap <= m1.cap["types"] /\ m1.types_cap <= m1.cap["type_defs"]
    BY <1>5 DEF HasTypes, TypesFrame, TypesFit
  <2>2. m1.types_cap \in Nat /\ m1.cap["types"] \in Nat /\ m1.cap["type_defs"] \in Nat
    BY <1>5, TypeFieldsFacts DEF IsModule
  <2> QED BY <1>5, <2>1, <2>2
<1>7. Written(s0.m, m1, "types", i, o, none) /\ IsState(s0) /\ s0.loc = st.loc /\ s0.h = st.h
  <2>1. PICK a : a = "types"
    OBVIOUS
  <2>2. a \in Arrays /\ i \in 1..st.m.cap[a] /\ s0 = Write(st, a, i, o, none)
    BY <1>1, <1>2, <1>6, <2>1, TypeFieldsFacts
  <2>3. Written(s0.m, st.m, a, i, o, none) /\ IsState(s0) /\ s0.loc = st.loc /\ s0.h = st.h
    BY <1>5, <2>2, WriteFields
  <2> QED BY <1>1, <2>1, <2>3
<1>8. Written(s1.m, s0.m, "type_defs", i, o, none) /\ IsState(s1) /\ s1.loc = st.loc /\ s1.h = st.h
  <2>1. PICK a : a = "type_defs"
    OBVIOUS
  <2>2. s0.m.cap = m1.cap
    BY <1>7 DEF Written
  <2>3. a \in Arrays /\ i \in 1..s0.m.cap[a] /\ s1 = Write(s0, a, i, o, none)
    BY <1>2, <1>6, <2>1, <2>2, TypeFieldsFacts
  <2>4. Written(s1.m, s0.m, a, i, o, none) /\ IsState(s1) /\ s1.loc = s0.loc /\ s1.h = s0.h
    BY <1>7, <2>3, WriteFields
  <2> QED BY <1>7, <2>1, <2>4
<1>9. /\ IsRecounted(v.m, s1.m, "types", i - 1) /\ v.loc = st.loc /\ v.h.live = st.h.live \ own
      /\ v.h.bad = (st.h.bad \/ ~(own \subseteq st.h.live)) /\ v.h = [live |-> v.h.live, bad |-> v.h.bad]
      /\ v = [m |-> v.m, loc |-> v.loc, h |-> v.h]
  BY <1>3, <1>5, <1>8, TakenBackFields
<1>10. RolledBack(v.m, m1, i)
  <2>1. PICK w, w1, w2 : w = v.m /\ w1 = s0.m /\ w2 = s1.m
    OBVIOUS
  <2>2. Written(w1, m1, "types", i, o, none) /\ Written(w2, w1, "type_defs", i, o, none) /\ IsRecounted(w, w2, "types", i - 1)
    BY <1>7, <1>8, <1>9, <2>1
  <2>3. i <= m1.cap["types"] /\ i <= m1.cap["type_defs"]
    BY <1>6
  <2>4. RolledBack(w, m1, i)
    BY <1>5, <2>2, <2>3, RolledBackFields
  <2> QED BY <2>1, <2>4
<1>11. PICK w : w = v.m
  OBVIOUS
<1>12. RolledBack(w, m1, i) /\ IsModule(w)
  BY <1>10, <1>11 DEF RolledBack
<1>13. /\ KeptModule(w) /\ (\A b : InModule(w, b) <=> (InModule(m1, b) /\ ~LastType(m1, i, b)))
       /\ \A b : LastType(m1, i, b) => InModule(m1, b)
  BY <1>5, <1>12, RolledBackModule
<1>14. \A b : b \in own <=> LastType(m1, i, b)
  BY <1>1 DEF LastType
<1>15. /\ KeptLocal(st.loc) /\ IsLocals(st.loc) /\ st.h.bad = FALSE
       /\ (\A b : b \in st.h.live <=> (b \in st.loc.held \/ InModule(m1, b) \/ InLocal(st.loc, b)))
       /\ (\A b : /\ ~(b \in st.loc.held /\ InModule(m1, b)) /\ ~(b \in st.loc.held /\ InLocal(st.loc, b))
                  /\ ~(InModule(m1, b) /\ InLocal(st.loc, b)))
  BY <1>1 DEF Sound, IsState
<1>16. own \subseteq st.h.live
  BY <1>13, <1>14, <1>15
<1>17. v.h.bad = FALSE
  BY <1>9, <1>15, <1>16
<1>18. \A b : b \in v.h.live <=> (b \in v.loc.held \/ InModule(w, b) \/ InLocal(v.loc, b))
  BY <1>9, <1>13, <1>14, <1>15
<1>19. IsState(v)
  BY <1>9, <1>11, <1>12, <1>15 DEF IsState
<1>20. Sound(v)
  BY <1>9, <1>11, <1>13, <1>15, <1>17, <1>18, <1>19 DEF Sound
<1>21. TypesFrame(w, m)
  BY <1>5, <1>12, FrameRolledBack
<1> QED BY <1>4, <1>11, <1>20, <1>21, KeepSound

\* The locals of p hold the parts of type i, and nothing else.
HoldsParts(p, i, e) ==
    /\ SameArrays(p.loc, NoLocals)
    /\ \A b : b \in p.loc.held <=> (HasParts(e) /\ (b = Parts(i, e)[1] \/ b = Parts(i, e)[2]))

LEMMA SpecRead ==
    ASSUME NEW st, Sound(st), Fit(st.m), Bare(st), NEW i, i = st.m.cnt["types"] + 1, NEW e,
           NEW q, q = SpecRun(Start(st), i, e)
    PROVE  TypesRun(q, st.m) /\ HoldsParts(q.now, i, e) /\ q.now.m = st.m
<1>1. PICK r0, m : r0 = Start(st) /\ m = st.m
  OBVIOUS
<1>2. TypesRun(r0, m) /\ r0.now = st /\ st.loc = NoLocals
  BY <1>1, TypesStart, StartFacts DEF Bare
<1>3. i \in Nat /\ i # 0 /\ m.cnt["types"] \in Nat
  <2>1. m.cnt \in [Arrays -> Nat]
    BY <1>1 DEF Sound, IsState, IsModule, Laid
  <2> QED BY <1>1, <2>1, TypeFieldsFacts
<1>4. \A b : b \notin st.loc.held
  BY <1>2, NoHeld
<1>5. CASE ~HasParts(e)
  <2>1. q = r0
    BY <1>1, <1>5 DEF SpecRun
  <2>2. HoldsParts(st, i, e)
    BY <1>2, <1>4, <1>5 DEF HoldsParts, SameArrays
  <2> QED BY <1>1, <1>2, <2>1, <2>2
<1>6. CASE HasParts(e)
  <2>1. PICK a, f, g : a \in {"types", "type_defs"} /\ f # g /\ Parts(i, e)[1] = Block(a, i, f) /\ Parts(i, e)[2] = Block(a, i, g)
    BY PartsFacts
  <2>2. PICK b, c : b = Block(a, i, f) /\ c = Block(a, i, g)
    OBVIOUS
  <2>3. PICK r1 : r1 = r0 ++ ForLocal(b)
    OBVIOUS
  <2>4. q = r1 ++ ForLocal(c)
    BY <1>1, <1>6, <2>1, <2>2, <2>3 DEF SpecRun
  <2>5. a \in TypeFields /\ a \in Arrays /\ a \notin ImportArrays /\ Freed(m, a) = m.cnt["types"]
    BY <2>1, FreedFacts, TypeFieldsFacts DEF TypeFields, TypeArrays
  <2>6. FreshEntry(st, a, i)
    <3>1. i \notin 1..Freed(st.m, a)
      BY <1>1, <1>3, <2>5
    <3>2. \A x : Block(a, i, x) \notin st.loc.held
      BY <1>4
    <3> QED BY <1>3, <2>5, <3>1, <3>2, FreshOf
  <2>7. b \notin st.h.live /\ c \notin st.h.live /\ b # c
    BY <2>1, <2>2, <2>6, BlockFacts DEF FreshEntry
  <2>8. /\ TypesRun(r1, m) /\ r1.now.m = st.m /\ r1.now.loc.held = st.loc.held \cup {b}
        /\ SameArrays(r1.now.loc, st.loc) /\ HeapMore(r1.now.h, st.h, b)
    <3>1. b \notin r0.now.h.live
      BY <1>2, <2>7
    <3>2. /\ TypesRun(r1, m) /\ r1.now.m = r0.now.m /\ r1.now.loc.held = r0.now.loc.held \cup {b}
          /\ SameArrays(r1.now.loc, r0.now.loc) /\ HeapMore(r1.now.h, r0.now.h, b)
      BY <1>2, <2>3, <3>1, TypesLocal
    <3> QED BY <1>2, <3>2
  <2>9. c \notin r1.now.h.live
    BY <2>7, <2>8 DEF HeapMore
  <2>10. /\ TypesRun(q, m) /\ q.now.m = r1.now.m /\ q.now.loc.held = r1.now.loc.held \cup {c}
         /\ SameArrays(q.now.loc, r1.now.loc)
    BY <2>4, <2>8, <2>9, TypesLocal
  <2>11. SameArrays(q.now.loc, NoLocals)
    BY <1>2, <2>8, <2>10 DEF SameArrays
  <2>12. \A x : x \in q.now.loc.held <=> (x = b \/ x = c)
    BY <1>4, <2>8, <2>10
  <2>13. HoldsParts(q.now, i, e)
    BY <1>6, <2>1, <2>2, <2>11, <2>12 DEF HoldsParts
  <2> QED BY <1>1, <2>8, <2>10, <2>13
<1> QED BY <1>5, <1>6

LEMMA RoomRead ==
    ASSUME NEW r, NEW m, TypesRun(r, m), NEW i \in Nat, i # 0, NEW e, HoldsParts(r.now, i, e),
           NEW q, q = EnsureTypes(r, i)
    PROVE  TypesRun(q, m) /\ HoldsParts(q.now, i, e) /\ q.now.m.cnt = r.now.m.cnt /\ i <= q.now.m.types_cap
<1>1. \A d \in TypeArrays : ArrayBlock(d) \notin r.now.loc.held
  <2>1. SUFFICES ASSUME NEW d \in TypeArrays, ArrayBlock(d) \in r.now.loc.held PROVE FALSE
    OBVIOUS
  <2>2. ArrayBlock(d) = Parts(i, e)[1] \/ ArrayBlock(d) = Parts(i, e)[2]
    BY <2>1 DEF HoldsParts
  <2>3. PICK a, f, g : a \in {"types", "type_defs"} /\ f # g /\ Parts(i, e)[1] = Block(a, i, f) /\ Parts(i, e)[2] = Block(a, i, g)
    BY PartsFacts
  <2>4. ArrayBlock(d)[2] = i
    BY <2>2, <2>3, BlockFacts
  <2>5. ArrayBlock(d)[2] = 0
    BY DEF ArrayBlock, Block
  <2> QED BY <2>4, <2>5
<1>2. TypesRun(q, m) /\ Ensured(q.now, r.now, i)
  BY <1>1, TypesEnsured
<1> QED BY <1>2 DEF Ensured, HoldsParts

\* The type i is the last of u, which has room for it.
Stored(u, m, i) ==
    Sound(u) /\ TypesFrame(u.m, m) /\ u.loc = NoLocals /\ HasTypes(u.m, i) /\ i <= u.m.types_cap

LEMMA TakenRead ==
    ASSUME NEW r, NEW m, TypesRun(r, m), NEW i, i = r.now.m.cnt["types"] + 1, i <= r.now.m.types_cap,
           NEW e, HoldsParts(r.now, i, e), NEW q, q = TakeParts(BeginType(r, i, e), i, e)
    PROVE  Stored(q.now, m, i)
<1>1. PICK r1 : r1 = BeginType(r, i, e)
  OBVIOUS
<1>2. TypesRun(r1, m) /\ Added(r1.now, r.now, i)
  BY <1>1, TypeAdded
<1>3. /\ r1.now.loc = r.now.loc /\ r1.now.m.types_cap = r.now.m.types_cap /\ i \in Nat /\ i > 0 /\ i <= r1.now.m.types_cap
      /\ r1.now.m.cnt["types"] = i /\ \A d \in {"types", "type_defs"} : r1.now.m.ptr[d] # {} /\ Freed(r1.now.m, d) = i
  BY <1>2 DEF Added
<1>4. HoldsParts(r1.now, i, e)
  BY <1>3 DEF HoldsParts
<1>5. HasTypes(r1.now.m, i)
  BY <1>3 DEF HasTypes
<1>6. CASE ~HasParts(e)
  <2>1. q = r1
    BY <1>1, <1>6 DEF TakeParts
  <2>2. Sound(q.now) /\ TypesFrame(q.now.m, m) /\ IsLocals(q.now.loc)
    BY <1>2, <2>1, TypesNow DEF IsState
  <2>3. \A b : b \notin q.now.loc.held
    BY <1>4, <1>6, <2>1 DEF HoldsParts
  <2>4. q.now.loc.held = {} /\ SameArrays(q.now.loc, NoLocals)
    BY <1>4, <2>1, <2>3 DEF HoldsParts
  <2>5. q.now.loc = NoLocals
    BY <2>2, <2>4, LocalsBack
  <2> QED BY <1>3, <1>5, <2>1, <2>2, <2>5 DEF Stored
<1>7. CASE HasParts(e)
  <2>1. PICK a, f, g : a \in {"types", "type_defs"} /\ f # g /\ Parts(i, e)[1] = Block(a, i, f) /\ Parts(i, e)[2] = Block(a, i, g)
    BY PartsFacts
  <2>2. PICK r2 : r2 = r1 ++ Take(Block(a, i, f))
    OBVIOUS
  <2>3. q = r2 ++ Take(Block(a, i, g))
    BY <1>1, <1>7, <2>1, <2>2 DEF TakeParts
  <2>4. a \in TypeFields /\ r1.now.m.ptr[a] # {} /\ i \in 1..Freed(r1.now.m, a)
    BY <1>3, <2>1 DEF TypeFields, TypeArrays
  <2>5. \A b : b \in r1.now.loc.held <=> (b = Block(a, i, f) \/ b = Block(a, i, g))
    BY <1>4, <1>7, <2>1 DEF HoldsParts
  <2>6. /\ TypesRun(r2, m) /\ SameSizes(r2.now.m, r1.now.m) /\ r2.now.loc.held = r1.now.loc.held \ {Block(a, i, f)}
        /\ SameArrays(r2.now.loc, r1.now.loc)
    <3>1. PICK b : b = Block(a, i, f)
      OBVIOUS
    <3>2. HeldFor(r1.now, a, b)
      BY <2>4, <2>5, <3>1 DEF HeldFor
    <3>3. TypesRun(r1, m) /\ r2 = r1 ++ Take(b)
      BY <1>2, <2>2, <3>1
    <3>4. TypesRun(r2, m) /\ Gave(r2.now, r1.now, b)
      BY <3>2, <3>3, TypesGave
    <3> QED BY <3>1, <3>4 DEF Gave
  <2>7. Block(a, i, f) # Block(a, i, g)
    BY <2>1, BlockFacts
  <2>8. r2.now.m.ptr[a] # {} /\ i \in 1..Freed(r2.now.m, a) /\ Block(a, i, g) \in r2.now.loc.held
    BY <2>4, <2>5, <2>6, <2>7 DEF SameSizes, Freed, FreedEntries
  <2>9. /\ TypesRun(q, m) /\ SameSizes(q.now.m, r2.now.m) /\ q.now.loc.held = r2.now.loc.held \ {Block(a, i, g)}
        /\ SameArrays(q.now.loc, r2.now.loc)
    <3>1. PICK b : b = Block(a, i, g)
      OBVIOUS
    <3>2. HeldFor(r2.now, a, b)
      BY <2>4, <2>8, <3>1 DEF HeldFor
    <3>3. TypesRun(r2, m) /\ q = r2 ++ Take(b)
      BY <2>3, <2>6, <3>1
    <3>4. TypesRun(q, m) /\ Gave(q.now, r2.now, b)
      BY <3>2, <3>3, TypesGave
    <3> QED BY <3>1, <3>4 DEF Gave
  <2>10. Sound(q.now) /\ TypesFrame(q.now.m, m) /\ IsLocals(q.now.loc)
    BY <2>9, TypesNow DEF IsState
  <2>11. q.now.loc.held = {}
    BY <2>5, <2>6, <2>9
  <2>12. SameArrays(q.now.loc, NoLocals)
    BY <1>4, <2>6, <2>9 DEF HoldsParts, SameArrays
  <2>13. q.now.loc = NoLocals
    BY <2>10, <2>11, <2>12, LocalsBack
  <2>14. SameSizes(q.now.m, r1.now.m)
    BY <2>6, <2>9 DEF SameSizes
  <2>15. HasTypes(q.now.m, i) /\ i <= q.now.m.types_cap
    BY <1>3, <1>5, <2>14 DEF SameSizes, HasTypes
  <2> QED BY <2>10, <2>13, <2>15 DEF Stored
<1> QED BY <1>6, <1>7

\* The metadata of type i can be laid out, and that of array d has been.
CanLay(r, m, i) == LaysOut(r, m, i) /\ i \in Nat /\ i # 0 /\ i <= r.now.m.types_cap

Slot(r, d) == When(r, r.now.m.ptr[d] = {}, Resize(d, r.now.m.types_cap))

LEMMA SlotLaid ==
    ASSUME NEW r, NEW m, NEW i, CanLay(r, m, i), NEW d \in {"typeidx_to_repr", "canonical_map"}, NEW e,
           NEW p, p = Slot(r, d), NEW q, q = p ++ Begin(d, i, e, 0)
    PROVE  /\ CanLay(q, m, i) /\ q.now.m.types_cap = r.now.m.types_cap
           /\ \A x \in Arrays : x # d => q.now.m.ptr[x] = r.now.m.ptr[x]
<1>1. PICK t, n : t = r.now /\ n = t.m.types_cap
  OBVIOUS
<1>2. /\ TypesRun(r, m) /\ RunAt(r, i) /\ t.loc = NoLocals /\ i \in Nat /\ i # 0 /\ i <= n
  BY <1>1 DEF CanLay, LaysOut
<1>3. Sound(t) /\ IsModule(t.m) /\ TypesFrame(t.m, m) /\ n \in Nat
  BY <1>1, <1>2, TypesNow DEF IsModule
<1>4. d \in TypeArrays /\ d \in TypeFields /\ d \in Arrays /\ d \in FlatArrays /\ d \notin ImportArrays /\ d # "functions"
  BY TypeFieldsFacts DEF TypeFields, TypeArrays
<1>5. /\ TypesRun(p, m) /\ RunAt(p, i) /\ p.now.loc = NoLocals /\ p.now.m.cnt = t.m.cnt /\ p.now.m.types_cap = n /\ n <= p.now.m.cap[d]
      /\ \A x \in Arrays : x # d => p.now.m.ptr[x] = t.m.ptr[x]
  <2>1. CASE t.m.ptr[d] # {}
    <3>1. p = r
      BY <1>1, <2>1 DEF Slot, When
    <3>2. n <= t.m.cap[d]
      BY <1>1, <1>3, <2>1 DEF TypesFrame, TypesFit
    <3> QED BY <1>1, <1>2, <3>1, <3>2
  <2>2. CASE t.m.ptr[d] = {}
    <3>1. PICK w : w = r ++ Resize(d, n)
      OBVIOUS
    <3>2. p = w
      BY <1>1, <2>2, <3>1 DEF Slot, When
    <3>3. ArrayBlock(d) \notin r.now.loc.held
      BY <1>1, <1>2, NoHeld
    <3>4. r.now.m.types_cap <= n
      BY <1>1, <1>3
    <3>5. TypesRun(w, m) /\ Resizes(w.now, r.now, d, n)
      BY <1>2, <1>3, <1>4, <3>1, <3>3, <3>4, TypesResize
    <3>6. /\ w.now.loc = t.loc /\ w.now.m.cnt = t.m.cnt /\ w.now.m.types_cap = t.m.types_cap /\ w.now.m.cap[d] = n
          /\ \A x \in Arrays : x # d => w.now.m.ptr[x] = t.m.ptr[x]
      BY <1>1, <3>5 DEF Resizes
    <3>7. w.now.m.cnt["types"] = r.now.m.cnt["types"]
      BY <1>1, <3>6
    <3>8. RunAt(w, i)
      BY <1>2, <3>1, <3>7, RunAtStep
    <3> QED BY <1>1, <1>2, <1>3, <3>2, <3>5, <3>6, <3>8
  <2> QED BY <2>1, <2>2
<1>6. CanBegin(p.now.m, d, i, 0)
  <2>1. p.now.m.cap[d] \in Nat
    BY <1>4, <1>5, TypesNow DEF IsModule, Laid
  <2>2. i \in 1..p.now.m.cap[d]
    BY <1>2, <1>3, <1>5, <2>1
  <2> QED BY <1>4, <2>2 DEF CanBegin
<1>7. TypesRun(q, m) /\ Begun(q.now, p.now, d, i) /\ q.now.m.cnt = p.now.m.cnt
  BY <1>4, <1>5, <1>6, TypesBegin
<1>8. q.now.loc = p.now.loc /\ q.now.m.ptr = p.now.m.ptr /\ q.now.m.types_cap = p.now.m.types_cap
  BY <1>7 DEF Begun
<1>9. RunAt(q, i)
  <2>1. q.now.m.cnt["types"] = p.now.m.cnt["types"]
    BY <1>7
  <2> QED BY <1>5, <2>1, RunAtStep
<1>10. CanLay(q, m, i)
  BY <1>2, <1>5, <1>7, <1>8, <1>9 DEF CanLay, LaysOut
<1> QED BY <1>1, <1>5, <1>8, <1>10

LEMMA LatestLaid ==
    ASSUME NEW r, NEW m, NEW i, CanLay(r, m, i), NEW e, NEW q, q = LatestMetadata(r, i, e)
    PROVE  LaysOut(q, m, i)
<1>1. PICK t, y, x, f, g : t = r.now.m /\ y = "typeidx_to_repr" /\ x = "canonical_map" /\ f = [k |-> "none"] /\ g = [k |-> "self"]
  OBVIOUS
<1>2. PICK p1, q1 : p1 = Slot(r, y) /\ q1 = p1 ++ Begin(y, i, f, 0)
  OBVIOUS
<1>3. PICK p2, q2 : p2 = Slot(q1, x) /\ q2 = p2 ++ Begin(x, i, g, 0)
  OBVIOUS
<1>4. /\ CanLay(q1, m, i) /\ q1.now.m.types_cap = t.types_cap /\ q1.now.m.ptr[x] = t.ptr[x]
  <2>1. y \in {"typeidx_to_repr", "canonical_map"} /\ x # y /\ x \in Arrays
    BY <1>1, TypeFieldsFacts
  <2>2. /\ CanLay(q1, m, i) /\ q1.now.m.types_cap = r.now.m.types_cap
        /\ \A z \in Arrays : z # y => q1.now.m.ptr[z] = r.now.m.ptr[z]
    BY <1>2, <2>1, SlotLaid
  <2> QED BY <1>1, <2>1, <2>2
<1>5. CanLay(q2, m, i)
  <2>1. x \in {"typeidx_to_repr", "canonical_map"}
    BY <1>1
  <2> QED BY <1>3, <1>4, <2>1, SlotLaid
<1>6. p1 = When(r, t.ptr["typeidx_to_repr"] = {}, Resize("typeidx_to_repr", t.types_cap))
  BY <1>1, <1>2 DEF Slot
<1>7. p2 = When(q1, t.ptr["canonical_map"] = {}, Resize("canonical_map", t.types_cap))
  BY <1>1, <1>3, <1>4 DEF Slot
<1>8. q = IF e.k = "struct" THEN ReprRun(q2) ELSE q2
  BY <1>1, <1>2, <1>3, <1>6, <1>7 DEF LatestMetadata
<1>9. LaysOut(q2, m, i)
  BY <1>5 DEF CanLay
<1>10. CASE e.k = "struct"
  <2>1. PICK p : p = ReprRun(q2)
    OBVIOUS
  <2>2. LaysOut(p, m, i)
    BY <1>9, <2>1, ReprRead
  <2> QED BY <1>8, <1>10, <2>1, <2>2
<1>11. CASE e.k # "struct"
  BY <1>8, <1>9, <1>11
<1> QED BY <1>10, <1>11

LEMMA FrameHasTypes ==
    ASSUME NEW m, NEW m1, TypesFrame(m1, m), NEW i \in Nat, i # 0, m1.cnt["types"] = i
    PROVE  HasTypes(m1, i)
<1>1. Freed(m1, "types") = i /\ Freed(m1, "type_defs") = i
  BY FreedFacts, TypeFieldsFacts
<1> QED BY <1>1 DEF TypesFrame, HasTypes

\* What wah_define_type leaves, however it ends, keeps the module's invariant.
Defines(u, m) == Sound(u) /\ TypesFrame(u.m, m) /\ u.loc = NoLocals

LEMMA DefinesIInv ==
    ASSUME IInv, phase = "ready", NEW u, Defines(u, mod), Now(u), UNCHANGED <<phase, cur, todo, last>>, spent' \in Nat
    PROVE  IInv'
<1>1. Sound(u) /\ TypesFrame(u.m, mod) /\ u.loc = NoLocals
  BY DEF Defines
<1>2. PICK m : m = mod
  OBVIOUS
<1>3. Steady(m) /\ TypesFrame(u.m, m)
  BY <1>1, <1>2 DEF IInv, ReadyOK, Steady
<1>4. ReadyOK(u.m, NoLocals)
  <2>1. PICK w : w = u.m
    OBVIOUS
  <2>2. TypesFrame(w, m)
    BY <1>3, <2>1
  <2>3. ReadyOK(w, NoLocals)
    BY <1>3, <2>2, FrameReady
  <2> QED BY <2>1, <2>3
<1>5. ReadyOK(u.m, u.loc)
  BY <1>1, <1>4
<1>6. phase' = "ready" /\ cur' = "none" /\ todo' \in Nat /\ last' \in 0..13
  BY DEF IInv
<1> QED BY <1>1, <1>5, <1>6, ReadyStep

LEMMA KeepDefines ==
    ASSUME NEW r, NEW m, TypesRun(r, m), NEW t \in Stops(r), NEW u, u = Keep(t)
    PROVE  Defines(u, m)
<1>1. Sound(t) /\ TypesFrame(t.m, m)
  BY DEF TypesRun
<1>2. Sound(u) /\ u.m = t.m /\ u.loc = NoLocals
  BY <1>1, KeepSound
<1> QED BY <1>1, <1>2 DEF Defines

LEMMA RollbackDefines ==
    ASSUME NEW r, NEW m, NEW i, CanLay(r, m, i), NEW e, NEW q, q = LatestMetadata(r, i, e), NEW t \in Stops(q),
           NEW u, u = Rollback(t, i)
    PROVE  Defines(u, m)
<1>1. LaysOut(q, m, i) /\ i \in Nat /\ i # 0
  BY LatestLaid DEF CanLay
<1>2. Sound(t) /\ TypesFrame(t.m, m) /\ t.m.cnt["types"] = i
  BY <1>1 DEF LaysOut, TypesRun, RunAt
<1>3. HasTypes(t.m, i)
  <2>1. PICK w : w = t.m
    OBVIOUS
  <2>2. TypesFrame(w, m) /\ w.cnt["types"] = i
    BY <1>2, <2>1
  <2>3. HasTypes(w, i)
    BY <1>1, <2>2, FrameHasTypes
  <2> QED BY <2>1, <2>3
<1>4. Sound(u) /\ TypesFrame(u.m, m) /\ u.loc = NoLocals
  BY <1>2, <1>3, RollbackSound
<1> QED BY <1>4 DEF Defines

LEMMA DefineTypeStep ==
    ASSUME IInv, NEW e, DefineType(e)
    PROVE  IInv'
<1>1. PICK st, m, i : st = St /\ m = mod /\ i = m.cnt["types"] + 1
  OBVIOUS
<1>2. PICK spec, room : spec = SpecRun(Start(st), i, e) /\ room = EnsureTypes(spec, i)
  OBVIOUS
<1>3. PICK take, added : take = TakeParts(BeginType(room, i, e), i, e) /\ added = take.now
  OBVIOUS
<1>4. PICK start, metadata : start = Start(added) /\ metadata = LatestMetadata(start, i, e)
  OBVIOUS
<1>5. /\ phase = "ready" /\ spent < MaxCalls /\ spent' = spent + 1
      /\ UNCHANGED <<phase, cur, todo, last>>
      /\ \/ \E t \in room.past : Now(Keep(t))
         \/ Now(Keep(spec.now))
         \/ Now(metadata.now)
         \/ \E t \in metadata.past : Now(Rollback(t, i))
  BY <1>1, <1>2, <1>3, <1>4 DEF DefineType
<1>6. spent' \in Nat
  BY <1>5 DEF IInv
<1>7. Sound(st) /\ Bare(st) /\ st.m = m /\ Fit(st.m) /\ IsModule(st.m)
  <2>1. st = St
    BY <1>1
  <2>2. Sound(st) /\ Bare(st) /\ st.m = mod /\ Fit(st.m) /\ IsModule(st.m)
    BY <1>5, <2>1, ReadySt
  <2> QED BY <1>1, <2>2
<1>8. i \in Nat /\ i # 0 /\ i = st.m.cnt["types"] + 1
  <2>1. m.cnt \in [Arrays -> Nat]
    BY <1>7 DEF IsModule, Laid
  <2> QED BY <1>1, <1>7, <2>1, TypeFieldsFacts
<1>9. TypesRun(spec, m) /\ HoldsParts(spec.now, i, e) /\ spec.now.m = m
  <2>1. TypesRun(spec, st.m) /\ HoldsParts(spec.now, i, e) /\ spec.now.m = st.m
    BY <1>2, <1>7, <1>8, SpecRead
  <2> QED BY <1>7, <2>1
<1>10. TypesRun(room, m) /\ HoldsParts(room.now, i, e) /\ room.now.m.cnt = spec.now.m.cnt /\ i <= room.now.m.types_cap
  BY <1>2, <1>8, <1>9, RoomRead
<1>11. Stored(added, m, i)
  <2>1. i = room.now.m.cnt["types"] + 1
    BY <1>7, <1>8, <1>9, <1>10
  <2>2. Stored(take.now, m, i)
    BY <1>3, <1>10, <2>1, TakenRead
  <2> QED BY <1>3, <2>2
<1>12. CanLay(start, m, i)
  <2>1. Sound(added) /\ TypesFrame(added.m, m) /\ added.loc = NoLocals /\ added.m.cnt["types"] = i /\ i <= added.m.types_cap
    BY <1>11 DEF Stored, HasTypes
  <2>2. start.now = added /\ Stops(start) = {added}
    BY <1>4, StartFacts
  <2> QED BY <1>8, <2>1, <2>2 DEF CanLay, LaysOut, TypesRun, RunAt
<1>13. \A r : r.past \subseteq Stops(r) /\ r.now \in Stops(r)
  BY DEF Stops
<1>14. CASE \E t \in room.past : Now(Keep(t))
  <2>1. PICK t \in room.past : Now(Keep(t))
    BY <1>14
  <2>2. PICK u : u = Keep(t)
    OBVIOUS
  <2>3. t \in Stops(room)
    BY <1>13, <2>1
  <2>4. Defines(u, m)
    BY <1>10, <2>2, <2>3, KeepDefines
  <2> QED BY <1>1, <1>5, <1>6, <2>1, <2>2, <2>4, DefinesIInv
<1>15. CASE Now(Keep(spec.now))
  <2>1. PICK t, u : t = spec.now /\ u = Keep(t)
    OBVIOUS
  <2>2. t \in Stops(spec)
    BY <1>13, <2>1
  <2>3. Defines(u, m)
    BY <1>9, <2>1, <2>2, KeepDefines
  <2> QED BY <1>1, <1>5, <1>6, <1>15, <2>1, <2>3, DefinesIInv
<1>16. CASE Now(metadata.now)
  <2>1. PICK u : u = metadata.now
    OBVIOUS
  <2>2. LaysOut(metadata, m, i)
    BY <1>4, <1>12, LatestLaid
  <2>3. Sound(u) /\ TypesFrame(u.m, m) /\ u.loc = NoLocals
    BY <1>13, <2>1, <2>2 DEF LaysOut, TypesRun
  <2>4. Defines(u, m)
    BY <2>3 DEF Defines
  <2> QED BY <1>1, <1>5, <1>6, <1>16, <2>1, <2>4, DefinesIInv
<1>17. CASE \E t \in metadata.past : Now(Rollback(t, i))
  <2>1. PICK t \in metadata.past : Now(Rollback(t, i))
    BY <1>17
  <2>2. PICK u : u = Rollback(t, i)
    OBVIOUS
  <2>3. t \in Stops(metadata)
    BY <1>13, <2>1
  <2>4. Defines(u, m)
    BY <1>4, <1>12, <2>2, <2>3, RollbackDefines
  <2> QED BY <1>1, <1>5, <1>6, <2>1, <2>2, <2>4, DefinesIInv
<1> QED BY <1>5, <1>14, <1>15, <1>16, <1>17

-----------------------------------------------------------------------------
(* The specification                                                         *)

LEMMA EmptyAhead ==
    ASSUME NEW m, m = EmptyModule
    PROVE  ParseOK(m, NoLocals, "none", 0, 0)
<1>1. /\ IsModule(m) /\ m.types_cap = 0 /\ \A a \in Arrays : m.ptr[a] = {} /\ m.cap[a] = 0 /\ m.cnt[a] = 0
  BY EmptyModuleFacts
<1>2. \A a \in Arrays : Freed(m, a) = 0
  BY <1>1, FreedFacts, TypeFieldsFacts
<1>3. Growing \subseteq Arrays /\ Metadata \subseteq Arrays /\ ImportArrays \subseteq Arrays
  BY OtherArraysFacts DEF Growing, Metadata, Arrays
<1>4. Counted0(m)
  BY <1>2, <1>3 DEF Counted0, Freed
<1>5. Fit(m)
  BY <1>1, <1>4, TypeFieldsFacts DEF Fit, TypesFit, ReprsFit, DeclaredFit
<1>6. Ahead(m, "none", 0)
  BY <1>1, <1>3, SectionArrays, TypeFieldsFacts DEF Ahead, NoArray
<1>7. Room(m, "none", 0) /\ LocalsOK(NoLocals, "none")
  BY DEF Room, LocalsOK
<1>8. ExportsBelow(m, Limit(m, "func")) /\ OrderFits(m)
  BY <1>1, TypeFieldsFacts DEF ExportsBelow, OrderFits
<1> QED BY <1>5, <1>6, <1>7, <1>8 DEF ParseOK

LEMMA InitIInv ==
    ASSUME Init
    PROVE  IInv
<1>1. /\ phase = "parsing" /\ cur = "none" /\ todo = 0 /\ last = 0 /\ spent = 0
      /\ mod = EmptyModule /\ loc = NoLocals /\ heap = NoHeap
  BY DEF Init
<1>2. PICK m, z : m = EmptyModule /\ z = 0
  OBVIOUS
<1>3. ParseOK(m, NoLocals, "none", 0, 0)
  BY <1>2, EmptyAhead
<1>4. Sound(St)
  <2>1. PICK st : st = St
    OBVIOUS
  <2>2. st = [m |-> EmptyModule, loc |-> NoLocals, h |-> NoHeap]
    BY <1>1, <2>1 DEF St
  <2>3. st.m = EmptyModule /\ st.loc = NoLocals /\ st.h = NoHeap /\ st = [m |-> st.m, loc |-> st.loc, h |-> st.h]
    BY <2>2
  <2>4. NoHeap.live = {} /\ NoHeap.bad = FALSE /\ NoHeap = [live |-> NoHeap.live, bad |-> NoHeap.bad]
    BY DEF NoHeap
  <2>5. /\ st.h.live = {} /\ st.h.bad = FALSE /\ st.h = [live |-> st.h.live, bad |-> st.h.bad]
    BY <2>3, <2>4
  <2>6. IsModule(st.m) /\ KeptModule(st.m) /\ \A b : ~InModule(st.m, b)
    BY <2>3, EmptyModuleFacts
  <2>7. IsLocals(st.loc) /\ KeptLocal(st.loc) /\ st.loc.held = {} /\ \A b : ~InLocal(st.loc, b)
    BY <2>3, NoLocalsFacts
  <2>8. Sound(st)
    BY <2>3, <2>5, <2>6, <2>7 DEF Sound, IsState
  <2> QED BY <2>1, <2>8
<1> QED BY <1>1, <1>2, <1>3, <1>4 DEF IInv

LEMMA NextIInv ==
    ASSUME IInv, [Next]_vars
    PROVE  IInv'
<1>1. CASE \E s \in DOMAIN ArrayOf, n \in 0..MaxEntries : OpenSection(s, n)
  BY <1>1, OpenStep
<1>2. CASE BadSection
  BY <1>2, BadStep
<1>3. CASE ParseType
  BY <1>3, TypeStep
<1>4. CASE ParseImport
  BY <1>4, ImportStep
<1>5. CASE ParseFunction \/ ParseMemory \/ ParseTag
  BY <1>5, FunctionStep
<1>6. CASE ParseTable
  BY <1>6, TableStep
<1>7. CASE ParseGlobal
  BY <1>7, GlobalStep
<1>8. CASE ParseExport
  BY <1>8, ExportStep
<1>9. CASE ParseStart
  BY <1>9, StartStep
<1>10. CASE ParseElement
  BY <1>10, ElementStep
<1>11. CASE ParseDataCount
  BY <1>11, DataCountStep
<1>12. CASE ParseCode
  BY <1>12, CodeStep
<1>13. CASE ParseData
  BY <1>13, DataStep
<1>14. CASE \E s \in DOMAIN ArrayOf : CloseSection(s)
  BY <1>14, CloseStep
<1>15. CASE EndModule
  BY <1>15, EndStep
<1>16. CASE NewModule
  BY <1>16, NewStep
<1>17. CASE \E name \in Names : ExportFunc(name) \/ ExportGlobal(name) \/ ExportMemory(name)
  BY <1>17, ExportFuncStep, ExportGlobalStep, ExportMemoryStep
<1>18. CASE \E e \in TypeEntries : DefineType(e)
  BY <1>18, DefineTypeStep
<1>19. CASE FreeCall
  BY <1>19, FreeStep
<1>20. CASE UNCHANGED vars
  BY <1>20 DEF IInv, vars, St
<1> QED BY <1>1, <1>2, <1>3, <1>4, <1>5, <1>6, <1>7, <1>8, <1>9, <1>10, <1>11, <1>12, <1>13, <1>14,
           <1>15, <1>16, <1>17, <1>18, <1>19, <1>20 DEF Next

LEMMA IInvReleased ==
    ASSUME IInv
    PROVE  Released
<1>1. Sound(St) /\ St.m = mod /\ St.loc = loc /\ St.h = heap
  BY StFields DEF IInv
<1>2. PICK st : st = St
  OBVIOUS
<1>3. heap.bad = FALSE
  BY <1>1 DEF Sound
<1>4. ASSUME phase \in {"failed", "freed"} PROVE heap.live = {}
  <2>1. mod = EmptyModule /\ loc = NoLocals
    BY <1>4 DEF IInv
  <2>2. Sound(st) /\ st.m = EmptyModule /\ st.loc = NoLocals /\ st.h = heap
    BY <1>1, <1>2, <2>1
  <2>3. \A b : b \in st.h.live <=> (b \in st.loc.held \/ InModule(st.m, b) \/ InLocal(st.loc, b))
    BY <2>2 DEF Sound
  <2>4. \A b : b \notin st.h.live
    BY <2>2, <2>3, EmptyModuleFacts, NoLocalsFacts
  <2> QED BY <2>2, <2>4
<1> QED BY <1>3, <1>4 DEF Released

(* In every state that wah_parse_module, wah_new_module, the wah_define_type *)
(* and wah_export_* calls and wah_free_module reach, each live allocation    *)
(* is held by exactly one pointer of the module's counted entries or of the  *)
(* running handler, the entries that wah_free_module would free lie within   *)
(* their arrays and were written, and the sections that are still to come    *)
(* have left no trace.                                                       *)
THEOREM ModuleOwnership == Spec => []IInv
<1>1. Init => IInv
  BY InitIInv
<1>2. IInv /\ [Next]_vars => IInv'
  BY NextIInv
<1> QED BY <1>1, <1>2, PTL DEF Spec

(* Whichever allocation fails or malformed entry ends the parsing, and       *)
(* whatever sequence of later calls extends the module, with failures of     *)
(* their own: no block is released twice, no pointer of an entry that was    *)
(* never written is freed, no array is written past its capacity, and once   *)
(* the parsing has failed or the module was freed nothing is left.           *)
THEOREM ModuleReleased == Spec => []Released
<1>1. IInv => Released
  BY IInvReleased
<1> QED BY <1>1, ModuleOwnership, PTL

=============================================================================
