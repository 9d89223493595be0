-------------------------- MODULE ModuleHeapProofs --------------------------
(***************************************************************************)
(* What the steps of a handler do to the heap of a module, for arrays of   *)
(* any size: if every live block has one owner that frees it, this stays   *)
(* so, as long as blocks are allocated for entries that do not hold them   *)
(* yet and entries are written within their arrays; and wah_free_module    *)
(* then frees every block once.                                            *)
(***************************************************************************)
EXTENDS ModuleHeap, FiniteSetTheorems, TLAPS

-----------------------------------------------------------------------------
(* Induction over the natural numbers, for a set instead of a predicate      *)

LEMMA LeastNat ==
    ASSUME NEW T \in SUBSET Nat, T # {}
    PROVE  \E x \in T : \A y \in T : x <= y
<1> DEFINE R == OpToRel(<, Nat)
<1>1. \A x \in Nat, y \in Nat : (x < y) => <<x, y>> \in R
  BY DEF OpToRel
<1>2. IsWellFoundedOn(R, Nat)
  BY NatLessThanWellFounded
<1> HIDE DEF R
<1>3. PICK x \in T : \A y \in T : ~(<<y, x>> \in R)
  BY <1>2, WFMin
<1>4. \A y \in T : ~(y < x)
  BY <1>1, <1>3
<1> QED BY <1>4

LEMMA SetInduction ==
    ASSUME NEW S, 0 \in S, \A n \in Nat : n \in S => n + 1 \in S
    PROVE  Nat \subseteq S
<1> DEFINE T == Nat \ S
<1>1. SUFFICES ASSUME T # {} PROVE FALSE
  OBVIOUS
<1>2. PICK x \in T : \A y \in T : x <= y
  BY <1>1, LeastNat
<1>3. x \in Nat /\ x # 0
  OBVIOUS
<1>4. x - 1 \in Nat /\ ~(x <= x - 1)
  BY <1>3
<1>5. x - 1 \in S
  BY <1>2, <1>4
<1>6. (x - 1) + 1 \in S
  BY <1>5, <1>4
<1> QED BY <1>6, <1>3, <1>2

\* The recursive definition of Pow2 has a solution.
LEMMA Pow2Exists ==
    \E f : f = [n \in Nat |-> IF n = 0 THEN 1 ELSE 2 * f[n - 1]]
<1> DEFINE x == 1
           G(v) == 2 * v
           Upto(f, k) == f[0] = x /\ \A n \in Nat : n < k => f[n + 1] = G(f[n])
           S == {k \in Nat : \E f : Upto(f, k)}
           Same == {k \in Nat : \A i \in Nat, j \in Nat : \A f, g :
                       (Upto(f, i) /\ Upto(g, j) /\ k <= i /\ k <= j) => f[k] = g[k]}
           App(k) == CHOOSE f : Upto(f, k)
           H == [n \in Nat |-> App(n)[n]]
<1> HIDE DEF x, G
<1>1. 0 \in S
  <2>1. Upto([n \in Nat |-> x], 0)
    OBVIOUS
  <2> QED BY <2>1
<1>2. \A k \in Nat : k \in S => k + 1 \in S
  <2>1. SUFFICES ASSUME NEW k \in Nat, NEW f, Upto(f, k)
                 PROVE  \E g : Upto(g, k + 1)
    OBVIOUS
  <2> DEFINE g == [n \in Nat |-> IF n = k + 1 THEN G(f[k]) ELSE f[n]]
  <2>2. Upto(g, k + 1)
    BY <2>1
  <2> QED BY <2>2
<1>3. \A k \in Nat : Upto(App(k), k)
  <2>1. Nat \subseteq S
    <3> HIDE DEF S
    <3> QED BY <1>1, <1>2, SetInduction
  <2> HIDE DEF Upto
  <2> QED BY <2>1
<1>4. Nat \subseteq Same
  <2>1. 0 \in Same
    OBVIOUS
  <2>2. \A k \in Nat : k \in Same => k + 1 \in Same
    <3>1. SUFFICES ASSUME NEW k \in Nat, k \in Same
                   PROVE  k + 1 \in Same
      OBVIOUS
    <3>2. SUFFICES ASSUME NEW i \in Nat, NEW j \in Nat, NEW f, NEW g,
                          Upto(f, i), Upto(g, j), k + 1 <= i, k + 1 <= j
                   PROVE  f[k + 1] = g[k + 1]
      <4> HIDE DEF Upto
      <4> QED OBVIOUS
    <3>3. k <= i /\ k <= j /\ k < i /\ k < j
      BY <3>2
    <3>4. f[k] = g[k]
      <4> HIDE DEF Upto
      <4> QED BY <3>1, <3>2, <3>3
    <3> QED BY <3>2, <3>3, <3>4
  <2> HIDE DEF Same
  <2> QED BY <2>1, <2>2, SetInduction
<1>5. \A n \in Nat : H[n] = IF n = 0 THEN x ELSE G(H[n - 1])
  <2>1. SUFFICES ASSUME NEW n \in Nat PROVE H[n] = IF n = 0 THEN x ELSE G(H[n - 1])
    OBVIOUS
  <2>2. H[n] = App(n)[n] /\ Upto(App(n), n)
    BY <1>3
  <2>3. CASE n = 0
    <3> HIDE DEF App, H
    <3> QED BY <2>2, <2>3
  <2>4. CASE n # 0
    <3>1. n - 1 \in Nat /\ n - 1 <= n /\ n - 1 < n /\ (n - 1) + 1 = n
      BY <2>4
    <3>2. H[n - 1] = App(n - 1)[n - 1] /\ Upto(App(n - 1), n - 1)
      BY <3>1, <1>3
    <3>3. App(n)[n - 1] = App(n - 1)[n - 1]
      <4>1. n - 1 \in Same
        BY <3>1, <1>4
      <4> HIDE DEF App, Upto
      <4> QED BY <4>1, <3>1, <2>2, <3>2
    <3> HIDE DEF App, H
    <3>4. App(n)[(n - 1) + 1] = G(App(n)[n - 1])
      BY <2>2, <3>1
    <3> QED BY <3>1, <3>2, <3>3, <3>4, <2>2, <2>4
  <2> QED BY <2>3, <2>4
<1>6. H = [n \in Nat |-> IF n = 0 THEN x ELSE G(H[n - 1])]
  <2> HIDE DEF App
  <2> QED BY <1>5
<1> HIDE DEF H
<1> QED BY <1>6 DEF x, G

LEMMA Pow2Def ==
    /\ Pow2[0] = 1
    /\ \A n \in Nat : Pow2[n + 1] = 2 * Pow2[n]
    /\ \A n \in Nat : Pow2[n] \in Nat /\ Pow2[n] > n
<1>1. Pow2 = [n \in Nat |-> IF n = 0 THEN 1 ELSE 2 * Pow2[n - 1]]
  BY Pow2Exists DEF Pow2
<1>2. Pow2[0] = 1 /\ \A n \in Nat : Pow2[n + 1] = 2 * Pow2[n]
  <2>1. Pow2[0] = 1
    BY <1>1
  <2>2. ASSUME NEW n \in Nat PROVE Pow2[n + 1] = 2 * Pow2[n]
    <3>1. n + 1 \in Nat /\ n + 1 # 0 /\ (n + 1) - 1 = n
      OBVIOUS
    <3> QED BY <1>1, <3>1
  <2> QED BY <2>1, <2>2
<1> DEFINE S == {n \in Nat : Pow2[n] \in Nat /\ Pow2[n] > n}
<1>3. Nat \subseteq S
  <2>1. 0 \in S /\ \A n \in Nat : n \in S => n + 1 \in S
    BY <1>2
  <2> HIDE DEF S
  <2> QED BY <2>1, SetInduction
<1> QED BY <1>2, <1>3

-----------------------------------------------------------------------------
(* What holds of the heap after every step of every handler                  *)

\* The arrays of t are allocated or NULL, and have the slots they were allocated for.
Laid(t, A) ==
    /\ t.cnt \in [A -> Nat] /\ t.cap \in [A -> Nat]
    /\ DOMAIN t.ptr = A /\ DOMAIN t.own = A /\ DOMAIN t.ent = A
    /\ \A a \in A : /\ DOMAIN t.own[a] = 1..t.cap[a] /\ DOMAIN t.ent[a] = 1..t.cap[a]
                    /\ t.ptr[a] \in {{}, Pointer(a)}
                    /\ t.ptr[a] = {} => t.cap[a] = 0

\* The entries that wah_free_module frees with array a,
Freed(m, a) == FreedEntries(m)[a]

Host(m, i) == IsHostExport(m, m.ent["exports"][i])

\* and what it frees of entry i.
Own(m, a, i) == IF a = "exports" /\ Host(m, i) THEN {} ELSE m.own[a][i]

\* The block b is freed with the module, or with the local arrays of the import section.
InModule(m, b) ==
    /\ b[1] \in Arrays /\ m.ptr[b[1]] # {}
    /\ \/ b = ArrayBlock(b[1])
       \/ b[2] \in 1..Freed(m, b[1]) /\ b \in Own(m, b[1], b[2])

InLocal(l, b) ==
    /\ b[1] \in ImportArrays /\ l.ptr[b[1]] # {}
    /\ \/ b = ArrayBlock(b[1])
       \/ b[2] \in 1..l.cnt[b[1]] /\ b \in l.own[b[1]][b[2]]

\* The entries that are freed with an array exist, and hold blocks allocated for them.
KeptModule(m) ==
    \A a \in Arrays : m.ptr[a] # {} =>
        Freed(m, a) <= m.cap[a] /\ \A i \in 1..Freed(m, a) : \A b \in Own(m, a, i) : b[1] = a /\ b[2] = i

KeptLocal(l) ==
    \A a \in ImportArrays : l.ptr[a] # {} =>
        l.cnt[a] <= l.cap[a] /\ \A i \in 1..l.cnt[a] : \A b \in l.own[a][i] : b[1] = a /\ b[2] = i

IsModule(m) ==
    /\ m = [cnt |-> m.cnt, ptr |-> m.ptr, cap |-> m.cap, own |-> m.own, ent |-> m.ent,
            types_cap |-> m.types_cap, declared |-> m.declared, start |-> m.start,
            has_data_count_section |-> m.has_data_count_section,
            min_data_segment_count_required |-> m.min_data_segment_count_required]
    /\ m.types_cap \in Nat /\ Laid(m, Arrays)

IsLocals(l) ==
    /\ l = [held |-> l.held, cnt |-> l.cnt, ptr |-> l.ptr, cap |-> l.cap, own |-> l.own, ent |-> l.ent]
    /\ Laid(l, ImportArrays)

IsState(st) ==
    /\ st = [m |-> st.m, loc |-> st.loc, h |-> st.h]
    /\ st.h = [live |-> st.h.live, bad |-> st.h.bad]
    /\ IsModule(st.m) /\ IsLocals(st.loc)

\* Every live block has one owner, which frees it.
Sound(st) ==
    /\ IsState(st) /\ KeptModule(st.m) /\ KeptLocal(st.loc)
    /\ \A b : b \in st.h.live <=> (b \in st.loc.held \/ InModule(st.m, b) \/ InLocal(st.loc, b))
    /\ \A b : /\ ~(b \in st.loc.held /\ InModule(st.m, b)) /\ ~(b \in st.loc.held /\ InLocal(st.loc, b))
             /\ ~(InModule(st.m, b) /\ InLocal(st.loc, b))
    /\ st.h.bad = FALSE

-----------------------------------------------------------------------------
(* What each step does to the fields of the state                            *)

SameRest(m2, m) ==
    /\ m2.types_cap = m.types_cap /\ m2.declared = m.declared /\ m2.start = m.start
    /\ m2.has_data_count_section = m.has_data_count_section
    /\ m2.min_data_segment_count_required = m.min_data_segment_count_required

\* The arrays of l2 are those of l.
SameArrays(l2, l) ==
    l2.cnt = l.cnt /\ l2.cap = l.cap /\ l2.ptr = l.ptr /\ l2.own = l.own /\ l2.ent = l.ent

LEMMA PutFacts ==
    ASSUME NEW f, NEW i, NEW v
    PROVE  /\ DOMAIN Put(f, i, v) = DOMAIN f
           /\ \A j \in DOMAIN f : Put(f, i, v)[j] = IF j = i THEN v ELSE f[j]
BY DEF Put

\* Writing entry i of array a: the layout stays.
LEMMA LaidPut ==
    ASSUME NEW t, NEW u, NEW A, Laid(t, A), NEW a \in A, NEW i, NEW o, NEW e,
           u.cnt \in [A -> Nat], u.cap = t.cap, u.ptr = t.ptr,
           u.own = Put(t.own, a, Put(t.own[a], i, o)),
           u.ent = Put(t.ent, a, Put(t.ent[a], i, e)) \/ u.ent = t.ent
    PROVE  Laid(u, A)
<1>1. DOMAIN u.own = A /\ DOMAIN u.ent = A
  BY PutFacts DEF Laid
<1>2. ASSUME NEW b \in A
      PROVE  DOMAIN u.own[b] = 1..u.cap[b] /\ DOMAIN u.ent[b] = 1..u.cap[b]
  <2>1. DOMAIN t.own = A /\ DOMAIN t.ent = A
    BY DEF Laid
  <2>2. DOMAIN t.own[b] = 1..t.cap[b] /\ DOMAIN t.ent[b] = 1..t.cap[b]
    BY <1>2 DEF Laid
  <2>3. DOMAIN u.own[b] = DOMAIN t.own[b]
    BY <1>2, <2>1 DEF Put
  <2>4. DOMAIN u.ent[b] = DOMAIN t.ent[b]
    BY <1>2, <2>1 DEF Put
  <2> QED BY <2>2, <2>3, <2>4
<1> QED BY <1>1, <1>2 DEF Laid

LEMMA LaidSame ==
    ASSUME NEW t, NEW u, NEW A, Laid(t, A),
           u.cnt = t.cnt, u.cap = t.cap, u.ptr = t.ptr, u.own = t.own, u.ent = t.ent
    PROVE  Laid(u, A)
BY DEF Laid

LEMMA LaidResized ==
    ASSUME NEW t, NEW u, NEW A, Laid(t, A), NEW a \in A, NEW n \in Nat,
           u.cnt = t.cnt, u.cap = Put(t.cap, a, n), u.ptr = Put(t.ptr, a, Pointer(a)),
           NEW o, NEW e, DOMAIN o = 1..n, DOMAIN e = 1..n,
           u.own = Put(t.own, a, o), u.ent = Put(t.ent, a, e)
    PROVE  Laid(u, A)
<1>1. DOMAIN u.own = A /\ DOMAIN u.ent = A /\ DOMAIN u.ptr = A /\ DOMAIN u.cap = A
  BY PutFacts DEF Laid
<1>2. u.cap \in [A -> Nat]
  BY DEF Laid, Put
<1>3. ASSUME NEW b \in A
      PROVE  /\ DOMAIN u.own[b] = 1..u.cap[b] /\ DOMAIN u.ent[b] = 1..u.cap[b]
             /\ u.ptr[b] \in {{}, Pointer(b)} /\ (u.ptr[b] = {} => u.cap[b] = 0)
  <2>1. DOMAIN t.own = A /\ DOMAIN t.ent = A /\ DOMAIN t.ptr = A /\ DOMAIN t.cap = A
    BY DEF Laid
  <2>2. /\ DOMAIN t.own[b] = 1..t.cap[b] /\ DOMAIN t.ent[b] = 1..t.cap[b]
        /\ t.ptr[b] \in {{}, Pointer(b)} /\ (t.ptr[b] = {} => t.cap[b] = 0)
    BY <1>3 DEF Laid
  <2>3. CASE b = a
    <3>1. u.own[b] = o /\ u.ent[b] = e /\ u.ptr[b] = Pointer(b) /\ u.cap[b] = n
      BY <2>1, <2>3 DEF Put
    <3> QED BY <3>1 DEF Pointer
  <2>4. CASE b # a
    <3>1. u.own[b] = t.own[b] /\ u.ent[b] = t.ent[b] /\ u.ptr[b] = t.ptr[b] /\ u.cap[b] = t.cap[b]
      BY <1>3, <2>1, <2>4 DEF Put
    <3> QED BY <3>1, <2>2
  <2> QED BY <2>3, <2>4
<1> QED BY <1>1, <1>2, <1>3 DEF Laid

\* The heap h2 is h with the block b allocated.
HeapMore(h2, h, b) == h2.live = h.live \cup {b} /\ h2.bad = h.bad

\* The locals l, holding the blocks S.
Holding(l, S) == [l EXCEPT !.held = S]

Bump(f, a, n) == [f EXCEPT ![a] = @ + n]

Succ(f, a) == [f EXCEPT ![a] = @ + 1]

LEMMA LocalsHeld ==
    ASSUME NEW l, IsLocals(l), NEW S, NEW u, u = Holding(l, S)
    PROVE  IsLocals(u) /\ u.held = S /\ SameArrays(u, l)
<1>1. /\ u.held = S /\ u.cnt = l.cnt /\ u.cap = l.cap /\ u.ptr = l.ptr /\ u.own = l.own /\ u.ent = l.ent
      /\ u = [held |-> u.held, cnt |-> u.cnt, ptr |-> u.ptr, cap |-> u.cap, own |-> u.own, ent |-> u.ent]
  BY DEF IsLocals, Holding
<1> QED BY <1>1, LaidSame DEF IsLocals, SameArrays

LEMMA BeginFields ==
    ASSUME NEW st, IsState(st), NEW a \in Arrays, NEW i \in 1..st.m.cap[a], NEW e, NEW c \in {0, 1},
           NEW t, t = Step(st, Begin(a, i, e, c))
    PROVE  /\ IsState(t) /\ t.loc = st.loc /\ t.h = st.h
           /\ t.m.cnt = Bump(st.m.cnt, a, c)
           /\ t.m.ptr = st.m.ptr /\ t.m.cap = st.m.cap
           /\ t.m.own = Put(st.m.own, a, Put(st.m.own[a], i, {}))
           /\ t.m.ent = Put(st.m.ent, a, Put(st.m.ent[a], i, e))
           /\ SameRest(t.m, st.m)
<1>1. t = [Write(st, a, i, {}, e) EXCEPT !.m.cnt[a] = @ + c]
  BY DEF Step, Begin
<1> DEFINE own == Put(st.m.own, a, Put(st.m.own[a], i, {}))
           ent == Put(st.m.ent, a, Put(st.m.ent[a], i, e))
           cnt == Bump(st.m.cnt, a, c)
<1>w. Write(st, a, i, {}, e) = [st EXCEPT !.m.own = own, !.m.ent = ent]
  BY DEF Write
<1> HIDE DEF own, ent
<1>v. Write(st, a, i, {}, e) = [m |-> [st.m EXCEPT !.own = own, !.ent = ent], loc |-> st.loc, h |-> st.h]
  BY <1>w DEF IsState, IsModule
<1>2. t = [m |-> [st.m EXCEPT !.cnt = cnt, !.own = own, !.ent = ent], loc |-> st.loc, h |-> st.h]
  <2>1. PICK w : w = [st.m EXCEPT !.own = own, !.ent = ent]
    OBVIOUS
  <2>2. w.cnt = st.m.cnt /\ [w EXCEPT !.cnt = cnt] = [st.m EXCEPT !.cnt = cnt, !.own = own, !.ent = ent]
    BY <2>1 DEF IsState, IsModule
  <2>3. t = [[m |-> w, loc |-> st.loc, h |-> st.h] EXCEPT !.m.cnt[a] = @ + c]
    BY <1>1, <1>v, <2>1
  <2>4. t = [m |-> [w EXCEPT !.cnt[a] = @ + c], loc |-> st.loc, h |-> st.h]
    BY <2>3
  <2>5. [w EXCEPT !.cnt[a] = @ + c] = [w EXCEPT !.cnt = cnt]
    BY <2>2 DEF Bump
  <2> QED BY <2>2, <2>4, <2>5
<1> HIDE DEF cnt
<1>3. /\ t.loc = st.loc /\ t.h = st.h
      /\ t.m.cnt = cnt /\ t.m.own = own /\ t.m.ent = ent /\ t.m.ptr = st.m.ptr /\ t.m.cap = st.m.cap
      /\ SameRest(t.m, st.m)
  <2>1. t.m = [st.m EXCEPT !.cnt = cnt, !.own = own, !.ent = ent] /\ t.loc = st.loc /\ t.h = st.h
    BY <1>2
  <2> QED BY <2>1 DEF IsState, IsModule, SameRest
<1>4. t.m.cnt \in [Arrays -> Nat]
  BY <1>3 DEF IsState, IsModule, Laid, cnt, Bump
<1>5. Laid(t.m, Arrays)
  BY <1>3, <1>4, LaidPut DEF IsState, IsModule, own, ent
<1>6. IsModule(t.m)
  <2>1. t.m = [st.m EXCEPT !.cnt = cnt, !.own = own, !.ent = ent]
    BY <1>2
  <2> QED BY <2>1, <1>3, <1>5 DEF IsState, IsModule, SameRest
<1> QED BY <1>2, <1>3, <1>6 DEF IsState, cnt, own, ent

LEMMA EntryFields ==
    ASSUME NEW st, IsState(st), NEW b, b[1] \in Arrays, NEW t, t = Step(st, ForEntry(b))
    PROVE  /\ IsState(t) /\ t.loc = st.loc
           /\ HeapMore(t.h, st.h, b)
           /\ t.m.cnt = st.m.cnt /\ t.m.ptr = st.m.ptr /\ t.m.cap = st.m.cap
           /\ t.m.own = Given(st.m.own, b) /\ t.m.ent = st.m.ent
           /\ SameRest(t.m, st.m)
<1>1. t = [m |-> [st.m EXCEPT !.own = Given(st.m.own, b)], loc |-> st.loc,
           h |-> Alloc(st.h, {b})]
  BY DEF Step, ForEntry, IsState
<1>2. /\ t.m.cnt = st.m.cnt /\ t.m.ptr = st.m.ptr /\ t.m.cap = st.m.cap
      /\ t.m.own = Given(st.m.own, b) /\ t.m.ent = st.m.ent
      /\ SameRest(t.m, st.m)
  BY <1>1 DEF IsState, IsModule, SameRest
<1>3. Laid(t.m, Arrays)
  <2>1. Laid(st.m, Arrays) /\ st.m.cnt \in [Arrays -> Nat]
    BY DEF IsState, IsModule, Laid
  <2>2. t.m.own = Put(st.m.own, b[1], Put(st.m.own[b[1]], b[2], st.m.own[b[1]][b[2]] \cup {b}))
    BY <1>2 DEF Given
  <2> QED BY <2>1, <2>2, <1>2, LaidPut
<1>4. IsModule(t.m)
  BY <1>1, <1>2, <1>3 DEF IsState, IsModule, SameRest
<1> QED BY <1>1, <1>2, <1>4 DEF IsState, Alloc, HeapMore

LEMMA TakeFields ==
    ASSUME NEW st, IsState(st), NEW b, b[1] \in Arrays, NEW t, t = Step(st, Take(b))
    PROVE  /\ IsState(t) /\ t.loc.held = st.loc.held \ {b} /\ SameArrays(t.loc, st.loc) /\ t.h = st.h
           /\ t.m.cnt = st.m.cnt /\ t.m.ptr = st.m.ptr /\ t.m.cap = st.m.cap
           /\ t.m.own = Given(st.m.own, b) /\ t.m.ent = st.m.ent
           /\ SameRest(t.m, st.m)
<1>1. t = [m |-> [st.m EXCEPT !.own = Given(st.m.own, b)], loc |-> Holding(st.loc, st.loc.held \ {b}),
           h |-> st.h]
  BY DEF Step, Take, IsState, Holding
<1>2. /\ t.m.cnt = st.m.cnt /\ t.m.ptr = st.m.ptr /\ t.m.cap = st.m.cap
      /\ t.m.own = Given(st.m.own, b) /\ t.m.ent = st.m.ent
      /\ SameRest(t.m, st.m)
  BY <1>1 DEF IsState, IsModule, SameRest
<1>3. Laid(t.m, Arrays)
  <2>1. Laid(st.m, Arrays) /\ st.m.cnt \in [Arrays -> Nat]
    BY DEF IsState, IsModule, Laid
  <2>2. t.m.own = Put(st.m.own, b[1], Put(st.m.own[b[1]], b[2], st.m.own[b[1]][b[2]] \cup {b}))
    BY <1>2 DEF Given
  <2> QED BY <2>1, <2>2, <1>2, LaidPut
<1>4. IsModule(t.m)
  BY <1>1, <1>2, <1>3 DEF IsState, IsModule, SameRest
<1>5. IsLocals(t.loc) /\ t.loc.held = st.loc.held \ {b} /\ SameArrays(t.loc, st.loc)
  BY <1>1, LocalsHeld DEF IsState
<1> QED BY <1>1, <1>2, <1>4, <1>5 DEF IsState

LEMMA LocalFields ==
    ASSUME NEW st, IsState(st), NEW b, NEW t, t = Step(st, ForLocal(b))
    PROVE  /\ IsState(t) /\ t.loc.held = st.loc.held \cup {b} /\ SameArrays(t.loc, st.loc) /\ t.m = st.m
           /\ HeapMore(t.h, st.h, b)
<1>1. t = [m |-> st.m, loc |-> Holding(st.loc, st.loc.held \cup {b}),
           h |-> Alloc(st.h, {b})]
  BY DEF Step, ForLocal, IsState, Holding
<1>2. IsLocals(t.loc) /\ t.loc.held = st.loc.held \cup {b} /\ SameArrays(t.loc, st.loc)
  BY <1>1, LocalsHeld DEF IsState
<1> QED BY <1>1, <1>2 DEF IsState, Alloc, HeapMore

LEMMA DropFields ==
    ASSUME NEW st, IsState(st), NEW b, NEW t, t = Step(st, Drop(b))
    PROVE  /\ IsState(t) /\ t.loc.held = st.loc.held \ {b} /\ SameArrays(t.loc, st.loc) /\ t.m = st.m
           /\ t.h.live = st.h.live \ {b} /\ t.h.bad = (st.h.bad \/ b \notin st.h.live)
<1>1. t = [m |-> st.m, loc |-> Holding(st.loc, st.loc.held \ {b}), h |-> Free(st.h, {b})]
  BY DEF Step, Drop, IsState, Holding
<1>2. IsLocals(t.loc) /\ t.loc.held = st.loc.held \ {b} /\ SameArrays(t.loc, st.loc)
  BY <1>1, LocalsHeld DEF IsState
<1>3. t.h = Free(st.h, {b}) /\ t.m = st.m /\ IsState(t)
  BY <1>1, <1>2 DEF IsState, Free
<1>4. t.h.live = st.h.live \ {b} /\ t.h.bad = (st.h.bad \/ b \notin st.h.live)
  BY <1>3 DEF Free
<1> QED BY <1>2, <1>3, <1>4

LEMMA ResizeFields ==
    ASSUME NEW st, IsState(st), NEW a \in Arrays, NEW n \in Nat, NEW t, t = Step(st, Resize(a, n))
    PROVE  /\ IsState(t) /\ t.loc = st.loc
           /\ HeapMore(t.h, st.h, ArrayBlock(a))
           /\ t.m.cnt = st.m.cnt /\ t.m.ptr = Put(st.m.ptr, a, Pointer(a)) /\ t.m.cap = Put(st.m.cap, a, n)
           /\ t.m.own = Put(st.m.own, a, Realloc(st.m.own[a], st.m.cap[a], n, Garbage.own))
           /\ t.m.ent = Put(st.m.ent, a, Realloc(st.m.ent[a], st.m.cap[a], n, Garbage.e))
           /\ SameRest(t.m, st.m)
<1> DEFINE o == Realloc(st.m.own[a], st.m.cap[a], n, Garbage.own)
           e == Realloc(st.m.ent[a], st.m.cap[a], n, Garbage.e)
<1>1. t = [m |-> Resized(st.m, a, n), loc |-> st.loc,
           h |-> Alloc(st.h, Pointer(a))]
  BY DEF Step, Resize, IsState
<1>2. DOMAIN o = 1..n /\ DOMAIN e = 1..n
  BY DEF Realloc
<1>3. t.m = [st.m EXCEPT !.ptr = Put(st.m.ptr, a, Pointer(a)), !.cap = Put(st.m.cap, a, n),
                         !.own = Put(st.m.own, a, o), !.ent = Put(st.m.ent, a, e)]
  BY <1>1 DEF Resized
<1> HIDE DEF o, e
<1>4. /\ t.m.cnt = st.m.cnt /\ t.m.ptr = Put(st.m.ptr, a, Pointer(a)) /\ t.m.cap = Put(st.m.cap, a, n)
      /\ t.m.own = Put(st.m.own, a, o) /\ t.m.ent = Put(st.m.ent, a, e)
      /\ SameRest(t.m, st.m)
  BY <1>3 DEF IsState, IsModule, SameRest
<1>5. Laid(t.m, Arrays)
  BY <1>2, <1>4, LaidResized DEF IsState, IsModule
<1>6. IsModule(t.m)
  BY <1>3, <1>4, <1>5 DEF IsState, IsModule, SameRest
<1>7. t.loc = st.loc /\ HeapMore(t.h, st.h, ArrayBlock(a)) /\ IsState(t)
  BY <1>1, <1>6 DEF IsState, Alloc, HeapMore, Pointer
<1> QED BY <1>4, <1>7 DEF o, e

LEMMA ResizeImportsFields ==
    ASSUME NEW st, IsState(st), NEW a \in ImportArrays, NEW n \in Nat, NEW t, t = Step(st, ResizeImports(a, n))
    PROVE  /\ IsState(t) /\ t.m = st.m
           /\ HeapMore(t.h, st.h, ArrayBlock(a))
           /\ t.loc.held = st.loc.held /\ t.loc.cnt = st.loc.cnt
           /\ t.loc.ptr = Put(st.loc.ptr, a, Pointer(a)) /\ t.loc.cap = Put(st.loc.cap, a, n)
           /\ t.loc.own = Put(st.loc.own, a, Realloc(st.loc.own[a], st.loc.cap[a], n, Garbage.own))
           /\ t.loc.ent = Put(st.loc.ent, a, Realloc(st.loc.ent[a], st.loc.cap[a], n, Garbage.e))
<1> DEFINE o == Realloc(st.loc.own[a], st.loc.cap[a], n, Garbage.own)
           e == Realloc(st.loc.ent[a], st.loc.cap[a], n, Garbage.e)
<1>1. t = [m |-> st.m, loc |-> Resized(st.loc, a, n),
           h |-> Alloc(st.h, Pointer(a))]
  BY DEF Step, ResizeImports, IsState
<1>2. DOMAIN o = 1..n /\ DOMAIN e = 1..n
  BY DEF Realloc
<1>3. t.loc = [st.loc EXCEPT !.ptr = Put(st.loc.ptr, a, Pointer(a)), !.cap = Put(st.loc.cap, a, n),
                             !.own = Put(st.loc.own, a, o), !.ent = Put(st.loc.ent, a, e)]
  BY <1>1 DEF Resized
<1> HIDE DEF o, e
<1>4. /\ t.loc.held = st.loc.held /\ t.loc.cnt = st.loc.cnt
      /\ t.loc.ptr = Put(st.loc.ptr, a, Pointer(a)) /\ t.loc.cap = Put(st.loc.cap, a, n)
      /\ t.loc.own = Put(st.loc.own, a, o) /\ t.loc.ent = Put(st.loc.ent, a, e)
  BY <1>3 DEF IsState, IsLocals
<1>5. Laid(t.loc, ImportArrays)
  BY <1>2, <1>4, LaidResized DEF IsState, IsLocals
<1>6. IsLocals(t.loc)
  BY <1>3, <1>4, <1>5 DEF IsState, IsLocals
<1>7. t.m = st.m /\ HeapMore(t.h, st.h, ArrayBlock(a)) /\ IsState(t)
  BY <1>1, <1>6 DEF IsState, Alloc, HeapMore, Pointer
<1> QED BY <1>4, <1>7 DEF o, e

LEMMA StoreFields ==
    ASSUME NEW st, IsState(st), NEW a \in ImportArrays, NEW i, NEW o, NEW e,
           NEW t, t = Step(st, Store(a, i, o, e))
    PROVE  /\ IsState(t) /\ t.m = st.m /\ t.h = st.h
           /\ t.loc.held = st.loc.held \ o
           /\ t.loc.cnt = Succ(st.loc.cnt, a)
           /\ t.loc.ptr = st.loc.ptr /\ t.loc.cap = st.loc.cap
           /\ t.loc.own = Put(st.loc.own, a, Put(st.loc.own[a], i, o))
           /\ t.loc.ent = Put(st.loc.ent, a, Put(st.loc.ent[a], i, e))
<1> DEFINE own == Put(st.loc.own, a, Put(st.loc.own[a], i, o))
           ent == Put(st.loc.ent, a, Put(st.loc.ent[a], i, e))
           cnt == Succ(st.loc.cnt, a)
<1>1. t = [st EXCEPT !.loc.held = @ \ o, !.loc.cnt[a] = @ + 1, !.loc.own = own, !.loc.ent = ent]
  BY DEF Step, Store
<1> HIDE DEF own, ent
<1>2. t = [m |-> st.m, h |-> st.h,
           loc |-> [st.loc EXCEPT !.held = @ \ o, !.cnt[a] = @ + 1, !.own = own, !.ent = ent]]
  BY <1>1 DEF IsState
<1>3. t.loc = [st.loc EXCEPT !.held = @ \ o, !.cnt = cnt, !.own = own, !.ent = ent]
  BY <1>2 DEF IsState, IsLocals, Succ
<1> HIDE DEF cnt
<1>4. /\ t.loc.held = st.loc.held \ o /\ t.loc.cnt = cnt /\ t.loc.own = own /\ t.loc.ent = ent
      /\ t.loc.ptr = st.loc.ptr /\ t.loc.cap = st.loc.cap
  BY <1>3 DEF IsState, IsLocals
<1>5. t.loc.cnt \in [ImportArrays -> Nat]
  BY <1>4 DEF IsState, IsLocals, Laid, cnt, Succ
<1>6. Laid(t.loc, ImportArrays)
  BY <1>4, <1>5, LaidPut DEF IsState, IsLocals, own, ent
<1>7. IsLocals(t.loc)
  BY <1>3, <1>4, <1>6 DEF IsState, IsLocals
<1>8. t.m = st.m /\ t.h = st.h /\ IsState(t)
  BY <1>2, <1>7 DEF IsState
<1> QED BY <1>4, <1>8 DEF cnt, own, ent

LEMMA MarkFields ==
    ASSUME NEW st, IsState(st), NEW F, NEW t, t = Step(st, Mark(F))
    PROVE  /\ IsState(t) /\ t.loc = st.loc /\ t.h.live = st.h.live
           /\ t.h.bad = (st.h.bad \/ \E f \in F : f >= st.m.cap["declared_funcs"])
           /\ SameArrays(t.m, st.m)
           /\ t.m.types_cap = st.m.types_cap /\ t.m.start = st.m.start /\ t.m.declared = st.m.declared \cup F
           /\ t.m.has_data_count_section = st.m.has_data_count_section
           /\ t.m.min_data_segment_count_required = st.m.min_data_segment_count_required
<1>1. t = [m |-> [st.m EXCEPT !.declared = @ \cup F], loc |-> st.loc,
           h |-> [live |-> st.h.live, bad |-> st.h.bad \/ \E f \in F : f >= st.m.cap["declared_funcs"]]]
  BY DEF Step, Mark, IsState
<1>2. /\ t.m.cnt = st.m.cnt /\ t.m.ptr = st.m.ptr /\ t.m.cap = st.m.cap
      /\ t.m.own = st.m.own /\ t.m.ent = st.m.ent /\ t.m.types_cap = st.m.types_cap
      /\ t.m.start = st.m.start /\ t.m.declared = st.m.declared \cup F
      /\ t.m.has_data_count_section = st.m.has_data_count_section
      /\ t.m.min_data_segment_count_required = st.m.min_data_segment_count_required
      /\ t.m = [st.m EXCEPT !.declared = @ \cup F]
  BY <1>1 DEF IsState, IsModule
<1>3. Laid(t.m, Arrays)
  BY <1>2, LaidSame DEF IsState, IsModule
<1>4. IsModule(t.m)
  BY <1>2, <1>3 DEF IsState, IsModule
<1>5. IsState(t) /\ t.loc = st.loc /\ t.h.live = st.h.live
  BY <1>1, <1>4 DEF IsState
<1>6. t.h.bad = (st.h.bad \/ \E f \in F : f >= st.m.cap["declared_funcs"])
  BY <1>1
<1> QED BY <1>2, <1>5, <1>6 DEF SameArrays

LEMMA TypesCapFields ==
    ASSUME NEW st, IsState(st), NEW n \in Nat, NEW t, t = Step(st, CommitTypesCap(n))
    PROVE  /\ IsState(t) /\ t.loc = st.loc /\ t.h = st.h /\ SameArrays(t.m, st.m)
           /\ t.m.types_cap = n /\ t.m.start = st.m.start /\ t.m.declared = st.m.declared
           /\ t.m.has_data_count_section = st.m.has_data_count_section
           /\ t.m.min_data_segment_count_required = st.m.min_data_segment_count_required
<1>1. t = [m |-> [st.m EXCEPT !.types_cap = n], loc |-> st.loc, h |-> st.h]
  BY DEF Step, CommitTypesCap, IsState
<1>2. /\ t.m.cnt = st.m.cnt /\ t.m.ptr = st.m.ptr /\ t.m.cap = st.m.cap
      /\ t.m.own = st.m.own /\ t.m.ent = st.m.ent /\ t.m.types_cap = n
      /\ t.m.start = st.m.start /\ t.m.declared = st.m.declared
      /\ t.m.has_data_count_section = st.m.has_data_count_section
      /\ t.m.min_data_segment_count_required = st.m.min_data_segment_count_required
      /\ t.m = [st.m EXCEPT !.types_cap = n]
  BY <1>1 DEF IsState, IsModule
<1>3. Laid(t.m, Arrays)
  BY <1>2, LaidSame DEF IsState, IsModule
<1>4. IsModule(t.m)
  BY <1>2, <1>3 DEF IsState, IsModule
<1> QED BY <1>1, <1>2, <1>4 DEF IsState, SameArrays

LEMMA ArraysReplaced ==
    ASSUME NEW m, IsModule(m), NEW p, NEW c, NEW o, NEW e, NEW p2, NEW c2, NEW o2, NEW e2,
           NEW w, w = [m EXCEPT !.ptr = p, !.cap = c, !.own = o, !.ent = e]
    PROVE  [w EXCEPT !.ptr = p2, !.cap = c2, !.own = o2, !.ent = e2]
              = [m EXCEPT !.ptr = p2, !.cap = c2, !.own = o2, !.ent = e2]
<1>1. m = [cnt |-> m.cnt, ptr |-> m.ptr, cap |-> m.cap, own |-> m.own, ent |-> m.ent,
           types_cap |-> m.types_cap, declared |-> m.declared, start |-> m.start,
           has_data_count_section |-> m.has_data_count_section,
           min_data_segment_count_required |-> m.min_data_segment_count_required]
  BY DEF IsModule
<1> QED BY <1>1

\* g is f but for its value at a.
Over(g, f, a) == DOMAIN g = DOMAIN f /\ \A c \in DOMAIN f : c # a => g[c] = f[c]

LEMMA PutOver ==
    ASSUME NEW f, NEW a, NEW g, Over(g, f, a), NEW v
    PROVE  Put(g, a, v) = Put(f, a, v)
BY DEF Put, Over

\* A NULL array adopted from a local variable is an array like one just allocated.
LEMMA AdoptFields ==
    ASSUME NEW st, IsState(st), NEW a \in Arrays, st.m.ptr[a] = {}, NEW n \in Nat,
           NEW t, t = Step(st, Adopt(a, n))
    PROVE  /\ IsState(t) /\ t.loc.held = st.loc.held \ {ArrayBlock(a)} /\ SameArrays(t.loc, st.loc) /\ t.h = st.h
           /\ t.m.cnt = st.m.cnt /\ t.m.ptr = Put(st.m.ptr, a, Pointer(a)) /\ t.m.cap = Put(st.m.cap, a, n)
           /\ t.m.own = Put(st.m.own, a, Realloc(st.m.own[a], st.m.cap[a], n, Garbage.own))
           /\ t.m.ent = Put(st.m.ent, a, Realloc(st.m.ent[a], st.m.cap[a], n, Garbage.e))
           /\ SameRest(t.m, st.m)
<1> DEFINE w == Without(st.m, {a})
           o == Realloc(st.m.own[a], st.m.cap[a], n, Garbage.own)
           e == Realloc(st.m.ent[a], st.m.cap[a], n, Garbage.e)
<1>1. t = [m |-> Resized(w, a, n), loc |-> Holding(st.loc, st.loc.held \ Pointer(a)), h |-> st.h]
  BY DEF Step, Adopt, IsState, Holding
<1>2. DOMAIN o = 1..n /\ DOMAIN e = 1..n
  BY DEF Realloc
<1>3. /\ DOMAIN st.m.ptr = Arrays /\ DOMAIN st.m.cap = Arrays /\ DOMAIN st.m.own = Arrays
      /\ DOMAIN st.m.ent = Arrays /\ st.m.cap[a] = 0
  BY DEF IsState, IsModule, Laid
<1>4. /\ w.ptr = [c \in Arrays |-> IF c \in {a} THEN {} ELSE st.m.ptr[c]]
      /\ w.cap = [c \in Arrays |-> IF c \in {a} THEN 0 ELSE st.m.cap[c]]
      /\ w.own = [c \in Arrays |-> IF c \in {a} THEN [i \in 1..0 |-> {}] ELSE st.m.own[c]]
      /\ w.ent = [c \in Arrays |-> IF c \in {a} THEN [i \in 1..0 |-> {}] ELSE st.m.ent[c]]
      /\ w.cnt = st.m.cnt /\ SameRest(w, st.m)
      /\ w = [st.m EXCEPT !.ptr = w.ptr, !.cap = w.cap, !.own = w.own, !.ent = w.ent]
  BY <1>3 DEF Without, IsState, IsModule, SameRest
<1> HIDE DEF w
<1>5. /\ Put(w.ptr, a, Pointer(a)) = Put(st.m.ptr, a, Pointer(a))
      /\ Put(w.cap, a, n) = Put(st.m.cap, a, n)
      /\ Put(w.own, a, o) = Put(st.m.own, a, o)
      /\ Put(w.ent, a, e) = Put(st.m.ent, a, e)
  <2> HIDE DEF o, e
  <2>1. Over(w.ptr, st.m.ptr, a)
    BY <1>3, <1>4 DEF Over
  <2>2. Over(w.cap, st.m.cap, a)
    BY <1>3, <1>4 DEF Over
  <2>3. Over(w.own, st.m.own, a)
    BY <1>3, <1>4 DEF Over
  <2>4. Over(w.ent, st.m.ent, a)
    BY <1>3, <1>4 DEF Over
  <2> QED BY <2>1, <2>2, <2>3, <2>4, PutOver
<1>6. /\ Realloc(w.own[a], w.cap[a], n, Garbage.own) = o
      /\ Realloc(w.ent[a], w.cap[a], n, Garbage.e) = e
  <2>1. w.cap[a] = 0 /\ st.m.cap[a] = 0
    BY <1>3, <1>4
  <2> QED BY <2>1 DEF Realloc
<1>7. t.m = [w EXCEPT !.ptr = Put(w.ptr, a, Pointer(a)), !.cap = Put(w.cap, a, n),
                      !.own = Put(w.own, a, o), !.ent = Put(w.ent, a, e)]
  <2>1. t.m = Resized(w, a, n)
    BY <1>1
  <2> HIDE DEF o, e
  <2>2. ASSUME NEW o2, NEW e2,
               o2 = Realloc(w.own[a], w.cap[a], n, Garbage.own),
               e2 = Realloc(w.ent[a], w.cap[a], n, Garbage.e)
        PROVE  Resized(w, a, n) = [w EXCEPT !.ptr = Put(w.ptr, a, Pointer(a)), !.cap = Put(w.cap, a, n),
                                            !.own = Put(w.own, a, o2), !.ent = Put(w.ent, a, e2)]
    BY <2>2 DEF Resized
  <2> QED BY <2>1, <2>2, <1>6
<1> HIDE DEF o, e
<1>8. t.m = [st.m EXCEPT !.ptr = Put(st.m.ptr, a, Pointer(a)), !.cap = Put(st.m.cap, a, n),
                         !.own = Put(st.m.own, a, o), !.ent = Put(st.m.ent, a, e)]
  <2>1. PICK p, c, x, y : /\ p = Put(st.m.ptr, a, Pointer(a)) /\ c = Put(st.m.cap, a, n)
                          /\ x = Put(st.m.own, a, o) /\ y = Put(st.m.ent, a, e)
    OBVIOUS
  <2>2. t.m = [w EXCEPT !.ptr = p, !.cap = c, !.own = x, !.ent = y]
    BY <1>5, <1>7, <2>1
  <2>3. w = [st.m EXCEPT !.ptr = w.ptr, !.cap = w.cap, !.own = w.own, !.ent = w.ent]
    BY <1>4
  <2>4. t.m = [st.m EXCEPT !.ptr = p, !.cap = c, !.own = x, !.ent = y]
    <3>1. PICK m, v : m = st.m /\ v = w
      OBVIOUS
    <3>2. PICK wp, wc, wo, we : wp = w.ptr /\ wc = w.cap /\ wo = w.own /\ we = w.ent
      OBVIOUS
    <3>3. IsModule(m) /\ v = [m EXCEPT !.ptr = wp, !.cap = wc, !.own = wo, !.ent = we]
      BY <2>3, <3>1, <3>2 DEF IsState
    <3>4. [v EXCEPT !.ptr = p, !.cap = c, !.own = x, !.ent = y] = [m EXCEPT !.ptr = p, !.cap = c, !.own = x, !.ent = y]
      BY <3>3, ArraysReplaced
    <3> QED BY <2>2, <3>1, <3>4
  <2> QED BY <2>1, <2>4
<1>9. /\ t.m.cnt = st.m.cnt /\ t.m.ptr = Put(st.m.ptr, a, Pointer(a)) /\ t.m.cap = Put(st.m.cap, a, n)
      /\ t.m.own = Put(st.m.own, a, o) /\ t.m.ent = Put(st.m.ent, a, e)
      /\ SameRest(t.m, st.m)
  BY <1>8 DEF IsState, IsModule, SameRest
<1>10. Laid(t.m, Arrays)
  BY <1>2, <1>9, LaidResized DEF IsState, IsModule
<1>11. IsModule(t.m)
  BY <1>8, <1>9, <1>10 DEF IsState, IsModule, SameRest
<1>12. IsLocals(t.loc) /\ t.loc.held = st.loc.held \ {ArrayBlock(a)} /\ SameArrays(t.loc, st.loc)
  BY <1>1, LocalsHeld DEF IsState, Pointer
<1>13. t.h = st.h /\ IsState(t)
  BY <1>1, <1>11, <1>12 DEF IsState
<1> QED BY <1>9, <1>12, <1>13 DEF o, e

-----------------------------------------------------------------------------
(* What each step does to the owners of the blocks                           *)

LEMMA BlockFacts ==
    ASSUME NEW a, NEW i, NEW f
    PROVE  /\ Block(a, i, f)[1] = a /\ Block(a, i, f)[2] = i /\ Block(a, i, f)[3] = f
           /\ \A c, j, g : Block(a, i, f) = Block(c, j, g) <=> (a = c /\ i = j /\ f = g)
BY DEF Block

LEMMA ArrayBlockFacts ==
    ASSUME NEW a
    PROVE  /\ ArrayBlock(a)[1] = a /\ ArrayBlock(a)[2] = 0
           /\ \A c : ArrayBlock(a) = ArrayBlock(c) <=> a = c
BY DEF ArrayBlock, Block

\* Whether an export is a host function's depends on the functions only.
LEMMA HostFrame ==
    ASSUME NEW m, NEW m2, m2.ptr["functions"] = m.ptr["functions"],
           m2.cnt["func_imports"] = m.cnt["func_imports"], m2.cnt["functions"] = m.cnt["functions"],
           m2.ent["functions"] = m.ent["functions"],
           NEW i, m2.ent["exports"][i] = m.ent["exports"][i]
    PROVE  Host(m2, i) <=> Host(m, i)
BY DEF Host, IsHostExport, Entry

LEMMA HostNone ==
    ASSUME NEW m, m.ptr["functions"] = {}, NEW i
    PROVE  ~Host(m, i)
BY DEF Host, IsHostExport

LEMMA FreedFacts ==
    ASSUME NEW m, NEW a \in Arrays
    PROVE  Freed(m, a) = IF a \in FlatArrays THEN 0
                         ELSE IF a = "type_defs" THEN m.cnt["types"] ELSE m.cnt[a]
BY DEF Freed, FreedEntries

LEMMA FreedNat ==
    ASSUME NEW m, IsModule(m), NEW a \in Arrays
    PROVE  Freed(m, a) \in Nat
<1>1. "types" \in Arrays /\ m.cnt \in [Arrays -> Nat]
  BY DEF Arrays, IsModule, Laid
<1> QED BY <1>1, FreedFacts

\* Two states whose modules own the same entries own the same blocks.
LEMMA InModuleSame ==
    ASSUME NEW m, NEW m2, m2.ptr = m.ptr, m2.cap = m.cap,
           \A a \in Arrays : Freed(m2, a) = Freed(m, a),
           \A a \in Arrays : \A i \in 1..Freed(m, a) : Own(m2, a, i) = Own(m, a, i),
           KeptModule(m)
    PROVE  KeptModule(m2) /\ \A b : InModule(m2, b) <=> InModule(m, b)
<1>1. KeptModule(m2)
  BY DEF KeptModule
<1>2. \A b : InModule(m2, b) <=> InModule(m, b)
  BY DEF InModule
<1> QED BY <1>1, <1>2

LEMMA SoundSame ==
    ASSUME NEW st, Sound(st), NEW t, IsState(t), t.loc = st.loc, t.h = st.h, KeptModule(t.m),
           \A b : InModule(t.m, b) <=> InModule(st.m, b)
    PROVE  Sound(t)
BY DEF Sound

LEMMA SoundMore ==
    ASSUME NEW st, Sound(st), NEW t, IsState(t), t.loc = st.loc, KeptModule(t.m), NEW b, b \notin st.h.live,
           HeapMore(t.h, st.h, b),
           \A c : InModule(t.m, c) <=> (InModule(st.m, c) \/ c = b)
    PROVE  Sound(t)
<1>1. t.h.live = st.h.live \cup {b} /\ t.h.bad = st.h.bad
  BY DEF HeapMore
<1> QED BY <1>1 DEF Sound

LEMMA PutSlot ==
    ASSUME NEW f, NEW a \in DOMAIN f, NEW n, DOMAIN f[a] = 1..n, NEW i, i \in 1..n, NEW v,
           NEW g, g = Put(f, a, Put(f[a], i, v))
    PROVE  /\ g[a] = Put(f[a], i, v) /\ \A d \in DOMAIN f : d # a => g[d] = f[d]
           /\ g[a][i] = v /\ \A j \in 1..n : j # i => g[a][j] = f[a][j]
<1>1. g[a] = Put(f[a], i, v) /\ \A d \in DOMAIN f : d # a => g[d] = f[d]
  BY DEF Put
<1>2. g[a][i] = v
  BY <1>1 DEF Put
<1>3. ASSUME NEW j \in 1..n, j # i PROVE g[a][j] = f[a][j]
  BY <1>1, <1>3 DEF Put
<1> QED BY <1>1, <1>2, <1>3

\* An entry that is not freed yet is started, or counted when it owns nothing.
CanBegin(m, a, i, c) ==
    /\ a \in Arrays /\ a # "functions" /\ a \notin ImportArrays /\ i \in 1..m.cap[a] /\ c \in {0, 1}
    /\ a \notin FlatArrays => i > Freed(m, a)
    /\ c = 1 => a \notin FlatArrays /\ a # "type_defs" /\ i = m.cnt[a] + 1
    /\ (c = 1 /\ a = "types" /\ m.ptr["type_defs"] # {}) => i <= m.cap["type_defs"] /\ m.own["type_defs"][i] = {}

LEMMA BeginSound ==
    ASSUME NEW st, Sound(st), NEW a, NEW i, NEW e, NEW c, CanBegin(st.m, a, i, c),
           NEW t, t = Step(st, Begin(a, i, e, c))
    PROVE  Sound(t)
<1>0. /\ a \in Arrays /\ a # "functions" /\ a \notin ImportArrays /\ i \in 1..st.m.cap[a] /\ c \in {0, 1}
      /\ a \notin FlatArrays => i > Freed(st.m, a)
      /\ c = 1 => a \notin FlatArrays /\ a # "type_defs" /\ i = st.m.cnt[a] + 1
      /\ (c = 1 /\ a = "types" /\ st.m.ptr["type_defs"] # {}) =>
           i <= st.m.cap["type_defs"] /\ st.m.own["type_defs"][i] = {}
  BY DEF CanBegin
<1> USE <1>0
<1>1. IsState(st) /\ KeptModule(st.m)
  BY DEF Sound
<1>2. /\ IsState(t) /\ t.loc = st.loc /\ t.h = st.h
      /\ t.m.cnt = Bump(st.m.cnt, a, c)
      /\ t.m.ptr = st.m.ptr /\ t.m.cap = st.m.cap
      /\ t.m.own = Put(st.m.own, a, Put(st.m.own[a], i, {}))
      /\ t.m.ent = Put(st.m.ent, a, Put(st.m.ent[a], i, e))
  BY <1>1, BeginFields
<1>3. PICK m, m2 : m = st.m /\ m2 = t.m
  OBVIOUS
<1>r. /\ m2.cnt = Bump(m.cnt, a, c)
      /\ m2.ptr = m.ptr /\ m2.cap = m.cap
      /\ m2.own = Put(m.own, a, Put(m.own[a], i, {}))
      /\ m2.ent = Put(m.ent, a, Put(m.ent[a], i, e))
  BY <1>2, <1>3
<1>s. /\ i \in 1..m.cap[a] /\ (a \notin FlatArrays => i > Freed(m, a))
      /\ c = 1 => a \notin FlatArrays /\ a # "type_defs" /\ i = m.cnt[a] + 1
      /\ (c = 1 /\ a = "types" /\ m.ptr["type_defs"] # {}) => i <= m.cap["type_defs"] /\ m.own["type_defs"][i] = {}
  BY <1>3
<1>4. /\ IsModule(m) /\ KeptModule(m) /\ m.cnt \in [Arrays -> Nat] /\ m.cap \in [Arrays -> Nat]
      /\ DOMAIN m.own = Arrays /\ DOMAIN m.ent = Arrays
      /\ \A d \in Arrays : DOMAIN m.own[d] = 1..m.cap[d] /\ DOMAIN m.ent[d] = 1..m.cap[d]
  BY <1>1, <1>3 DEF IsState, IsModule, Laid
<1>5. /\ m2.own[a] = Put(m.own[a], i, {}) /\ m2.ent[a] = Put(m.ent[a], i, e)
      /\ \A d \in Arrays : d # a => m2.own[d] = m.own[d] /\ m2.ent[d] = m.ent[d]
      /\ m2.own[a][i] = {}
      /\ \A j \in 1..m.cap[a] : j # i => m2.own[a][j] = m.own[a][j] /\ m2.ent[a][j] = m.ent[a][j]
  <2>1. /\ DOMAIN m.own = Arrays /\ DOMAIN m.ent = Arrays
        /\ m2.own = Put(m.own, a, Put(m.own[a], i, {})) /\ m2.ent = Put(m.ent, a, Put(m.ent[a], i, e))
        /\ i \in 1..m.cap[a] /\ DOMAIN m.own[a] = 1..m.cap[a] /\ DOMAIN m.ent[a] = 1..m.cap[a]
    BY <1>r, <1>s, <1>4
  <2>2. /\ m2.own[a] = Put(m.own[a], i, {}) /\ \A d \in Arrays : d # a => m2.own[d] = m.own[d]
        /\ m2.own[a][i] = {} /\ \A j \in 1..m.cap[a] : j # i => m2.own[a][j] = m.own[a][j]
    BY <2>1, PutSlot
  <2>3. /\ m2.ent[a] = Put(m.ent[a], i, e) /\ \A d \in Arrays : d # a => m2.ent[d] = m.ent[d]
        /\ \A j \in 1..m.cap[a] : j # i => m2.ent[a][j] = m.ent[a][j]
    BY <2>1, PutSlot
  <2> QED BY <2>2, <2>3
<1>6. /\ m2.ptr["functions"] = m.ptr["functions"] /\ m2.cnt["func_imports"] = m.cnt["func_imports"]
      /\ m2.cnt["functions"] = m.cnt["functions"] /\ m2.ent["functions"] = m.ent["functions"]
      /\ \A j \in 1..m.cap["exports"] : (a = "exports" => j # i) => m2.ent["exports"][j] = m.ent["exports"][j]
  <2>1. "functions" \in Arrays /\ "func_imports" \in ImportArrays /\ "func_imports" \in Arrays /\ "exports" \in Arrays
    BY DEF Arrays, ImportArrays
  <2>2. /\ m2.ptr["functions"] = m.ptr["functions"] /\ m2.cnt["func_imports"] = m.cnt["func_imports"]
        /\ m2.cnt["functions"] = m.cnt["functions"] /\ m2.ent["functions"] = m.ent["functions"]
    BY <2>1, <1>r, <1>4, <1>5 DEF Bump
  <2> QED BY <2>1, <2>2, <1>5
<1>7. \A j \in 1..m.cap["exports"] : (a = "exports" => j # i) => (Host(m2, j) <=> Host(m, j))
  BY <1>6, HostFrame
<1>8. \A d \in Arrays : Freed(m, d) \in Nat
  BY <1>4, FreedNat
<1>9. \A d \in Arrays : Freed(m2, d) = IF c = 1 /\ (d = a \/ (a = "types" /\ d = "type_defs")) THEN i ELSE Freed(m, d)
  <2>1. ASSUME NEW d \in Arrays
        PROVE  Freed(m2, d) = IF c = 1 /\ (d = a \/ (a = "types" /\ d = "type_defs")) THEN i ELSE Freed(m, d)
    <3>1. /\ Freed(m, d) = IF d \in FlatArrays THEN 0 ELSE IF d = "type_defs" THEN m.cnt["types"] ELSE m.cnt[d]
          /\ Freed(m2, d) = IF d \in FlatArrays THEN 0 ELSE IF d = "type_defs" THEN m2.cnt["types"] ELSE m2.cnt[d]
      BY <2>1, FreedFacts
    <3>2. "types" \in Arrays /\ "type_defs" \notin FlatArrays /\ "types" \notin FlatArrays
      BY DEF Arrays, FlatArrays
    <3>3. m2.cnt = Bump(m.cnt, a, c) /\ (c = 1 => i = m.cnt[a] + 1)
      BY <1>2, <1>3
    <3>4. CASE c = 1
      BY <3>1, <3>2, <3>3, <3>4, <1>3, <1>4 DEF Bump
    <3>5. CASE c = 0
      <4>1. m.cnt \in [Arrays -> Nat] /\ a \in Arrays
        BY <1>3, <1>4 DEF IsModule, Laid
      <4>2. m2.cnt = m.cnt
        BY <3>3, <3>5, <4>1 DEF Bump
      <4> QED BY <3>1, <3>5, <4>2
    <3> QED BY <3>4, <3>5
  <2> QED BY <2>1
<1>10. ASSUME NEW d \in Arrays, m.ptr[d] # {}, NEW j \in 1..Freed(m2, d)
       PROVE  j <= m.cap[d] /\ Own(m2, d, j) = IF j <= Freed(m, d) THEN Own(m, d, j) ELSE {}
  <2>1. Freed(m, d) <= m.cap[d] /\ Freed(m, d) \in Nat /\ m.cap[d] \in Nat /\ j \in Nat /\ j >= 1
    <3>1. Freed(m2, d) \in Nat
      BY <1>8, <1>9
    <3> QED BY <1>4, <1>8, <1>10, <3>1 DEF KeptModule
  <2>2. d = "exports" /\ d = a => Freed(m, d) < i
    BY <1>3 DEF FlatArrays
  <2>3. CASE j <= Freed(m, d)
    <3>1. j \in 1..m.cap[d] /\ (d = a => (j # i \/ d \in FlatArrays))
      BY <2>1, <2>3, <1>3
    <3>2. d \notin FlatArrays
      BY <2>1, <2>3, FreedFacts
    <3>3. m2.own[d][j] = m.own[d][j]
      BY <3>1, <3>2, <1>5
    <3>4. d = "exports" => (Host(m2, j) <=> Host(m, j))
      BY <3>1, <3>2, <1>7
    <3> QED BY <3>1, <3>3, <3>4, <2>3 DEF Own
  <2>4. CASE ~(j <= Freed(m, d))
    <3>1. c = 1 /\ (d = a \/ (a = "types" /\ d = "type_defs")) /\ Freed(m2, d) = i
      BY <1>9, <2>1, <2>4
    <3>2. j = i
      <4>1. Freed(m, d) = i - 1
        <5>1. i = m.cnt[a] + 1 /\ a \notin FlatArrays /\ a # "type_defs" /\ m.cnt[a] \in Nat
          BY <3>1, <1>s, <1>4
        <5>2. Freed(m, d) = m.cnt[a]
          BY <3>1, <5>1, FreedFacts DEF FlatArrays
        <5> QED BY <5>1, <5>2
      <4> QED BY <4>1, <3>1, <2>1, <2>4, <1>3
    <3>3. m2.own[d][j] = {} /\ j <= m.cap[d]
      <4>1. CASE d = a
        BY <4>1, <3>2, <1>s, <1>5, <1>4
      <4>2. CASE d # a /\ a = "types" /\ d = "type_defs"
        BY <4>2, <3>1, <3>2, <1>s, <1>5, <1>10
      <4> QED BY <3>1, <4>1, <4>2
    <3> QED BY <3>3, <2>4 DEF Own
  <2> QED BY <2>3, <2>4
<1>11. m2.ptr = m.ptr /\ m2.cap = m.cap
  BY <1>2, <1>3
<1>12. KeptModule(m2)
  <2>1. ASSUME NEW d \in Arrays, m2.ptr[d] # {}
        PROVE  Freed(m2, d) <= m2.cap[d] /\ \A j \in 1..Freed(m2, d) : \A b \in Own(m2, d, j) : b[1] = d /\ b[2] = j
    <3>1. Freed(m2, d) \in Nat /\ m.cap[d] \in Nat
      BY <1>8, <1>9, <1>4
    <3>2. Freed(m2, d) <= m2.cap[d]
      BY <3>1, <1>10, <1>11, <2>1
    <3>3. ASSUME NEW j \in 1..Freed(m2, d), NEW b \in Own(m2, d, j) PROVE b[1] = d /\ b[2] = j
      <4>1. j <= Freed(m, d) /\ b \in Own(m, d, j)
        BY <1>10, <1>11, <2>1, <3>3
      <4>2. j \in 1..Freed(m, d)
        BY <4>1, <3>1, <1>8
      <4>3. KeptModule(m) /\ m.ptr[d] # {}
        BY <1>4, <1>11, <2>1
      <4> QED BY <4>1, <4>2, <4>3 DEF KeptModule
    <3> QED BY <3>2, <3>3
  <2> QED BY <2>1 DEF KeptModule
<1>13. \A d \in Arrays : Freed(m, d) <= Freed(m2, d)
  <2>1. ASSUME NEW d \in Arrays PROVE Freed(m, d) <= Freed(m2, d)
    <3>1. Freed(m, d) \in Nat
      BY <1>8
    <3>2. CASE c = 1 /\ (d = a \/ (a = "types" /\ d = "type_defs"))
      <4>1. i = m.cnt[a] + 1 /\ a \notin FlatArrays /\ a # "type_defs" /\ m.cnt[a] \in Nat
        BY <3>2, <1>s, <1>4
      <4>2. Freed(m, d) = m.cnt[a]
        BY <3>2, <4>1, FreedFacts DEF FlatArrays
      <4>3. Freed(m2, d) = i
        BY <3>2, <1>9
      <4> QED BY <4>1, <4>2, <4>3
    <3>3. CASE ~(c = 1 /\ (d = a \/ (a = "types" /\ d = "type_defs")))
      BY <3>1, <3>3, <1>9
    <3> QED BY <3>2, <3>3
  <2> QED BY <2>1
<1>14. ASSUME NEW b PROVE InModule(m2, b) <=> InModule(m, b)
  <2>1. ASSUME NEW d, d = b[1], d \in Arrays, m.ptr[d] # {}
        PROVE  (b[2] \in 1..Freed(m2, d) /\ b \in Own(m2, d, b[2])) <=> (b[2] \in 1..Freed(m, d) /\ b \in Own(m, d, b[2]))
    <3>1. Freed(m, d) \in Nat /\ Freed(m2, d) \in Nat /\ Freed(m, d) <= Freed(m2, d)
      BY <2>1, <1>8, <1>9, <1>13
    <3>2. b[2] \in 1..Freed(m2, d) => Own(m2, d, b[2]) = IF b[2] <= Freed(m, d) THEN Own(m, d, b[2]) ELSE {}
      BY <2>1, <1>10
    <3> QED BY <3>1, <3>2
  <2> QED BY <2>1, <1>11 DEF InModule
<1> QED BY <1>2, <1>3, <1>12, <1>14, SoundSame

LEMMA GivenModule ==
    ASSUME NEW m, IsModule(m), KeptModule(m), NEW a \in Arrays, m.ptr[a] # {},
           a = "exports" => m.ptr["functions"] = {},
           NEW i \in 1..Freed(m, a), NEW f, NEW b, b = Block(a, i, f),
           NEW m2, m2.cnt = m.cnt, m2.ptr = m.ptr, m2.cap = m.cap, m2.ent = m.ent,
           m2.own = Given(m.own, b)
    PROVE  KeptModule(m2) /\ \A c : InModule(m2, c) <=> (InModule(m, c) \/ c = b)
<1>1. b[1] = a /\ b[2] = i
  BY BlockFacts
<1>2. /\ m.cap \in [Arrays -> Nat] /\ DOMAIN m.own = Arrays /\ DOMAIN m.own[a] = 1..m.cap[a]
      /\ \A d \in Arrays : Freed(m, d) \in Nat /\ Freed(m2, d) = Freed(m, d)
      /\ \A d \in Arrays : m.ptr[d] # {} => Freed(m, d) <= m.cap[d]
  <2>1. \A d \in Arrays : Freed(m2, d) = Freed(m, d)
    BY FreedFacts
  <2> QED BY <2>1, FreedNat DEF IsModule, Laid, KeptModule
<1>3. m2.own = Put(m.own, a, Put(m.own[a], i, m.own[a][i] \cup {b})) /\ i \in 1..m.cap[a]
  BY <1>1, <1>2 DEF Given
<1>4. /\ \A d \in Arrays : d # a => m2.own[d] = m.own[d]
      /\ m2.own[a][i] = m.own[a][i] \cup {b}
      /\ \A j \in 1..m.cap[a] : j # i => m2.own[a][j] = m.own[a][j]
  <2>1. PICK v : v = m.own[a][i] \cup {b}
    OBVIOUS
  <2>2. m2.own = Put(m.own, a, Put(m.own[a], i, v)) /\ i \in 1..m.cap[a]
    BY <1>3, <2>1
  <2>3. DOMAIN m.own = Arrays /\ DOMAIN m.own[a] = 1..m.cap[a]
    BY <1>2
  <2>4. /\ \A d \in Arrays : d # a => m2.own[d] = m.own[d]
        /\ m2.own[a][i] = v
        /\ \A j \in 1..m.cap[a] : j # i => m2.own[a][j] = m.own[a][j]
    BY <2>2, <2>3, PutSlot
  <2> QED BY <2>1, <2>4
<1>5. \A j : Host(m2, j) <=> Host(m, j)
  BY HostFrame
<1>6. a = "exports" => \A j : ~Host(m, j)
  BY HostNone
<1>7. ASSUME NEW d \in Arrays, m.ptr[d] # {}, NEW j \in 1..Freed(m, d)
      PROVE  Own(m2, d, j) = IF d = a /\ j = i THEN Own(m, d, j) \cup {b} ELSE Own(m, d, j)
  <2>1. j \in 1..m.cap[d]
    BY <1>2, <1>7
  <2>2. CASE d = a /\ j = i
    <3>1. Own(m2, d, j) = m2.own[d][j] /\ Own(m, d, j) = m.own[d][j]
      BY <2>2, <1>5, <1>6 DEF Own
    <3> QED BY <3>1, <2>2, <1>4
  <2>3. CASE ~(d = a /\ j = i)
    <3>1. m2.own[d][j] = m.own[d][j]
      BY <2>1, <2>3, <1>4
    <3> QED BY <3>1, <2>3, <1>5 DEF Own
  <2> QED BY <2>2, <2>3
<1>8. KeptModule(m2)
  <2>1. ASSUME NEW d \in Arrays, m2.ptr[d] # {}, NEW j \in 1..Freed(m2, d), NEW c \in Own(m2, d, j)
        PROVE  c[1] = d /\ c[2] = j
    <3>1. j \in 1..Freed(m, d) /\ m.ptr[d] # {}
      BY <1>2, <2>1
    <3>2. c \in Own(m, d, j) \/ (c = b /\ d = a /\ j = i)
      BY <3>1, <1>7, <2>1
    <3>3. c \in Own(m, d, j) => c[1] = d /\ c[2] = j
      BY <3>1 DEF KeptModule
    <3> QED BY <3>2, <3>3, <1>1
  <2>2. \A d \in Arrays : m2.ptr[d] # {} => Freed(m2, d) <= m2.cap[d]
    BY <1>2
  <2> QED BY <2>1, <2>2 DEF KeptModule
<1>9. ASSUME NEW c PROVE InModule(m2, c) <=> (InModule(m, c) \/ c = b)
  <2>1. c = b => InModule(m2, c)
    <3>1. b \in Own(m2, a, i) /\ i \in 1..Freed(m2, a)
      BY <1>2, <1>7
    <3> QED BY <3>1, <1>1 DEF InModule
  <2>2. ASSUME c # b PROVE InModule(m2, c) <=> InModule(m, c)
    <3>1. ASSUME NEW d, d = c[1], d \in Arrays, m.ptr[d] # {}
          PROVE  (c[2] \in 1..Freed(m2, d) /\ c \in Own(m2, d, c[2])) <=> (c[2] \in 1..Freed(m, d) /\ c \in Own(m, d, c[2]))
      <4>1. Freed(m2, d) = Freed(m, d)
        BY <1>2, <3>1
      <4>2. ASSUME NEW j \in 1..Freed(m, d) PROVE c \in Own(m2, d, j) <=> c \in Own(m, d, j)
        BY <1>7, <2>2, <3>1
      <4> QED BY <4>1, <4>2
    <3> QED BY <3>1 DEF InModule
  <2> QED BY <2>1, <2>2
<1> QED BY <1>8, <1>9

\* A new block for an entry that is freed with the module.
LEMMA EntrySound ==
    ASSUME NEW st, Sound(st), NEW a \in Arrays, st.m.ptr[a] # {},
           a = "exports" => st.m.ptr["functions"] = {},
           NEW i \in 1..Freed(st.m, a), NEW f, Block(a, i, f) \notin st.h.live,
           NEW t, t = Step(st, ForEntry(Block(a, i, f)))
    PROVE  Sound(t)
<1>1. PICK b : b = Block(a, i, f)
  OBVIOUS
<1>2. IsState(st) /\ KeptModule(st.m) /\ IsModule(st.m) /\ b[1] \in Arrays
  BY <1>1, BlockFacts DEF Sound, IsState
<1>3. /\ IsState(t) /\ t.loc = st.loc
      /\ HeapMore(t.h, st.h, b)
      /\ t.m.cnt = st.m.cnt /\ t.m.ptr = st.m.ptr /\ t.m.cap = st.m.cap
      /\ t.m.own = Given(st.m.own, b) /\ t.m.ent = st.m.ent
  BY <1>1, <1>2, EntryFields
<1>4. KeptModule(t.m) /\ \A c : InModule(t.m, c) <=> (InModule(st.m, c) \/ c = b)
  BY <1>1, <1>2, <1>3, GivenModule
<1> QED BY <1>1, <1>3, <1>4, SoundMore

\* A block of the handler becomes an entry's.
LEMMA TakeSound ==
    ASSUME NEW st, Sound(st), NEW a \in Arrays, st.m.ptr[a] # {},
           a = "exports" => st.m.ptr["functions"] = {},
           NEW i \in 1..Freed(st.m, a), NEW f, Block(a, i, f) \in st.loc.held,
           NEW t, t = Step(st, Take(Block(a, i, f)))
    PROVE  Sound(t)
<1>1. PICK b : b = Block(a, i, f)
  OBVIOUS
<1>2. IsState(st) /\ KeptModule(st.m) /\ IsModule(st.m) /\ b[1] \in Arrays
  BY <1>1, BlockFacts DEF Sound, IsState
<1>3. /\ IsState(t) /\ t.loc.held = st.loc.held \ {b} /\ SameArrays(t.loc, st.loc) /\ t.h = st.h
      /\ t.m.cnt = st.m.cnt /\ t.m.ptr = st.m.ptr /\ t.m.cap = st.m.cap
      /\ t.m.own = Given(st.m.own, b) /\ t.m.ent = st.m.ent
  BY <1>1, <1>2, TakeFields
<1>4. KeptModule(t.m) /\ \A c : InModule(t.m, c) <=> (InModule(st.m, c) \/ c = b)
  BY <1>1, <1>2, <1>3, GivenModule
<1>6. KeptLocal(t.loc) /\ \A c : InLocal(t.loc, c) <=> InLocal(st.loc, c)
  BY <1>3 DEF Sound, SameArrays, KeptLocal, InLocal
<1> QED BY <1>1, <1>3, <1>4, <1>6 DEF Sound

LEMMA LocalSound ==
    ASSUME NEW st, Sound(st), NEW b, b \notin st.h.live, NEW t, t = Step(st, ForLocal(b))
    PROVE  Sound(t)
<1>1. IsState(st)
  BY DEF Sound
<1>2. /\ IsState(t) /\ t.loc.held = st.loc.held \cup {b} /\ SameArrays(t.loc, st.loc) /\ t.m = st.m
      /\ HeapMore(t.h, st.h, b)
  BY <1>1, LocalFields
<1>4. KeptLocal(t.loc) /\ \A c : InLocal(t.loc, c) <=> InLocal(st.loc, c)
  BY <1>2 DEF Sound, SameArrays, KeptLocal, InLocal
<1> QED BY <1>2, <1>4 DEF Sound, HeapMore

LEMMA DropSound ==
    ASSUME NEW st, Sound(st), NEW b, b \in st.loc.held, NEW t, t = Step(st, Drop(b))
    PROVE  Sound(t)
<1>1. IsState(st)
  BY DEF Sound
<1>2. /\ IsState(t) /\ t.loc.held = st.loc.held \ {b} /\ SameArrays(t.loc, st.loc) /\ t.m = st.m
      /\ t.h.live = st.h.live \ {b} /\ t.h.bad = (st.h.bad \/ b \notin st.h.live)
  BY <1>1, DropFields
<1>4. KeptLocal(t.loc) /\ \A c : InLocal(t.loc, c) <=> InLocal(st.loc, c)
  BY <1>2 DEF Sound, SameArrays, KeptLocal, InLocal
<1>5. b \in st.h.live
  BY DEF Sound
<1>6. t.h.bad = FALSE /\ t.h.live = st.h.live \ {b}
  <2>1. st.h.bad = FALSE
    BY DEF Sound
  <2> QED BY <2>1, <1>2, <1>5
<1> QED BY <1>2, <1>4, <1>6 DEF Sound

\* An array that has no entries to free yet, or keeps those it has, is (re)allocated.
LEMMA ResizedModule ==
    ASSUME NEW m, IsModule(m), KeptModule(m), NEW a \in Arrays, NEW n \in Nat, Freed(m, a) <= n,
           m.ptr[a] = {} => Freed(m, a) = 0,
           NEW m2, m2.cnt = m.cnt, m2.ptr = Put(m.ptr, a, Pointer(a)), m2.cap = Put(m.cap, a, n),
           m2.own = Put(m.own, a, Realloc(m.own[a], m.cap[a], n, Garbage.own)),
           m2.ent = Put(m.ent, a, Realloc(m.ent[a], m.cap[a], n, Garbage.e)),
           a = "functions" => \A j \in 1..Freed(m, "exports") : Host(m2, j) <=> Host(m, j)
    PROVE  KeptModule(m2) /\ \A c : InModule(m2, c) <=> (InModule(m, c) \/ c = ArrayBlock(a))
<1> DEFINE o == Realloc(m.own[a], m.cap[a], n, Garbage.own)
           e == Realloc(m.ent[a], m.cap[a], n, Garbage.e)
<1>1. /\ m.cap \in [Arrays -> Nat] /\ DOMAIN m.own = Arrays /\ DOMAIN m.ptr = Arrays /\ DOMAIN m.ent = Arrays
      /\ \A d \in Arrays : Freed(m, d) \in Nat /\ Freed(m2, d) = Freed(m, d)
      /\ \A d \in Arrays : m.ptr[d] # {} => Freed(m, d) <= m.cap[d]
  <2>1. \A d \in Arrays : Freed(m2, d) = Freed(m, d)
    BY FreedFacts
  <2> QED BY <2>1, FreedNat DEF IsModule, Laid, KeptModule
<1>2. \A i \in 1..n : i <= m.cap[a] => o[i] = m.own[a][i] /\ e[i] = m.ent[a][i]
  BY DEF Realloc
<1>3. m2.own = Put(m.own, a, o) /\ m2.ent = Put(m.ent, a, e)
  OBVIOUS
<1> HIDE DEF o, e
<1>4. /\ m2.own[a] = o /\ m2.ent[a] = e /\ m2.ptr[a] = Pointer(a) /\ m2.cap[a] = n
      /\ \A d \in Arrays : d # a => m2.own[d] = m.own[d] /\ m2.ent[d] = m.ent[d]
                                    /\ m2.ptr[d] = m.ptr[d] /\ m2.cap[d] = m.cap[d]
  BY <1>1, <1>3 DEF Put
<1>5. ASSUME NEW d \in Arrays, NEW j \in 1..Freed(m, d)
      PROVE  m2.own[d][j] = m.own[d][j] /\ m2.ent[d][j] = m.ent[d][j]
  <2>1. CASE d = a
    <3>1. m.ptr[a] # {} /\ j <= m.cap[a] /\ j \in 1..n
      BY <2>1, <1>1, <1>5
    <3> QED BY <3>1, <2>1, <1>2, <1>4
  <2>2. CASE d # a
    BY <2>2, <1>4
  <2> QED BY <2>1, <2>2
<1>6. \A j \in 1..Freed(m, "exports") : Host(m2, j) <=> Host(m, j)
  <2>1. CASE a = "functions"
    BY <2>1
  <2>2. CASE a # "functions"
    <3>1. "functions" \in Arrays /\ "exports" \in Arrays
      BY DEF Arrays
    <3>2. m2.ptr["functions"] = m.ptr["functions"] /\ m2.ent["functions"] = m.ent["functions"]
      BY <3>1, <2>2, <1>4
    <3>3. \A j \in 1..Freed(m, "exports") : m2.ent["exports"][j] = m.ent["exports"][j]
      BY <3>1, <1>5
    <3> QED BY <3>2, <3>3, HostFrame
  <2> QED BY <2>1, <2>2
<1>7. \A d \in Arrays : \A j \in 1..Freed(m, d) : Own(m2, d, j) = Own(m, d, j)
  BY <1>5, <1>6 DEF Own
<1>8. KeptModule(m2)
  <2>1. ASSUME NEW d \in Arrays, m2.ptr[d] # {}, NEW j \in 1..Freed(m2, d), NEW c \in Own(m2, d, j)
        PROVE  c[1] = d /\ c[2] = j
    <3>1. j \in 1..Freed(m, d) /\ m.ptr[d] # {}
      <4>1. Freed(m2, d) = Freed(m, d) /\ Freed(m, d) \in Nat
        BY <1>1
      <4>2. j \in 1..Freed(m, d) /\ Freed(m, d) # 0
        BY <4>1, <2>1
      <4>3. CASE d = a
        BY <4>2, <4>3
      <4>4. CASE d # a
        BY <4>2, <4>4, <1>4, <2>1
      <4> QED BY <4>3, <4>4
    <3>2. c \in Own(m, d, j)
      BY <3>1, <1>7, <2>1
    <3> QED BY <3>1, <3>2 DEF KeptModule
  <2>2. \A d \in Arrays : m2.ptr[d] # {} => Freed(m2, d) <= m2.cap[d]
    BY <1>1, <1>4
  <2> QED BY <2>1, <2>2 DEF KeptModule
<1>9. ASSUME NEW c PROVE InModule(m2, c) <=> (InModule(m, c) \/ c = ArrayBlock(a))
  <2>1. c = ArrayBlock(a) => InModule(m2, c)
    BY <1>4, ArrayBlockFacts DEF InModule, Pointer
  <2>2. ASSUME c # ArrayBlock(a) PROVE InModule(m2, c) <=> InModule(m, c)
    <3>1. ASSUME NEW d, d = c[1], d \in Arrays, NEW j, j = c[2]
          PROVE  (m2.ptr[d] # {} /\ (c = ArrayBlock(d) \/ (j \in 1..Freed(m2, d) /\ c \in Own(m2, d, j))))
                 <=> (m.ptr[d] # {} /\ (c = ArrayBlock(d) \/ (j \in 1..Freed(m, d) /\ c \in Own(m, d, j))))
      <4>1. Freed(m2, d) = Freed(m, d) /\ Freed(m, d) \in Nat
        BY <1>1, <3>1
      <4>2. j \in 1..Freed(m, d) => Own(m2, d, j) = Own(m, d, j)
        BY <1>7, <3>1
      <4>3. CASE d # a
        BY <4>1, <4>2, <4>3, <1>4, <3>1
      <4>4. CASE d = a
        <5>1. m2.ptr[d] # {} /\ c # ArrayBlock(d)
          BY <4>4, <1>4, <2>2 DEF Pointer
        <5>2. m.ptr[d] = {} => ~(j \in 1..Freed(m, d))
          BY <4>1, <4>4
        <5> QED BY <5>1, <5>2, <4>1, <4>2
      <4> QED BY <4>3, <4>4
    <3> QED BY <3>1 DEF InModule
  <2> QED BY <2>1, <2>2
<1> QED BY <1>8, <1>9

LEMMA ResizeSound ==
    ASSUME NEW st, Sound(st), NEW a \in Arrays, NEW n \in Nat, Freed(st.m, a) <= n,
           st.m.ptr[a] = {} => Freed(st.m, a) = 0 /\ ArrayBlock(a) \notin st.h.live,
           NEW t, t = Step(st, Resize(a, n)),
           a = "functions" => \A j \in 1..Freed(st.m, "exports") : Host(t.m, j) <=> Host(st.m, j)
    PROVE  Sound(t)
<1>1. IsState(st) /\ KeptModule(st.m) /\ IsModule(st.m) /\ st.h.bad = FALSE
  BY DEF Sound, IsState
<1>2. /\ IsState(t) /\ t.loc = st.loc
      /\ HeapMore(t.h, st.h, ArrayBlock(a))
      /\ t.m.cnt = st.m.cnt /\ t.m.ptr = Put(st.m.ptr, a, Pointer(a)) /\ t.m.cap = Put(st.m.cap, a, n)
      /\ t.m.own = Put(st.m.own, a, Realloc(st.m.own[a], st.m.cap[a], n, Garbage.own))
      /\ t.m.ent = Put(st.m.ent, a, Realloc(st.m.ent[a], st.m.cap[a], n, Garbage.e))
  BY <1>1, ResizeFields
<1>3. KeptModule(t.m) /\ \A c : InModule(t.m, c) <=> (InModule(st.m, c) \/ c = ArrayBlock(a))
  <2>1. ASSUME NEW m, m = st.m, NEW m2, m2 = t.m
        PROVE  KeptModule(m2) /\ \A c : InModule(m2, c) <=> (InModule(m, c) \/ c = ArrayBlock(a))
    <3>1. /\ m2.cnt = m.cnt /\ m2.ptr = Put(m.ptr, a, Pointer(a)) /\ m2.cap = Put(m.cap, a, n)
          /\ m2.own = Put(m.own, a, Realloc(m.own[a], m.cap[a], n, Garbage.own))
          /\ m2.ent = Put(m.ent, a, Realloc(m.ent[a], m.cap[a], n, Garbage.e))
      BY <1>2, <2>1
    <3>2. /\ IsModule(m) /\ KeptModule(m) /\ Freed(m, a) <= n /\ (m.ptr[a] = {} => Freed(m, a) = 0)
          /\ a = "functions" => \A j \in 1..Freed(m, "exports") : Host(m2, j) <=> Host(m, j)
      BY <1>1, <2>1
    <3> QED BY <3>1, <3>2, ResizedModule
  <2> QED BY <2>1
<1>4. CASE st.m.ptr[a] = {}
  BY <1>2, <1>3, <1>4, SoundMore
<1>5. CASE st.m.ptr[a] # {}
  <2>1. InModule(st.m, ArrayBlock(a))
    BY <1>5, ArrayBlockFacts DEF InModule
  <2>2. \A c : InModule(t.m, c) <=> InModule(st.m, c)
    BY <2>1, <1>3
  <2>3. t.h = st.h
    <3>1. ArrayBlock(a) \in st.h.live /\ st.h = [live |-> st.h.live, bad |-> st.h.bad]
      BY <2>1 DEF Sound, IsState
    <3>2. st.h.live \cup {ArrayBlock(a)} = st.h.live
      BY <3>1
    <3>3. t.h = [live |-> t.h.live, bad |-> t.h.bad]
      BY <1>2 DEF IsState
    <3> QED BY <3>1, <3>2, <3>3, <1>2 DEF HeapMore
  <2> QED BY <2>2, <2>3, <1>2, <1>3, SoundSame
<1> QED BY <1>4, <1>5

\* An array of the module adopted from the handler.
LEMMA AdoptSound ==
    ASSUME NEW st, Sound(st), NEW a \in Arrays, a \in FlatArrays, NEW n \in Nat, st.m.ptr[a] = {},
           ArrayBlock(a) \in st.loc.held, NEW t, t = Step(st, Adopt(a, n))
    PROVE  Sound(t)
<1>1. IsState(st) /\ KeptModule(st.m) /\ IsModule(st.m) /\ st.m.cap[a] = 0
  BY DEF Sound, IsState, IsModule, Laid
<1>2. /\ IsState(t) /\ t.loc.held = st.loc.held \ {ArrayBlock(a)} /\ SameArrays(t.loc, st.loc) /\ t.h = st.h
      /\ t.m.cnt = st.m.cnt /\ t.m.ptr = Put(st.m.ptr, a, Pointer(a)) /\ t.m.cap = Put(st.m.cap, a, n)
      /\ t.m.own = Put(st.m.own, a, Realloc(st.m.own[a], st.m.cap[a], n, Garbage.own))
      /\ t.m.ent = Put(st.m.ent, a, Realloc(st.m.ent[a], st.m.cap[a], n, Garbage.e))
  BY <1>1, AdoptFields
<1>3. KeptModule(t.m) /\ \A c : InModule(t.m, c) <=> (InModule(st.m, c) \/ c = ArrayBlock(a))
  <2>1. ASSUME NEW m, m = st.m, NEW m2, m2 = t.m
        PROVE  KeptModule(m2) /\ \A c : InModule(m2, c) <=> (InModule(m, c) \/ c = ArrayBlock(a))
    <3>1. /\ m2.cnt = m.cnt /\ m2.ptr = Put(m.ptr, a, Pointer(a)) /\ m2.cap = Put(m.cap, a, n)
          /\ m2.own = Put(m.own, a, Realloc(m.own[a], m.cap[a], n, Garbage.own))
          /\ m2.ent = Put(m.ent, a, Realloc(m.ent[a], m.cap[a], n, Garbage.e))
      BY <1>2, <2>1
    <3>4. IsModule(m) /\ KeptModule(m) /\ Freed(m, a) = 0 /\ Freed(m, a) <= n /\ a # "functions"
      BY <1>1, <2>1, FreedFacts DEF FlatArrays
    <3> QED BY <3>1, <3>4, ResizedModule
  <2> QED BY <2>1
<1>5. KeptLocal(t.loc) /\ \A c : InLocal(t.loc, c) <=> InLocal(st.loc, c)
  BY <1>2 DEF Sound, SameArrays, KeptLocal, InLocal
<1> QED BY <1>2, <1>3, <1>5 DEF Sound

LEMMA ResizedLocals ==
    ASSUME NEW l, IsLocals(l), KeptLocal(l), NEW a \in ImportArrays, NEW n \in Nat, l.cnt[a] <= n,
           l.ptr[a] = {} => l.cnt[a] = 0,
           NEW l2, l2.cnt = l.cnt, l2.ptr = Put(l.ptr, a, Pointer(a)), l2.cap = Put(l.cap, a, n),
           l2.own = Put(l.own, a, Realloc(l.own[a], l.cap[a], n, Garbage.own))
    PROVE  KeptLocal(l2) /\ \A c : InLocal(l2, c) <=> (InLocal(l, c) \/ c = ArrayBlock(a))
<1> DEFINE o == Realloc(l.own[a], l.cap[a], n, Garbage.own)
<1>1. /\ l.cap \in [ImportArrays -> Nat] /\ l.cnt \in [ImportArrays -> Nat]
      /\ DOMAIN l.own = ImportArrays /\ DOMAIN l.ptr = ImportArrays
      /\ \A d \in ImportArrays : l.ptr[d] # {} => l.cnt[d] <= l.cap[d]
  BY DEF IsLocals, Laid, KeptLocal
<1>2. \A i \in 1..n : i <= l.cap[a] => o[i] = l.own[a][i]
  BY DEF Realloc
<1>3. l2.own = Put(l.own, a, o)
  OBVIOUS
<1> HIDE DEF o
<1>4. /\ l2.own[a] = o /\ l2.ptr[a] = Pointer(a) /\ l2.cap[a] = n
      /\ \A d \in ImportArrays : d # a => l2.own[d] = l.own[d] /\ l2.ptr[d] = l.ptr[d] /\ l2.cap[d] = l.cap[d]
  BY <1>1, <1>3 DEF Put
<1>5. ASSUME NEW d \in ImportArrays, NEW j \in 1..l.cnt[d]
      PROVE  l2.own[d][j] = l.own[d][j]
  <2>1. CASE d = a
    <3>1. l.ptr[a] # {} /\ j <= l.cap[a] /\ j \in 1..n
      BY <2>1, <1>1, <1>5
    <3> QED BY <3>1, <2>1, <1>2, <1>4
  <2>2. CASE d # a
    BY <2>2, <1>4
  <2> QED BY <2>1, <2>2
<1>8. KeptLocal(l2)
  <2>1. ASSUME NEW d \in ImportArrays, l2.ptr[d] # {}, NEW j \in 1..l2.cnt[d], NEW c \in l2.own[d][j]
        PROVE  c[1] = d /\ c[2] = j
    <3>1. j \in 1..l.cnt[d] /\ l.ptr[d] # {}
      <4>1. j \in 1..l.cnt[d] /\ l.cnt[d] # 0
        BY <1>1, <2>1
      <4>3. CASE d = a
        BY <4>1, <4>3
      <4>4. CASE d # a
        BY <4>1, <4>4, <1>4, <2>1
      <4> QED BY <4>3, <4>4
    <3>2. c \in l.own[d][j]
      BY <3>1, <1>5, <2>1
    <3> QED BY <3>1, <3>2 DEF KeptLocal
  <2>2. \A d \in ImportArrays : l2.ptr[d] # {} => l2.cnt[d] <= l2.cap[d]
    BY <1>1, <1>4
  <2> QED BY <2>1, <2>2 DEF KeptLocal
<1>9. ASSUME NEW c PROVE InLocal(l2, c) <=> (InLocal(l, c) \/ c = ArrayBlock(a))
  <2>1. c = ArrayBlock(a) => InLocal(l2, c)
    BY <1>4, ArrayBlockFacts DEF InLocal, Pointer
  <2>2. ASSUME c # ArrayBlock(a) PROVE InLocal(l2, c) <=> InLocal(l, c)
    <3>1. ASSUME NEW d, d = c[1], d \in ImportArrays, NEW j, j = c[2]
          PROVE  (l2.ptr[d] # {} /\ (c = ArrayBlock(d) \/ (j \in 1..l2.cnt[d] /\ c \in l2.own[d][j])))
                 <=> (l.ptr[d] # {} /\ (c = ArrayBlock(d) \/ (j \in 1..l.cnt[d] /\ c \in l.own[d][j])))
      <4>2. j \in 1..l.cnt[d] => l2.own[d][j] = l.own[d][j]
        BY <1>5, <3>1
      <4>3. CASE d # a
        BY <4>2, <4>3, <1>4, <3>1
      <4>4. CASE d = a
        <5>1. l2.ptr[d] # {} /\ c # ArrayBlock(d)
          BY <4>4, <1>4, <2>2 DEF Pointer
        <5>2. l.ptr[d] = {} => ~(j \in 1..l.cnt[d])
          BY <1>1, <4>4
        <5> QED BY <5>1, <5>2, <4>2
      <4> QED BY <4>3, <4>4
    <3> QED BY <3>1 DEF InLocal
  <2> QED BY <2>1, <2>2
<1> QED BY <1>8, <1>9

LEMMA ResizeImportsSound ==
    ASSUME NEW st, Sound(st), NEW a \in ImportArrays, NEW n \in Nat, st.loc.cnt[a] <= n,
           st.loc.ptr[a] = {} => st.loc.cnt[a] = 0 /\ ArrayBlock(a) \notin st.h.live,
           NEW t, t = Step(st, ResizeImports(a, n))
    PROVE  Sound(t)
<1>1. IsState(st) /\ KeptLocal(st.loc) /\ IsLocals(st.loc) /\ st.h.bad = FALSE
  BY DEF Sound, IsState
<1>2. /\ IsState(t) /\ t.m = st.m
      /\ HeapMore(t.h, st.h, ArrayBlock(a))
      /\ t.loc.held = st.loc.held /\ t.loc.cnt = st.loc.cnt
      /\ t.loc.ptr = Put(st.loc.ptr, a, Pointer(a)) /\ t.loc.cap = Put(st.loc.cap, a, n)
      /\ t.loc.own = Put(st.loc.own, a, Realloc(st.loc.own[a], st.loc.cap[a], n, Garbage.own))
  BY <1>1, ResizeImportsFields
<1>3. KeptLocal(t.loc) /\ \A c : InLocal(t.loc, c) <=> (InLocal(st.loc, c) \/ c = ArrayBlock(a))
  BY <1>1, <1>2, ResizedLocals
<1>4. CASE st.loc.ptr[a] = {}
  BY <1>2, <1>3, <1>4 DEF Sound, HeapMore
<1>5. CASE st.loc.ptr[a] # {}
  <2>1. InLocal(st.loc, ArrayBlock(a))
    BY <1>5, ArrayBlockFacts DEF InLocal
  <2>2. \A c : InLocal(t.loc, c) <=> InLocal(st.loc, c)
    BY <2>1, <1>3
  <2>3. t.h = st.h
    <3>1. ArrayBlock(a) \in st.h.live /\ st.h = [live |-> st.h.live, bad |-> st.h.bad]
      BY <2>1 DEF Sound, IsState
    <3>2. st.h.live \cup {ArrayBlock(a)} = st.h.live
      BY <3>1
    <3>3. t.h = [live |-> t.h.live, bad |-> t.h.bad]
      BY <1>2 DEF IsState
    <3> QED BY <3>1, <3>2, <3>3, <1>2 DEF HeapMore
  <2> QED BY <2>2, <2>3, <1>2, <1>3 DEF Sound
<1> QED BY <1>4, <1>5

\* One more entry of array a, entry i, is counted and owns o:
CountedOne(A, a, i, o, cnt, cap, own, cnt2, own2) ==
    /\ cnt \in [A -> Nat] /\ cap \in [A -> Nat] /\ DOMAIN own = A /\ a \in A /\ DOMAIN own[a] = 1..cap[a]
    /\ i \in Nat /\ cnt[a] < i /\ i <= cnt[a] + 1 /\ i <= cap[a]
    /\ cnt2 = Succ(cnt, a) /\ own2 = Put(own, a, Put(own[a], i, o))

\* the counted entries are those that were, and i.
OneMore(A, a, i, o, cnt, cap, own, cnt2, own2) ==
    /\ \A d \in A : cnt2[d] \in Nat /\ (cnt[d] <= cap[d] => cnt2[d] <= cap[d])
    /\ i \in 1..cnt2[a] /\ own2[a][i] = o
    /\ \A d \in A : \A j \in 1..cnt2[d] : cnt[d] <= cap[d] =>
          (d = a /\ j = i) \/ (own2[d][j] = own[d][j] /\ j \in 1..cnt[d])
    /\ \A d \in A : \A j \in 1..cnt[d] : j \in 1..cnt2[d] /\ ~(d = a /\ j = i)
          /\ (cnt[d] <= cap[d] => own2[d][j] = own[d][j])

LEMMA StoredArrays ==
    ASSUME NEW A, NEW a, NEW i, NEW o, NEW cnt, NEW cap, NEW own, NEW cnt2, NEW own2,
           CountedOne(A, a, i, o, cnt, cap, own, cnt2, own2)
    PROVE  OneMore(A, a, i, o, cnt, cap, own, cnt2, own2)
<1> USE DEF CountedOne
<1>1. cnt2[a] = cnt[a] + 1 /\ \A d \in A : d # a => cnt2[d] = cnt[d]
  BY DEF Succ
<1>2. i \in 1..cap[a] /\ cap[a] \in Nat /\ cnt[a] \in Nat
  OBVIOUS
<1>3. /\ \A d \in A : d # a => own2[d] = own[d]
      /\ own2[a][i] = o
      /\ \A j \in 1..cap[a] : j # i => own2[a][j] = own[a][j]
  BY <1>2, PutSlot
<1>4. \A d \in A : cnt2[d] \in Nat /\ (cnt[d] <= cap[d] => cnt2[d] <= cap[d])
  BY <1>1, <1>2
<1>5. i \in 1..cnt2[a]
  BY <1>1, <1>2
<1>6. ASSUME NEW d \in A, NEW j \in 1..cnt2[d], cnt[d] <= cap[d]
      PROVE  (d = a /\ j = i) \/ (own2[d][j] = own[d][j] /\ j \in 1..cnt[d])
  <2>1. CASE d = a /\ j # i
    <3>1. j \in 1..cnt[a] /\ j \in 1..cap[a]
      BY <2>1, <1>1, <1>2, <1>6
    <3> QED BY <3>1, <2>1, <1>3
  <2>2. CASE d # a
    BY <2>2, <1>1, <1>3
  <2> QED BY <2>1, <2>2
<1>7. ASSUME NEW d \in A, NEW j \in 1..cnt[d]
      PROVE  j \in 1..cnt2[d] /\ ~(d = a /\ j = i) /\ (cnt[d] <= cap[d] => own2[d][j] = own[d][j])
  <2>1. CASE d = a
    <3>1. j \in 1..cnt2[a] /\ j # i /\ (cnt[a] <= cap[a] => j \in 1..cap[a])
      BY <2>1, <1>1, <1>2
    <3> QED BY <3>1, <2>1, <1>3
  <2>2. CASE d # a
    BY <2>2, <1>1, <1>3
  <2> QED BY <2>1, <2>2
<1> QED BY <1>3, <1>4, <1>5, <1>6, <1>7 DEF OneMore

\* The names of an import move from the handler to the entry of its kind.
LEMMA StoredLocals ==
    ASSUME NEW l, IsLocals(l), KeptLocal(l), NEW a \in ImportArrays, l.ptr[a] # {},
           NEW i \in Nat, l.cnt[a] < i, i <= l.cnt[a] + 1, i <= l.cap[a],
           NEW o, \A b \in o : b[1] = a /\ b[2] = i,
           NEW l2, l2.cnt = Succ(l.cnt, a), l2.ptr = l.ptr, l2.cap = l.cap,
           l2.own = Put(l.own, a, Put(l.own[a], i, o))
    PROVE  KeptLocal(l2) /\ \A c : InLocal(l2, c) <=> (InLocal(l, c) \/ c \in o)
<1>1. /\ l.cap \in [ImportArrays -> Nat] /\ l.cnt \in [ImportArrays -> Nat]
      /\ DOMAIN l.own = ImportArrays /\ DOMAIN l.own[a] = 1..l.cap[a]
  BY DEF IsLocals, Laid
<1>2. \A d \in ImportArrays : l.ptr[d] # {} => l.cnt[d] <= l.cap[d]
  BY DEF KeptLocal
<1>3. /\ \A d \in ImportArrays : l2.cnt[d] \in Nat /\ (l.cnt[d] <= l.cap[d] => l2.cnt[d] <= l.cap[d])
      /\ i \in 1..l2.cnt[a] /\ l2.own[a][i] = o
      /\ \A d \in ImportArrays : \A j \in 1..l2.cnt[d] : l.cnt[d] <= l.cap[d] =>
            (d = a /\ j = i) \/ (l2.own[d][j] = l.own[d][j] /\ j \in 1..l.cnt[d])
      /\ \A d \in ImportArrays : \A j \in 1..l.cnt[d] : j \in 1..l2.cnt[d] /\ ~(d = a /\ j = i)
            /\ (l.cnt[d] <= l.cap[d] => l2.own[d][j] = l.own[d][j])
  <2>1. CountedOne(ImportArrays, a, i, o, l.cnt, l.cap, l.own, l2.cnt, l2.own)
    BY <1>1 DEF CountedOne
  <2>2. OneMore(ImportArrays, a, i, o, l.cnt, l.cap, l.own, l2.cnt, l2.own)
    BY <2>1, StoredArrays
  <2> QED BY <2>2 DEF OneMore
<1>6. KeptLocal(l2)
  <2>1. ASSUME NEW d \in ImportArrays, l2.ptr[d] # {}, NEW j \in 1..l2.cnt[d], NEW c \in l2.own[d][j]
        PROVE  c[1] = d /\ c[2] = j
    <3>1. CASE d = a /\ j = i
      BY <3>1, <1>3, <2>1
    <3>2. CASE ~(d = a /\ j = i)
      <4>1. c \in l.own[d][j] /\ j \in 1..l.cnt[d] /\ l.ptr[d] # {}
        BY <3>2, <1>2, <1>3, <2>1
      <4> QED BY <4>1 DEF KeptLocal
    <3> QED BY <3>1, <3>2
  <2>2. \A d \in ImportArrays : l2.ptr[d] # {} => l2.cnt[d] <= l2.cap[d]
    BY <1>2, <1>3
  <2> QED BY <2>1, <2>2 DEF KeptLocal
<1>7. ASSUME NEW c PROVE InLocal(l2, c) <=> (InLocal(l, c) \/ c \in o)
  <2>1. c \in o => InLocal(l2, c)
    BY <1>3 DEF InLocal
  <2>2. ASSUME c \notin o PROVE InLocal(l2, c) <=> InLocal(l, c)
    <3>1. ASSUME NEW d, d = c[1], d \in ImportArrays, l.ptr[d] # {}, NEW j, j = c[2]
          PROVE  (j \in 1..l2.cnt[d] /\ c \in l2.own[d][j]) <=> (j \in 1..l.cnt[d] /\ c \in l.own[d][j])
      <4>1. j \in 1..l2.cnt[d] => (d = a /\ j = i) \/ (l2.own[d][j] = l.own[d][j] /\ j \in 1..l.cnt[d])
        BY <1>2, <1>3, <3>1
      <4>2. j \in 1..l.cnt[d] => j \in 1..l2.cnt[d] /\ ~(d = a /\ j = i) /\ l2.own[d][j] = l.own[d][j]
        BY <1>2, <1>3, <3>1
      <4>3. l2.own[a][i] = o
        BY <1>3
      <4> QED BY <4>1, <4>2, <4>3, <2>2
    <3> QED BY <3>1 DEF InLocal
  <2> QED BY <2>1, <2>2
<1> QED BY <1>6, <1>7

LEMMA StoreSound ==
    ASSUME NEW st, Sound(st), NEW a \in ImportArrays, st.loc.ptr[a] # {},
           NEW i \in Nat, st.loc.cnt[a] < i, i <= st.loc.cnt[a] + 1, i <= st.loc.cap[a],
           NEW o, \A b \in o : b[1] = a /\ b[2] = i, o \subseteq st.loc.held, NEW e,
           NEW t, t = Step(st, Store(a, i, o, e))
    PROVE  Sound(t)
<1>1. IsState(st) /\ KeptLocal(st.loc) /\ IsLocals(st.loc)
  BY DEF Sound, IsState
<1>2. IsState(t) /\ t.m = st.m /\ t.h = st.h /\ t.loc.held = st.loc.held \ o
  BY <1>1, StoreFields
<1>3. t.loc.cnt = Succ(st.loc.cnt, a) /\ t.loc.ptr = st.loc.ptr /\ t.loc.cap = st.loc.cap
  BY <1>1, StoreFields
<1>4. t.loc.own = Put(st.loc.own, a, Put(st.loc.own[a], i, o))
  BY <1>1, StoreFields
<1>5. ASSUME NEW l, NEW l2, l = st.loc, l2 = t.loc
      PROVE  KeptLocal(l2) /\ \A c : InLocal(l2, c) <=> (InLocal(l, c) \/ c \in o)
  BY <1>1, <1>3, <1>4, <1>5, StoredLocals
<1>6. KeptLocal(t.loc) /\ \A c : InLocal(t.loc, c) <=> (InLocal(st.loc, c) \/ c \in o)
  BY <1>5
<1> QED BY <1>2, <1>6 DEF Sound

LEMMA SameModule ==
    ASSUME NEW m, NEW m2, SameArrays(m2, m), KeptModule(m)
    PROVE  KeptModule(m2) /\ \A b : InModule(m2, b) <=> InModule(m, b)
<1>0. m2.cnt = m.cnt /\ m2.ptr = m.ptr /\ m2.cap = m.cap /\ m2.own = m.own /\ m2.ent = m.ent
  BY DEF SameArrays
<1>1. \A a \in Arrays : Freed(m2, a) = Freed(m, a)
  BY <1>0, FreedFacts
<1>2. \A i : Host(m2, i) <=> Host(m, i)
  BY <1>0, HostFrame
<1>3. \A a \in Arrays : \A i \in 1..Freed(m, a) : Own(m2, a, i) = Own(m, a, i)
  BY <1>0, <1>2 DEF Own
<1> QED BY <1>0, <1>1, <1>3, InModuleSame

LEMMA TypesCapSound ==
    ASSUME NEW st, Sound(st), NEW n \in Nat, NEW t, t = Step(st, CommitTypesCap(n))
    PROVE  Sound(t)
<1>1. IsState(st) /\ KeptModule(st.m)
  BY DEF Sound
<1>2. IsState(t) /\ t.loc = st.loc /\ t.h = st.h /\ SameArrays(t.m, st.m)
  BY <1>1, TypesCapFields
<1>3. KeptModule(t.m) /\ \A b : InModule(t.m, b) <=> InModule(st.m, b)
  BY <1>1, <1>2, SameModule
<1> QED BY <1>2, <1>3, SoundSame

LEMMA MarkSound ==
    ASSUME NEW st, Sound(st), NEW F, \A f \in F : ~(f >= st.m.cap["declared_funcs"]),
           NEW t, t = Step(st, Mark(F))
    PROVE  Sound(t)
<1>1. IsState(st) /\ KeptModule(st.m) /\ st.h.bad = FALSE
  BY DEF Sound
<1>2. /\ IsState(t) /\ t.loc = st.loc /\ t.h.live = st.h.live
      /\ t.h.bad = (st.h.bad \/ \E f \in F : f >= st.m.cap["declared_funcs"])
      /\ SameArrays(t.m, st.m)
  BY <1>1, MarkFields
<1>3. t.h = st.h
  <2>1. t.h.bad = FALSE
    BY <1>1, <1>2
  <2>2. t.h = [live |-> t.h.live, bad |-> t.h.bad] /\ st.h = [live |-> st.h.live, bad |-> st.h.bad]
    BY <1>1, <1>2 DEF IsState
  <2> QED BY <1>1, <1>2, <2>1, <2>2
<1>4. KeptModule(t.m) /\ \A b : InModule(t.m, b) <=> InModule(st.m, b)
  BY <1>1, <1>2, SameModule
<1> QED BY <1>2, <1>3, <1>4, SoundSame

\* The first n[a] entries of each array of t that is not NULL own blocks allocated for them.
Apart(t, A, n) ==
    \A a \in A : t.ptr[a] # {} =>
        /\ t.ptr[a] = Pointer(a) /\ n[a] \in Nat /\ t.cap[a] \in Nat /\ n[a] <= t.cap[a]
        /\ \A i \in 1..n[a] : \A b \in t.own[a][i] : b[1] = a /\ b[2] = i

\* The block b is freed with the arrays A of t.
FreedWith(t, A, n, b) ==
    /\ b[1] \in A /\ t.ptr[b[1]] # {}
    /\ \/ b = ArrayBlock(b[1])
       \/ b[2] \in 1..n[b[1]] /\ b \in t.own[b[1]][b[2]]

LEMMA HeldApart ==
    ASSUME NEW t, NEW A, NEW n, Apart(t, A, n), NEW held, held = Held(t, A, n)
    PROVE  (\A b : b \in AllHeld(held) <=> FreedWith(t, A, n, b)) /\ ~HeldTwice(held)
<1>1. /\ DOMAIN held = {a \in A : t.ptr[a] # {}}
      /\ \A a \in DOMAIN held : DOMAIN held[a] = 0..n[a]
      /\ \A a \in DOMAIN held : \A i \in 0..n[a] :
            held[a][i] = IF i = 0 THEN t.ptr[a] ELSE IF i <= t.cap[a] THEN t.own[a][i] ELSE Garbage.own
  BY DEF Held
<1>2. ASSUME NEW a \in DOMAIN held
      PROVE  /\ a \in A /\ t.ptr[a] # {} /\ t.ptr[a] = Pointer(a) /\ n[a] \in Nat /\ n[a] <= t.cap[a]
             /\ DOMAIN held[a] = 0..n[a] /\ held[a][0] = Pointer(a)
             /\ \A i \in 1..n[a] : held[a][i] = t.own[a][i]
  <2>1. a \in A /\ t.ptr[a] # {} /\ DOMAIN held[a] = 0..n[a]
    BY <1>1, <1>2
  <2>2. t.ptr[a] = Pointer(a) /\ n[a] \in Nat /\ t.cap[a] \in Nat /\ n[a] <= t.cap[a]
    BY <2>1 DEF Apart
  <2>3. held[a][0] = Pointer(a)
    BY <1>1, <1>2, <2>2
  <2>4. ASSUME NEW i \in 1..n[a] PROVE held[a][i] = t.own[a][i]
    <3>1. i \in 0..n[a] /\ i # 0 /\ i <= t.cap[a]
      BY <2>2, <2>4
    <3> QED BY <1>1, <1>2, <3>1
  <2> QED BY <2>1, <2>2, <2>3, <2>4
<1>3. ASSUME NEW a \in DOMAIN held, NEW i \in DOMAIN held[a], NEW b \in held[a][i]
      PROVE  b[1] = a /\ b[2] = i
  <2>0. n[a] \in Nat /\ DOMAIN held[a] = 0..n[a] /\ held[a][0] = Pointer(a) /\ a \in A /\ t.ptr[a] # {}
    BY <1>2, <1>3
  <2>1. CASE i = 0
    BY <2>1, <2>0, <1>3, ArrayBlockFacts DEF Pointer
  <2>2. CASE i # 0
    <3>1. i \in 1..n[a]
      BY <2>0, <2>2, <1>3
    <3>2. b \in t.own[a][i]
      BY <3>1, <1>2, <1>3
    <3> QED BY <3>1, <3>2, <2>0 DEF Apart
  <2> QED BY <2>1, <2>2
<1>4. ASSUME NEW a \in DOMAIN held, NEW b PROVE b \in HeldWith(held, a) <=> \E i \in DOMAIN held[a] : b \in held[a][i]
  BY DEF HeldWith
<1>5. ASSUME NEW b PROVE b \in AllHeld(held) <=> \E a \in DOMAIN held : \E i \in DOMAIN held[a] : b \in held[a][i]
  BY <1>4 DEF AllHeld
<1>6. ASSUME NEW b PROVE b \in AllHeld(held) <=> FreedWith(t, A, n, b)
  <2>1. ASSUME b \in AllHeld(held) PROVE FreedWith(t, A, n, b)
    <3>1. PICK a \in DOMAIN held : \E i \in DOMAIN held[a] : b \in held[a][i]
      BY <1>5, <2>1
    <3>2. PICK i \in DOMAIN held[a] : b \in held[a][i]
      BY <3>1
    <3>3. b[1] = a /\ b[2] = i
      BY <1>3, <3>2
    <3>4. /\ a \in A /\ t.ptr[a] # {} /\ n[a] \in Nat /\ DOMAIN held[a] = 0..n[a]
          /\ held[a][0] = Pointer(a) /\ \A k \in 1..n[a] : held[a][k] = t.own[a][k]
      BY <1>2
    <3>5. CASE i = 0
      BY <3>5, <3>2, <3>3, <3>4 DEF Pointer, FreedWith
    <3>6. CASE i # 0
      <4>1. i \in 1..n[a]
        BY <3>4, <3>6
      <4>2. b \in t.own[a][i]
        BY <4>1, <3>2, <3>4
      <4> QED BY <4>1, <4>2, <3>3, <3>4 DEF FreedWith
    <3> QED BY <3>5, <3>6
  <2>2. ASSUME FreedWith(t, A, n, b) PROVE b \in AllHeld(held)
    <3>1. PICK a : a = b[1]
      OBVIOUS
    <3>2. a \in DOMAIN held
      BY <2>2, <3>1, <1>1 DEF FreedWith
    <3>3. /\ n[a] \in Nat /\ DOMAIN held[a] = 0..n[a] /\ held[a][0] = Pointer(a)
          /\ \A k \in 1..n[a] : held[a][k] = t.own[a][k]
      BY <3>2, <1>2
    <3>4. CASE b = ArrayBlock(a)
      <4>1. 0 \in DOMAIN held[a] /\ b \in held[a][0]
        BY <3>3, <3>4 DEF Pointer
      <4> QED BY <4>1, <3>2, <1>5
    <3>5. CASE b[2] \in 1..n[a] /\ b \in t.own[a][b[2]]
      <4>1. b[2] \in DOMAIN held[a] /\ b \in held[a][b[2]]
        BY <3>3, <3>5
      <4> QED BY <4>1, <3>2, <1>5
    <3> QED BY <3>1, <3>4, <3>5, <2>2 DEF FreedWith
  <2> QED BY <2>1, <2>2
<1>7. ~HeldTwice(held)
  <2>1. SUFFICES ASSUME HeldTwice(held) PROVE FALSE
    OBVIOUS
  <2>2. PICK a \in DOMAIN held :
          \/ \E i, j \in DOMAIN held[a] : i < j /\ held[a][i] \cap held[a][j] # {}
          \/ HeldWith(held, a) \cap UNION {HeldWith(held, b) : b \in DOMAIN held \ {a}} # {}
    BY <2>1 DEF HeldTwice
  <2>3. CASE \E i, j \in DOMAIN held[a] : i < j /\ held[a][i] \cap held[a][j] # {}
    <3>1. PICK i \in DOMAIN held[a], j \in DOMAIN held[a] : i < j /\ held[a][i] \cap held[a][j] # {}
      BY <2>3
    <3>2. PICK b : b \in held[a][i] /\ b \in held[a][j]
      BY <3>1
    <3>3. b[2] = i /\ b[2] = j
      BY <3>2, <1>3
    <3>4. i \in Nat /\ j \in Nat
      BY <1>2
    <3> QED BY <3>1, <3>3, <3>4
  <2>4. CASE HeldWith(held, a) \cap UNION {HeldWith(held, b) : b \in DOMAIN held \ {a}} # {}
    <3>1. PICK c : c \in HeldWith(held, a) /\ c \in UNION {HeldWith(held, b) : b \in DOMAIN held \ {a}}
      BY <2>4
    <3>2. PICK d \in DOMAIN held \ {a} : c \in HeldWith(held, d)
      BY <3>1
    <3>3. PICK i \in DOMAIN held[a] : c \in held[a][i]
      BY <3>1, <1>4
    <3>4. PICK j \in DOMAIN held[d] : c \in held[d][j]
      BY <3>2, <1>4
    <3>5. c[1] = a /\ c[1] = d
      BY <3>3, <3>4, <1>3
    <3> QED BY <3>5
  <2> QED BY <2>2, <2>3, <2>4
<1> QED BY <1>6, <1>7

\* Blocks that are live and held once can be freed.
CanFree(h, t, A, n) == Apart(t, A, n) /\ h.bad = FALSE /\ \A b : FreedWith(t, A, n, b) => b \in h.live

FreedFrom(h2, h, t, A, n) ==
    /\ h2 = [live |-> h2.live, bad |-> h2.bad] /\ h2.bad = FALSE
    /\ \A b : b \in h2.live <=> (b \in h.live /\ ~FreedWith(t, A, n, b))

LEMMA FreeApart ==
    ASSUME NEW h, NEW t, NEW A, NEW n, CanFree(h, t, A, n), NEW h2, h2 = FreeHeld(h, Held(t, A, n))
    PROVE  FreedFrom(h2, h, t, A, n)
<1> USE DEF CanFree
<1>1. PICK held : held = Held(t, A, n)
  OBVIOUS
<1>2. (\A b : b \in AllHeld(held) <=> FreedWith(t, A, n, b)) /\ ~HeldTwice(held)
  BY <1>1, HeldApart
<1>3. PICK S : S = AllHeld(held)
  OBVIOUS
<1>4. h2 = [live |-> h.live \ S, bad |-> h.bad \/ ~(S \subseteq h.live) \/ HeldTwice(held)]
  BY <1>1, <1>3 DEF FreeHeld
<1>5. S \subseteq h.live
  BY <1>2, <1>3
<1>6. h2 = [live |-> h.live \ S, bad |-> FALSE]
  BY <1>2, <1>4, <1>5
<1> QED BY <1>6, <1>2, <1>3 DEF FreedFrom

LEMMA LocalsApart ==
    ASSUME NEW l, IsLocals(l), KeptLocal(l)
    PROVE  Apart(l, ImportArrays, l.cnt) /\ \A b : FreedWith(l, ImportArrays, l.cnt, b) <=> InLocal(l, b)
<1>1. ASSUME NEW a \in ImportArrays, l.ptr[a] # {}
      PROVE  l.ptr[a] = Pointer(a) /\ l.cnt[a] \in Nat /\ l.cap[a] \in Nat
  BY <1>1 DEF IsLocals, Laid
<1>2. Apart(l, ImportArrays, l.cnt)
  BY <1>1 DEF Apart, KeptLocal
<1>3. \A b : FreedWith(l, ImportArrays, l.cnt, b) <=> InLocal(l, b)
  BY DEF FreedWith, InLocal
<1> QED BY <1>2, <1>3

LEMMA NoLocalsFacts ==
    /\ IsLocals(NoLocals) /\ KeptLocal(NoLocals) /\ NoLocals.held = {}
    /\ \A a \in ImportArrays : NoLocals.ptr[a] = {} /\ NoLocals.cap[a] = 0 /\ NoLocals.cnt[a] = 0
    /\ \A b : ~InLocal(NoLocals, b)
<1>1. \A a \in ImportArrays : /\ NoLocals.ptr[a] = {} /\ NoLocals.cap[a] = 0 /\ NoLocals.cnt[a] = 0
                              /\ NoLocals.own[a] = [i \in 1..0 |-> {}] /\ NoLocals.ent[a] = [i \in 1..0 |-> {}]
  BY DEF NoLocals
<1>2. /\ NoLocals.cnt \in [ImportArrays -> Nat] /\ NoLocals.cap \in [ImportArrays -> Nat] /\ NoLocals.held = {}
      /\ DOMAIN NoLocals.ptr = ImportArrays /\ DOMAIN NoLocals.own = ImportArrays /\ DOMAIN NoLocals.ent = ImportArrays
  BY DEF NoLocals
<1>3. Laid(NoLocals, ImportArrays)
  BY <1>1, <1>2 DEF Laid
<1>4. IsLocals(NoLocals)
  <2>1. NoLocals = [held |-> NoLocals.held, cnt |-> NoLocals.cnt, ptr |-> NoLocals.ptr, cap |-> NoLocals.cap,
                    own |-> NoLocals.own, ent |-> NoLocals.ent]
    BY DEF NoLocals
  <2> QED BY <2>1, <1>3 DEF IsLocals
<1> QED BY <1>1, <1>2, <1>4 DEF KeptLocal, InLocal

LEMMA EmptyModuleFacts ==
    /\ IsModule(EmptyModule) /\ KeptModule(EmptyModule) /\ EmptyModule.types_cap = 0
    /\ \A a \in Arrays : EmptyModule.ptr[a] = {} /\ EmptyModule.cap[a] = 0 /\ EmptyModule.cnt[a] = 0
    /\ \A b : ~InModule(EmptyModule, b)
<1>1. \A a \in Arrays : /\ EmptyModule.ptr[a] = {} /\ EmptyModule.cap[a] = 0 /\ EmptyModule.cnt[a] = 0
                        /\ EmptyModule.own[a] = [i \in 1..0 |-> {}] /\ EmptyModule.ent[a] = [i \in 1..0 |-> {}]
  BY DEF EmptyModule
<1>2. /\ EmptyModule.cnt \in [Arrays -> Nat] /\ EmptyModule.cap \in [Arrays -> Nat] /\ EmptyModule.types_cap = 0
      /\ DOMAIN EmptyModule.ptr = Arrays /\ DOMAIN EmptyModule.own = Arrays /\ DOMAIN EmptyModule.ent = Arrays
  BY DEF EmptyModule
<1>3. Laid(EmptyModule, Arrays)
  BY <1>1, <1>2 DEF Laid
<1>4. IsModule(EmptyModule)
  <2>1. EmptyModule = [cnt |-> EmptyModule.cnt, ptr |-> EmptyModule.ptr, cap |-> EmptyModule.cap,
            own |-> EmptyModule.own, ent |-> EmptyModule.ent,
            types_cap |-> EmptyModule.types_cap, declared |-> EmptyModule.declared, start |-> EmptyModule.start,
            has_data_count_section |-> EmptyModule.has_data_count_section,
            min_data_segment_count_required |-> EmptyModule.min_data_segment_count_required]
    BY DEF EmptyModule
  <2> QED BY <2>1, <1>2, <1>3 DEF IsModule
<1> QED BY <1>1, <1>2, <1>4 DEF KeptModule, InModule

\* A state of which the module alone owns blocks.
LEMMA SoundAlone ==
    ASSUME NEW st, st = [m |-> st.m, loc |-> st.loc, h |-> st.h], st.h = [live |-> st.h.live, bad |-> st.h.bad],
           IsModule(st.m), KeptModule(st.m), st.loc = NoLocals, st.h.bad = FALSE,
           \A b : b \in st.h.live <=> InModule(st.m, b)
    PROVE  Sound(st)
BY NoLocalsFacts DEF Sound, IsState

\* wah_free_module frees what InModule says.
LEMMA ModuleApart ==
    ASSUME NEW m, IsModule(m), KeptModule(m), NEW f, f = Freeable(m), NEW n, n = FreedEntries(m)
    PROVE  Apart(f, Arrays, n) /\ \A b : FreedWith(f, Arrays, n, b) <=> InModule(m, b)
<1>0. \A a \in Arrays : n[a] = Freed(m, a) /\ n[a] \in Nat
  BY FreedNat DEF Freed
<1>1. /\ m.cap \in [Arrays -> Nat] /\ DOMAIN m.own = Arrays
      /\ \A a \in Arrays : DOMAIN m.own[a] = 1..m.cap[a]
      /\ \A a \in Arrays : m.ptr[a] # {} => m.ptr[a] = Pointer(a)
  BY DEF IsModule, Laid
<1>2. PICK x : x = ExportOwn(m)
  OBVIOUS
<1>3. f.ptr = m.ptr /\ f.cap = m.cap /\ f.own = Put(m.own, "exports", x)
  BY <1>2 DEF Freeable, IsModule
<1>4. \A j \in 1..m.cap["exports"] : x[j] = IF Host(m, j) THEN {} ELSE m.own["exports"][j]
  <2>1. DOMAIN m.own["exports"] = 1..m.cap["exports"]
    BY <1>1 DEF Arrays
  <2> QED BY <2>1, <1>2 DEF ExportOwn, Host
<1>5. f.own["exports"] = x /\ \A a \in Arrays : a # "exports" => f.own[a] = m.own[a]
  <2>1. "exports" \in Arrays
    BY DEF Arrays
  <2> QED BY <2>1, <1>1, <1>3 DEF Put
<1>6. ASSUME NEW a \in Arrays, NEW i \in 1..m.cap[a]
      PROVE  f.own[a][i] = Own(m, a, i)
  <2>1. CASE a = "exports"
    <3>1. f.own[a][i] = x[i] /\ x[i] = IF Host(m, i) THEN {} ELSE m.own[a][i]
      BY <2>1, <1>4, <1>5, <1>6
    <3> QED BY <3>1, <2>1 DEF Own
  <2>2. CASE a # "exports"
    BY <2>2, <1>5, <1>6 DEF Own
  <2> QED BY <2>1, <2>2
<1>7. ASSUME NEW a \in Arrays, m.ptr[a] # {}
      PROVE  /\ n[a] <= m.cap[a] /\ m.cap[a] \in Nat
             /\ \A i \in 1..n[a] : f.own[a][i] = Own(m, a, i)
  <2>1. n[a] <= m.cap[a] /\ n[a] \in Nat /\ m.cap[a] \in Nat
    BY <1>7, <1>0, <1>1 DEF KeptModule
  <2>2. ASSUME NEW i \in 1..n[a] PROVE f.own[a][i] = Own(m, a, i)
    <3>1. i \in 1..m.cap[a]
      BY <2>1
    <3> QED BY <3>1, <1>6
  <2> QED BY <2>1, <2>2
<1>8. Apart(f, Arrays, n)
  <2>1. ASSUME NEW a \in Arrays, f.ptr[a] # {}
        PROVE  /\ f.ptr[a] = Pointer(a) /\ n[a] \in Nat /\ f.cap[a] \in Nat /\ n[a] <= f.cap[a]
               /\ \A i \in 1..n[a] : \A b \in f.own[a][i] : b[1] = a /\ b[2] = i
    <3>1. m.ptr[a] # {}
      BY <2>1, <1>3
    <3>2. ASSUME NEW i \in 1..n[a], NEW b \in f.own[a][i] PROVE b[1] = a /\ b[2] = i
      <4>1. b \in Own(m, a, i) /\ i \in 1..Freed(m, a)
        BY <3>1, <3>2, <1>0, <1>7
      <4> QED BY <4>1, <3>1 DEF KeptModule
    <3> QED BY <3>1, <3>2, <1>0, <1>1, <1>3, <1>7
  <2> QED BY <2>1 DEF Apart
<1>9. ASSUME NEW b PROVE FreedWith(f, Arrays, n, b) <=> InModule(m, b)
  <2>1. ASSUME NEW a, a = b[1], a \in Arrays, m.ptr[a] # {}, NEW i, i = b[2]
        PROVE  (i \in 1..n[a] /\ b \in f.own[a][i]) <=> (i \in 1..Freed(m, a) /\ b \in Own(m, a, i))
    BY <2>1, <1>0, <1>7
  <2> QED BY <2>1, <1>3 DEF FreedWith, InModule
<1> QED BY <1>8, <1>9

\* wah_free_module leaves nothing.
LEMMA FreeModuleSound ==
    ASSUME NEW st, Sound(st), \A b : b \notin st.loc.held /\ ~InLocal(st.loc, b), NEW u, u = FreeModule(st)
    PROVE  Sound(u) /\ u.m = EmptyModule /\ u.loc = NoLocals /\ u.h.live = {} /\ u.h.bad = FALSE
<1>1. IsModule(st.m) /\ KeptModule(st.m) /\ st.h.bad = FALSE /\ \A b : b \in st.h.live <=> InModule(st.m, b)
  BY DEF Sound, IsState
<1>2. PICK h2, f, n : h2 = FreeHeld(st.h, Held(f, Arrays, n)) /\ f = Freeable(st.m) /\ n = FreedEntries(st.m)
  OBVIOUS
<1>3. u = [m |-> EmptyModule, loc |-> NoLocals, h |-> h2]
  BY <1>2 DEF FreeModule, HeldByModule
<1>4. Apart(f, Arrays, n) /\ \A b : FreedWith(f, Arrays, n, b) <=> InModule(st.m, b)
  BY <1>1, <1>2, ModuleApart
<1>5. \A b : FreedWith(f, Arrays, n, b) => b \in st.h.live
  BY <1>1, <1>4
<1>6. /\ h2 = [live |-> h2.live, bad |-> h2.bad] /\ h2.bad = FALSE
      /\ \A b : b \in h2.live <=> (b \in st.h.live /\ ~FreedWith(f, Arrays, n, b))
  <2>1. h2 = FreeHeld(st.h, Held(f, Arrays, n))
    BY <1>2
  <2>2. CanFree(st.h, f, Arrays, n)
    BY <1>1, <1>4, <1>5 DEF CanFree
  <2>3. FreedFrom(h2, st.h, f, Arrays, n)
    BY <2>1, <2>2, FreeApart
  <2> QED BY <2>3 DEF FreedFrom
<1>7. h2.live = {}
  BY <1>1, <1>4, <1>6
<1>8. u.m = EmptyModule /\ u.loc = NoLocals /\ u.h = h2 /\ u = [m |-> u.m, loc |-> u.loc, h |-> u.h]
  BY <1>3
<1>9. /\ u.h = [live |-> u.h.live, bad |-> u.h.bad] /\ u.h.bad = FALSE /\ u.h.live = {}
      /\ IsModule(u.m) /\ KeptModule(u.m) /\ \A b : b \in u.h.live <=> InModule(u.m, b)
  BY <1>6, <1>7, <1>8, EmptyModuleFacts
<1>10. Sound(u)
  BY <1>8, <1>9, SoundAlone
<1> QED BY <1>8, <1>9, <1>10

LEMMA MultMono ==
    ASSUME NEW x \in Nat, NEW y \in Nat, x >= 1
    PROVE  x * y \in Nat /\ x * y >= y
<1>1. x = 1 + (x - 1) /\ x - 1 \in Nat
  OBVIOUS
<1>2. (x - 1) * y \in Nat
  BY <1>1
<1>3. x * y = y + (x - 1) * y
  OBVIOUS
<1> QED BY <1>2, <1>3

\* wah_grow_array grows to what is needed.
LEMMA GrownFacts ==
    ASSUME NEW cap \in Nat, NEW needed \in Nat
    PROVE  Grown(cap, needed) \in Nat /\ Grown(cap, needed) >= needed /\ Grown(cap, needed) >= cap
<1>1. CASE needed <= cap
  BY <1>1 DEF Grown
<1>2. CASE ~(needed <= cap)
  <2> DEFINE from == IF cap = 0 THEN GrowFrom ELSE cap
             P(n) == from * Pow2[n] >= needed /\ (n = 0 \/ from * Pow2[n - 1] < needed)
             T == {n \in Nat : from * Pow2[n] >= needed}
             steps == CHOOSE n \in 0..needed : P(n)
  <2>1. from \in Nat /\ from >= 1 /\ from >= cap
    BY GrowFromAssumption
  <2>2. \A n \in Nat : Pow2[n] \in Nat /\ Pow2[n] > n
    BY Pow2Def
  <2> HIDE DEF from
  <2>3. needed \in T
    <3>1. from * Pow2[needed] >= Pow2[needed] /\ Pow2[needed] > needed /\ Pow2[needed] \in Nat
          /\ from * Pow2[needed] \in Nat
      BY <2>1, <2>2, MultMono
    <3> QED BY <3>1
  <2>4. PICK x \in T : \A y \in T : x <= y
    <3>1. T \in SUBSET Nat /\ T # {}
      BY <2>3
    <3> HIDE DEF T
    <3> QED BY <3>1, LeastNat
  <2>5. x \in 0..needed
    BY <2>3, <2>4
  <2>6. P(x)
    <3>1. CASE x = 0
      BY <3>1, <2>4
    <3>2. CASE x # 0
      <4>1. x - 1 \in Nat /\ ~(x <= x - 1)
        BY <3>2, <2>4
      <4>2. x - 1 \notin T
        BY <4>1, <2>4
      <4>3. Pow2[x - 1] \in Nat
        BY <4>1, <2>2
      <4>4. from * Pow2[x - 1] \in Nat
        BY <4>3, <2>1, MultMono
      <4>5. ~(from * Pow2[x - 1] >= needed)
        BY <4>1, <4>2
      <4> QED BY <2>4, <4>4, <4>5
    <3> QED BY <3>1, <3>2
  <2>7. steps \in 0..needed /\ P(steps)
    BY <2>5, <2>6
  <2>8. Grown(cap, needed) = from * Pow2[steps]
    BY <1>2 DEF Grown, from
  <2> HIDE DEF steps
  <2>9. Pow2[steps] \in Nat /\ Pow2[steps] >= 1
    BY <2>2, <2>7
  <2>10. from * Pow2[steps] \in Nat /\ from * Pow2[steps] >= from
    <3>1. Pow2[steps] * from \in Nat /\ Pow2[steps] * from >= from
      BY <2>1, <2>9, MultMono
    <3> QED BY <3>1, <2>1, <2>9
  <2> QED BY <2>1, <2>7, <2>8, <2>10
<1> QED BY <1>1, <1>2

=============================================================================
