--------------------------- MODULE BulkOpsProofs ----------------------------
(***************************************************************************)
(* Proofs about BulkOps, for all areas, contents, intervals and fuel.      *)
(*                                                                         *)
(* The operands on the stack (and, within an execution, the cells it did)  *)
(* determine what is left of the operation that was begun.  The invariant  *)
(* says that what is left is a contiguous remainder of it, that everything *)
(* else is done and nothing more, and that no cell the remainder reads has *)
(* been overwritten.                                                       *)
(***************************************************************************)
EXTENDS BulkOps, TLAPS

Contents == [Areas -> [Addr -> Values]]

(* What is left of the operation. *)
Left == IF pc \in {"loop", "check"} THEN Rest(op, done) ELSE op

(* r is a contiguous part of o. *)
Remainder(r, o) ==
    /\ r.kind = o.kind /\ r.da = o.da /\ r.sa = o.sa /\ r.val = o.val
    /\ o.dst <= r.dst /\ r.dst + r.size <= o.dst + o.size
    /\ IF o.kind = "copy" THEN r.src - r.dst = o.src - o.dst ELSE r.src = o.src

(* What r reads has not been overwritten by the rest of o. *)
Ahead(r, o) ==
    o.kind = "copy" /\ o.da = o.sa =>
        \A i \in Dst(r) : i + o.src - o.dst \notin Dst(o) \ Dst(r)

(* The cells of o that are not in r have been written, and no others. *)
Progress(m0, m, r, o) == m = Moved(m0, o, Dst(o) \ Dst(r))

(* o is within the bounds that areas can have. *)
Fits(o) == InBounds([a \in Areas |-> Capacity], o)

Sound ==
    Begun => /\ issued \in Operation
             /\ Class[issued.da] \notin {"data", "elem"}
             /\ Remainder(Left, issued)
             /\ Ahead(Left, issued)
             /\ Progress(before, mem, Left, issued)

(* An execution within its loop is in bounds, and not at its end. *)
Looping == pc \in {"loop", "check"} => done < op.size /\ InBounds(len, op)

(* Once part of it is done, all of the operation stays in bounds, and is   *)
(* not done yet.                                                           *)
Bounded ==
    Begun /\ (pc \in {"loop", "check"} \/ op # issued) =>
        /\ op.size > 0
        /\ Fits(issued)
        /\ issued.dst + issued.size <= len[issued.da]
        /\ issued.kind = "copy" => \/ issued.src + issued.size <= len[issued.sa]
                                   \/ Class[issued.sa] \in {"data", "elem"} /\ len[issued.sa] = 0

BulkInv == TypeOK /\ Sound /\ Looping /\ Bounded
-----------------------------------------------------------------------------
(* Writing cells, cell by cell. *)
LEMMA MovedCells ==
    ASSUME NEW m \in Contents, NEW o \in Operation, NEW S
    PROVE  /\ DOMAIN Moved(m, o, S) = Areas
           /\ \A a \in Areas : DOMAIN Moved(m, o, S)[a] = Addr
           /\ \A a \in Areas : a # o.da => Moved(m, o, S)[a] = m[a]
           /\ \A i \in Addr : Moved(m, o, S)[o.da][i] = IF i \in S THEN Written(m, o, i) ELSE m[o.da][i]
  BY DEF Moved, Contents, Operation

(* The operands for what is left, field by field. *)
LEMMA RestFields ==
    ASSUME NEW o \in Operation, NEW d \in 0..o.size
    PROVE  /\ Rest(o, d) \in Operation
           /\ Rest(o, d).kind = o.kind /\ Rest(o, d).da = o.da
           /\ Rest(o, d).sa = o.sa /\ Rest(o, d).val = o.val
           /\ Rest(o, d).size = o.size - d
           /\ Rest(o, d).dst = IF Backward(o) THEN o.dst ELSE o.dst + d
           /\ Rest(o, d).src = IF Backward(o) \/ o.kind = "fill" THEN o.src ELSE o.src + d
  <1>1. CASE Backward(o)
    <2>1. Rest(o, d) = [o EXCEPT !.size = @ - d]
      BY <1>1 DEF Rest
    <2> QED
      BY <1>1, <2>1 DEF Operation, Backward
  <1>2. CASE ~Backward(o)
    <2>1. Rest(o, d) = [o EXCEPT !.dst = @ + d, !.src = IF o.kind = "copy" THEN @ + d ELSE @, !.size = @ - d]
      BY <1>2 DEF Rest
    <2>2. CASE o.kind = "copy"
      <3>1. Rest(o, d) = [o EXCEPT !.dst = @ + d, !.src = @ + d, !.size = @ - d]
        BY <2>1, <2>2
      <3>2. Rest(o, d) = [kind |-> o.kind, da |-> o.da, sa |-> o.sa, dst |-> o.dst + d,
                          src |-> o.src + d, size |-> o.size - d, val |-> o.val]
        BY <3>1 DEF Operation
      <3>3. o.dst + d \in Nat /\ o.src + d \in Nat /\ o.size - d \in Nat
        BY DEF Operation
      <3>4. Rest(o, d) \in Operation
        BY <3>2, <3>3 DEF Operation
      <3> QED
        BY <1>2, <2>2, <3>2, <3>4
    <2>3. CASE o.kind = "fill"
      <3>1. Rest(o, d) = [o EXCEPT !.dst = @ + d, !.src = @, !.size = @ - d]
        BY <2>1, <2>3
      <3>2. Rest(o, d) = [kind |-> o.kind, da |-> o.da, sa |-> o.sa, dst |-> o.dst + d,
                          src |-> o.src, size |-> o.size - d, val |-> o.val]
        BY <3>1 DEF Operation
      <3>3. o.dst + d \in Nat /\ o.src + d \in Nat /\ o.size - d \in Nat
        BY DEF Operation
      <3>4. Rest(o, d) \in Operation
        BY <3>2, <3>3 DEF Operation
      <3> QED
        BY <1>2, <2>3, <3>2, <3>4
    <2> QED
      BY <2>2, <2>3 DEF Operation
  <1> QED
    BY <1>1, <1>2

LEMMA RestZero ==
    ASSUME NEW o \in Operation
    PROVE  Rest(o, 0) = o
  <1>1. /\ o.size - 0 = o.size /\ o.dst + 0 = o.dst /\ o.src + 0 = o.src
    BY DEF Operation
  <1> QED
    BY <1>1 DEF Rest, Operation

(* A chunk is part of what is left, and advances it. *)
LEMMA ChunkAdvances ==
    ASSUME NEW o \in Operation, NEW r \in Operation, NEW d \in Nat, NEW n \in Nat,
           d + n <= r.size,
           Remainder(Rest(r, d), o), Ahead(Rest(r, d), o)
    PROVE  /\ Remainder(Rest(r, d + n), o) /\ Ahead(Rest(r, d + n), o)
           /\ Dst(o) \ Dst(Rest(r, d + n)) = (Dst(o) \ Dst(Rest(r, d))) \cup ChunkCells(r, d, n)
           /\ ChunkCells(r, d, n) \subseteq Dst(Rest(r, d))
           /\ ChunkCells(r, d, n) \subseteq Dst(o)
  <1> DEFINE p == Rest(r, d)
             q == Rest(r, d + n)
  <1>1. /\ d \in 0..r.size /\ d + n \in 0..r.size
        /\ r.dst \in Nat /\ r.src \in Nat /\ r.size \in Nat
        /\ o.dst \in Nat /\ o.src \in Nat /\ o.size \in Nat
        /\ o.kind \in {"fill", "copy"}
    BY DEF Operation
  <1>2. /\ p \in Operation /\ q \in Operation
        /\ p.kind = r.kind /\ p.da = r.da /\ p.sa = r.sa /\ p.val = r.val
        /\ q.kind = r.kind /\ q.da = r.da /\ q.sa = r.sa /\ q.val = r.val
        /\ p.size = r.size - d /\ q.size = r.size - (d + n)
        /\ p.dst = IF Backward(r) THEN r.dst ELSE r.dst + d
        /\ q.dst = IF Backward(r) THEN r.dst ELSE r.dst + (d + n)
        /\ p.src = IF Backward(r) \/ r.kind = "fill" THEN r.src ELSE r.src + d
        /\ q.src = IF Backward(r) \/ r.kind = "fill" THEN r.src ELSE r.src + (d + n)
    BY <1>1, RestFields
  <1> HIDE DEF p, q
  <1>3. Remainder(p, o) /\ Ahead(p, o)
    BY DEF p
  <1>4. Remainder(q, o)
    BY <1>1, <1>2, <1>3 DEF Remainder, Backward
  <1>5. Dst(p) \ Dst(q) = ChunkCells(r, d, n) /\ Dst(q) \subseteq Dst(p) /\ Dst(p) \subseteq Dst(o)
    BY <1>1, <1>2, <1>3 DEF Dst, ChunkCells, Remainder
  <1>6. Ahead(q, o)
    BY <1>1, <1>2, <1>3, <1>4 DEF Ahead, Remainder, Dst, Backward
  <1> QED
    BY <1>4, <1>5, <1>6 DEF p, q

(* Writing cells that exist leaves contents. *)
LEMMA MovedType ==
    ASSUME NEW m \in Contents, NEW o \in Operation, NEW S, Fits(o), S \subseteq Dst(o)
    PROVE  Moved(m, o, S) \in Contents
  <1>1. ASSUME NEW i \in Addr, i \in S PROVE Written(m, o, i) \in Values
    <2>1. o.kind = "copy" => o.src + (i - o.dst) \in Addr
      BY <1>1, AreaAssumption DEF Fits, InBounds, Dst, Operation, Addr
    <2> QED
      BY <2>1 DEF Written, Contents, Operation
  <1> QED
    BY <1>1 DEF Moved, Contents, Operation

(* A chunk moved now has the contents it would have had at the start. *)
LEMMA ChunkMoves ==
    ASSUME NEW m0 \in Contents, NEW o \in Operation, NEW r \in Operation,
           NEW d \in Nat, NEW n \in Nat, d + n <= r.size, Fits(o),
           Remainder(Rest(r, d), o), Ahead(Rest(r, d), o)
    PROVE  Moved(Moved(m0, o, Dst(o) \ Dst(Rest(r, d))), r, ChunkCells(r, d, n))
             = Moved(m0, o, Dst(o) \ Dst(Rest(r, d + n)))
  <1> DEFINE D  == Dst(o) \ Dst(Rest(r, d))
             C  == ChunkCells(r, d, n)
             E  == Dst(o) \ Dst(Rest(r, d + n))
             m  == Moved(m0, o, D)
             m1 == Moved(m, r, C)
             m2 == Moved(m0, o, E)
  <1>1. /\ E = D \cup C /\ C \subseteq Dst(Rest(r, d)) /\ C \subseteq Dst(o)
    BY ChunkAdvances
  <1>2. m \in Contents
    BY MovedType
  <1>3. /\ r.kind = o.kind /\ r.da = o.da /\ r.sa = o.sa /\ r.val = o.val
        /\ o.kind = "copy" => r.src - r.dst = o.src - o.dst
    <2>1. d \in 0..r.size
      BY DEF Operation
    <2> QED
      BY <2>1, RestFields DEF Remainder, Operation
  <1>4. ASSUME NEW i \in Addr, i \in C PROVE Written(m, r, i) = Written(m0, o, i)
    <2>1. CASE o.kind = "fill"
      BY <1>3, <2>1 DEF Written
    <2>2. CASE o.kind = "copy"
      <3> DEFINE j == o.src + (i - o.dst)
      <3>1. /\ i \in Int /\ o.src \in Nat /\ o.dst \in Nat /\ r.src \in Nat /\ r.dst \in Nat
        BY DEF Addr, Operation
      <3>2. r.src + (i - r.dst) = j
        BY <1>3, <2>2, <3>1
      <3>3. j \in Addr
        BY <1>1, <1>4, <2>2, <3>1, AreaAssumption DEF Fits, InBounds, Dst, Addr, Operation
      <3>4. o.da = o.sa => j \notin D
        <4>1. j = i + o.src - o.dst
          BY <3>1
        <4> QED
          BY <1>1, <1>4, <2>2, <4>1 DEF Ahead
      <3>5. m[o.sa][j] = m0[o.sa][j]
        <4>1. CASE o.sa = o.da
          BY <3>3, <3>4, <4>1, MovedCells
        <4>2. CASE o.sa # o.da
          BY <4>2, MovedCells DEF Operation
        <4> QED
          BY <4>1, <4>2
      <3>6. Written(m, r, i) = m[r.sa][r.src + (i - r.dst)]
        BY <1>3, <2>2 DEF Written
      <3>7. Written(m0, o, i) = m0[o.sa][j]
        BY <2>2 DEF Written
      <3> QED
        BY <1>3, <3>2, <3>5, <3>6, <3>7
    <2> QED
      BY <2>1, <2>2 DEF Operation
  <1> HIDE DEF m, D, C, E
  <1>5. \A a \in Areas : a # o.da => m1[a] = m2[a]
    <2>1. \A a \in Areas : a # o.da => m1[a] = m[a]
      BY <1>2, <1>3, MovedCells
    <2>2. \A a \in Areas : a # o.da => m2[a] = m0[a] /\ m[a] = m0[a]
      BY MovedCells DEF m
    <2> QED
      BY <2>1, <2>2
  <1>6. \A i \in Addr : m1[o.da][i] = m2[o.da][i]
    <2> TAKE i \in Addr
    <2>1. m1[o.da][i] = IF i \in C THEN Written(m, r, i) ELSE m[o.da][i]
      BY <1>2, <1>3, MovedCells
    <2>2. m2[o.da][i] = IF i \in E THEN Written(m0, o, i) ELSE m0[o.da][i]
      BY MovedCells
    <2>3. m[o.da][i] = IF i \in D THEN Written(m0, o, i) ELSE m0[o.da][i]
      BY MovedCells DEF m
    <2> QED
      BY <1>1, <1>4, <2>1, <2>2, <2>3 DEF C, D, E
  <1>7. m1[o.da] = m2[o.da]
    <2>1. m1[o.da] = [i \in Addr |-> IF i \in C THEN Written(m, r, i) ELSE m[o.da][i]]
      BY <1>2, <1>3 DEF Moved, Contents, Operation
    <2>2. m2[o.da] = [i \in Addr |-> IF i \in E THEN Written(m0, o, i) ELSE m0[o.da][i]]
      BY DEF Moved, Contents, Operation
    <2> QED
      BY <1>6, <2>1, <2>2
  <1>8. m1 = [a \in Areas |-> m1[a]] /\ m2 = [a \in Areas |-> m2[a]]
    BY <1>2 DEF Moved, Contents
  <1> QED
    <2>1. \A a \in Areas : m1[a] = m2[a]
      BY <1>5, <1>7
    <2>2. m1 = m2
      BY <1>8, <2>1
    <2> QED
      BY <2>2 DEF m, D, C, E
-----------------------------------------------------------------------------
(* Multiplication does not make a natural number smaller or negative. *)
LEMMA Product ==
    ASSUME NEW i \in Nat, NEW j \in Nat
    PROVE  i * j \in Nat
  OBVIOUS

(* The fuel limit never raises a chunk. *)
LEMMA LimitBound ==
    ASSUME TypeOK, NEW c \in Nat
    PROVE  FuelLimit(c) \in 0..c
  <1>1. CASE ~metered \/ fuel < 0
    BY <1>1 DEF FuelLimit, TypeOK
  <1>2. CASE metered /\ ~(fuel < 0)
    <2>1. fuel + 1 \in Nat /\ Items \in Nat
      BY <1>2, BulkAssumption DEF TypeOK
    <2>2. (fuel + 1) * Items \in Nat
      BY <2>1, Product
    <2>3. FuelLimit(c) = Lower(c, (fuel + 1) * Items)
      BY <1>2 DEF FuelLimit
    <2> HIDE DEF FuelLimit
    <2> QED
      BY <2>2, <2>3 DEF Lower
  <1> QED
    BY <1>1, <1>2 DEF TypeOK

(* Elements that fit into fewer bytes than n elements have. *)
LEMMA DivBound ==
    ASSUME NEW n \in Nat, NEW e \in Nat \ {0}, NEW b \in Nat, b < n * e
    PROVE  b \div e \in 0..n
  OBVIOUS

(* A chunk never goes beyond what is left. *)
LEMMA ChunkBound ==
    ASSUME TypeOK, NEW o \in Operation, NEW l \in Nat \ {0}
    PROVE  Chunk(o, l) \in 0..l
  <1>1. ElemSize \in Nat \ {0} /\ Interval \in Nat \ {0}
    BY BulkAssumption
  <1>2. Lower(l, Interval) \in 1..l
    BY <1>1 DEF Lower
  <1>3. CASE ~ByBytes(o)
    <2>1. Chunk(o, l) = FuelLimit(Lower(l, Interval))
      BY <1>3 DEF Chunk
    <2>2. FuelLimit(Lower(l, Interval)) \in 0..Lower(l, Interval)
      BY <1>2, LimitBound
    <2> QED
      BY <1>2, <2>1, <2>2
  <1>4. CASE ByBytes(o) /\ o.kind = "fill"
    <2> DEFINE n == Lower(l, Interval)
               b == FuelLimit(n * ElemSize)
    <2>1. Chunk(o, l) = IF b < n * ElemSize THEN AtLeastOne(b) ELSE n
      BY <1>4 DEF Chunk
    <2>2. n \in 1..l
      BY <1>2
    <2> HIDE DEF n
    <2>3. n * ElemSize \in Nat
      BY <1>1, <2>2, Product
    <2>4. b \in 0..(n * ElemSize)
      BY <2>3, LimitBound
    <2> HIDE DEF b
    <2>5. ASSUME b < n * ElemSize PROVE AtLeastOne(b) \in 0..l
      <3>1. b \div ElemSize \in 0..n
        BY <1>1, <2>2, <2>4, <2>5, DivBound
      <3> QED
        BY <1>1, <2>2, <2>4, <3>1 DEF AtLeastOne
    <2> QED
      BY <2>1, <2>2, <2>5
  <1>5. CASE ByBytes(o) /\ o.kind # "fill"
    <2> DEFINE c == Lower(l * ElemSize, Interval)
    <2>1. Chunk(o, l) = Lower(AtLeastOne(FuelLimit(c)), l)
      BY <1>5 DEF Chunk
    <2>2. l * ElemSize \in Nat
      BY <1>1, Product
    <2>3. c \in Nat
      BY <1>1, <2>2 DEF Lower
    <2> HIDE DEF c
    <2>4. FuelLimit(c) \in 0..c
      BY <2>3, LimitBound
    <2>5. AtLeastOne(FuelLimit(c)) \in Nat
      BY <1>1, <2>3, <2>4 DEF AtLeastOne
    <2> QED
      BY <2>1, <2>5 DEF Lower
  <1> QED
    BY <1>3, <1>4, <1>5

(* What is charged is a natural number. *)
LEMMA CostNat ==
    ASSUME TypeOK, NEW o \in Operation, NEW n \in Nat
    PROVE  Cost(n) \in Nat /\ ItemsOf(o, n) \in Nat
  <1>1. Items \in Nat \ {0} /\ ElemSize \in Nat \ {0}
    BY BulkAssumption
  <1>2. n + Items - 1 \in Nat
    BY <1>1
  <1>3. (n + Items - 1) \div Items \in Nat
    BY <1>1, <1>2
  <1>4. n * ElemSize \in Nat
    BY <1>1, Product
  <1> QED
    BY <1>3, <1>4 DEF Cost, ItemsOf, TypeOK
-----------------------------------------------------------------------------
(* Nothing is left to be said of an operation that is over. *)
LEMMA OverInv ==
    ASSUME op' = None, pc' \notin {"loop", "check"}
    PROVE  Sound' /\ Looping' /\ Bounded'
  BY DEF Sound, Looping, Bounded, Begun

(* Steps that change neither the operation, its areas nor what is left. *)
LEMMA KeptInv ==
    ASSUME BulkInv, UNCHANGED <<op, issued, before, mem, len>>, Left' = Left,
           pc' \in {"loop", "check"} => pc \in {"loop", "check"} /\ done' = done
    PROVE  Sound' /\ Looping' /\ Bounded'
  <1>1. Sound'
    BY DEF BulkInv, Sound, Begun, Remainder, Ahead, Progress, Dst
  <1>2. Looping'
    BY DEF BulkInv, Looping, InBounds
  <1>3. Bounded'
    BY DEF BulkInv, Bounded, Begun, Fits, InBounds
  <1> QED
    BY <1>1, <1>2, <1>3

(* An area's length changes between executions, so that what is in bounds  *)
(* stays so, or a segment is dropped.                                      *)
LEMMA ResizeInv ==
    ASSUME BulkInv, UNCHANGED <<pc, op, done, issued, before, mem>>,
           pc \notin {"loop", "check"},
           NEW a \in Areas, NEW n \in 0..Capacity,
           len' = [len EXCEPT ![a] = n],
           IF Class[a] \in {"data", "elem"} THEN n = 0 ELSE n >= len[a]
    PROVE  Sound' /\ Looping' /\ Bounded'
  <1>1. Left' = Left
    BY DEF Left, Rest, Backward
  <1>2. Sound'
    BY <1>1 DEF BulkInv, Sound, Begun, Remainder, Ahead, Progress, Dst
  <1>3. Looping'
    BY DEF Looping
  <1>4. Bounded'
    <2> SUFFICES ASSUME op # None, op # issued PROVE Bounded'
      BY DEF Bounded, Begun
    <2>1. /\ op.size > 0 /\ Fits(issued) /\ issued \in Operation
          /\ len \in [Areas -> 0..Capacity]
          /\ issued.dst + issued.size <= len[issued.da]
          /\ issued.kind = "copy" => \/ issued.src + issued.size <= len[issued.sa]
                                     \/ Class[issued.sa] \in {"data", "elem"} /\ len[issued.sa] = 0
      BY DEF BulkInv, Bounded, Begun, TypeOK, Sound
    <2>2. Class[issued.da] \notin {"data", "elem"}
      BY DEF BulkInv, Sound, Begun
    <2>3. /\ issued.dst \in Nat /\ issued.src \in Nat /\ issued.size \in Nat
          /\ issued.da \in Areas /\ issued.sa \in Areas
      BY <2>1 DEF Operation
    <2>4. \A b \in Areas : len[b] \in Nat /\ len'[b] = IF b = a THEN n ELSE len[b]
      BY <2>1, AreaAssumption
    <2>5. issued.dst + issued.size <= len'[issued.da]
      BY <2>1, <2>2, <2>3, <2>4
    <2>6. issued.kind = "copy" => \/ issued.src + issued.size <= len'[issued.sa]
                                  \/ Class[issued.sa] \in {"data", "elem"} /\ len'[issued.sa] = 0
      BY <2>1, <2>3, <2>4
    <2> QED
      BY <2>1, <2>5, <2>6 DEF Bounded, Fits, InBounds
  <1> QED
    BY <1>2, <1>3, <1>4

(* The moves of a chunk, or of the part of one before an element fails. *)
LEMMA ChunkInv ==
    ASSUME BulkInv, pc = "loop", NEW n \in Nat, n <= op.size - done
    PROVE  /\ Moved(mem, op, ChunkCells(op, done, n)) \in Contents
           /\ Remainder(Rest(op, done + n), issued)
           /\ Ahead(Rest(op, done + n), issued)
           /\ Progress(before, Moved(mem, op, ChunkCells(op, done, n)), Rest(op, done + n), issued)
           /\ Fits(issued) /\ issued \in Operation /\ op \in Operation
  <1>1. /\ op \in Operation /\ issued \in Operation /\ done \in Nat
        /\ before \in Contents /\ Begun
    BY DEF BulkInv, TypeOK, Sound, Begun, Contents
  <1>2. Fits(issued)
    BY <1>1 DEF BulkInv, Bounded
  <1>3. /\ Remainder(Rest(op, done), issued) /\ Ahead(Rest(op, done), issued)
        /\ mem = Moved(before, issued, Dst(issued) \ Dst(Rest(op, done)))
    BY <1>1 DEF BulkInv, Sound, Left, Progress
  <1>4. done + n <= op.size
    BY <1>1 DEF Operation
  <1>5. /\ Remainder(Rest(op, done + n), issued) /\ Ahead(Rest(op, done + n), issued)
    BY <1>1, <1>3, <1>4, ChunkAdvances
  <1>6. Moved(mem, op, ChunkCells(op, done, n))
          = Moved(before, issued, Dst(issued) \ Dst(Rest(op, done + n)))
    BY <1>1, <1>2, <1>3, <1>4, ChunkMoves
  <1>7. Moved(before, issued, Dst(issued) \ Dst(Rest(op, done + n))) \in Contents
    BY <1>1, <1>2, MovedType
  <1> QED
    BY <1>1, <1>2, <1>5, <1>6, <1>7 DEF Progress

(* Initially no operation is begun. *)
LEMMA InitInv == Init => BulkInv
  <1> SUFFICES ASSUME Init PROVE BulkInv
    OBVIOUS
  <1>1. TypeOK
    <2>1. /\ fuel \in Int /\ ops \in 0..MaxOps
          /\ done \in Nat /\ charged \in Nat /\ broke \in Nat /\ late \in Nat
      BY BulkAssumption DEF Init
    <2>2. /\ mem \in [Areas -> [Addr -> Values]] /\ before \in [Areas -> [Addr -> Values]]
          /\ len \in [Areas -> 0..Capacity]
      BY BulkAssumption DEF Init
    <2> QED
      BY <2>1, <2>2 DEF Init, TypeOK, PCs
  <1>2. Sound /\ Looping /\ Bounded
    BY DEF Init, Sound, Looping, Bounded, Begun
  <1> QED
    BY <1>1, <1>2 DEF BulkInv

(* A new operation is its own remainder. *)
LEMMA BeginInv ==
    ASSUME BulkInv, NEW o \in Ops, Begin(o)
    PROVE  BulkInv'
  <1>1. /\ o \in Operation /\ o # None
        /\ Class[o.da] \notin {"data", "elem"}
    BY BulkAssumption, AreaAssumption DEF Ops, Typed, Operation, Sources
  <1>2. TypeOK'
    BY <1>1, BulkAssumption DEF BulkInv, TypeOK, Begin, PCs, areas
  <1>3. Left' = o /\ issued' = o /\ op' = o /\ before' = mem /\ mem' = mem
    BY DEF Begin, Left, areas
  <1>4. Remainder(o, o) /\ Ahead(o, o)
    BY <1>1 DEF Remainder, Ahead, Dst, Operation
  <1>5. Progress(mem, mem, o, o)
    <2>1. Dst(o) \ Dst(o) = {}
      OBVIOUS
    <2>2. mem \in Contents
      BY DEF BulkInv, TypeOK, Contents
    <2>3. Moved(mem, o, {}) = mem
      BY <1>1, <2>2 DEF Moved, Contents, Operation
    <2> QED
      BY <2>1, <2>3 DEF Progress
  <1>6. Sound'
    BY <1>1, <1>3, <1>4, <1>5 DEF Sound
  <1>7. Looping' /\ Bounded'
    BY <1>3 DEF Begin, Looping, Bounded
  <1> QED
    BY <1>2, <1>6, <1>7 DEF BulkInv

(* An execution starts: nothing of it is done. *)
LEMMA StartInv ==
    ASSUME BulkInv, ExecStarts
    PROVE  BulkInv'
  <1>1. TypeOK'
    BY DEF BulkInv, TypeOK, ExecStarts, PCs, areas, ghosts
  <1>2. op \in Operation /\ op # None
    BY DEF BulkInv, TypeOK, ExecStarts
  <1>3. Left' = Left /\ Left = op
    BY <1>2, RestZero DEF ExecStarts, Left, Rest, Backward
  <1>4. Sound'
    BY <1>3 DEF BulkInv, Sound, Begun, Remainder, Ahead, Progress, Dst, ExecStarts, areas, ghosts
  <1>5. Looping'
    BY <1>2 DEF ExecStarts, Looping, Nothing, Operation, areas, InBounds
  <1>6. Bounded'
    <2>1. /\ issued \in Operation /\ Remainder(op, issued) /\ InBounds(len, op)
      BY <1>2, <1>3 DEF BulkInv, Sound, Begun, ExecStarts
    <2>2. /\ len \in [Areas -> 0..Capacity] /\ Capacity \in Nat
      BY AreaAssumption DEF BulkInv, TypeOK
    <2>3. op.size > 0
      BY <1>2 DEF ExecStarts, Nothing, Operation
    <2>4. CASE op = issued
      <3>1. Fits(issued)
        BY <2>1, <2>2, <2>4 DEF Fits, InBounds, Operation
      <3> QED
        BY <2>1, <2>3, <2>4, <3>1 DEF Bounded, Fits, InBounds, ExecStarts, areas, ghosts
    <2>5. CASE op # issued
      BY <1>2, <2>5 DEF BulkInv, Bounded, Begun, Fits, InBounds, ExecStarts, areas, ghosts
    <2> QED
      BY <2>4, <2>5
  <1> QED
    BY <1>1, <1>4, <1>5, <1>6 DEF BulkInv

(* A chunk is done. *)
LEMMA DoChunkInv ==
    ASSUME BulkInv, DoChunk
    PROVE  BulkInv'
  <1> DEFINE n == Chunk(op, op.size - done)
  <1>1. op \in Operation /\ op # None /\ done \in Nat /\ done < op.size /\ TypeOK
    BY DEF BulkInv, TypeOK, DoChunk, Looping
  <1>2. n \in Nat /\ n <= op.size - done
    <2>1. op.size - done \in Nat \ {0}
      BY <1>1 DEF Operation
    <2>2. n \in 0..(op.size - done)
      BY <1>1, <2>1, ChunkBound
    <2> QED
      BY <2>1, <2>2
  <1>3. /\ mem' = Moved(mem, op, ChunkCells(op, done, n)) /\ done' = done + n
        /\ fuel' = fuel - Cost(ItemsOf(op, n))
        /\ charged' = charged + Cost(ItemsOf(op, n))
        /\ broke' = IF OutOfFuel /\ n > 0 THEN broke + 1 ELSE broke
        /\ late' = IF interrupt THEN late + n ELSE late
    BY DEF DoChunk
  <1>4. Cost(ItemsOf(op, n)) \in Nat
    BY <1>1, <1>2, CostNat
  <1>5. /\ mem' \in Contents
        /\ Remainder(Rest(op, done + n), issued) /\ Ahead(Rest(op, done + n), issued)
        /\ Progress(before, mem', Rest(op, done + n), issued)
        /\ Fits(issued) /\ issued \in Operation
    BY <1>2, <1>3, ChunkInv DEF DoChunk
  <1> HIDE DEF n
  <1>6. TypeOK'
    <2>1. /\ done' \in Nat /\ fuel' \in Int /\ charged' \in Nat
      BY <1>1, <1>2, <1>3, <1>4 DEF TypeOK
    <2>2. /\ broke' \in Nat /\ late' \in Nat
      BY <1>1, <1>2, <1>3 DEF TypeOK
    <2>3. mem' \in [Areas -> [Addr -> Values]]
      BY <1>5 DEF Contents
    <2> QED
      BY <1>1, <2>1, <2>2, <2>3 DEF TypeOK, DoChunk, PCs
  <1>7. CASE done' = op.size
    <2>1. op' = None /\ pc' = "code"
      BY <1>7 DEF DoChunk
    <2> QED
      BY <1>6, <2>1, OverInv DEF BulkInv
  <1>8. CASE done' # op.size
    <2>1. /\ op' = op /\ pc' = "check" /\ issued' = issued /\ before' = before /\ len' = len
          /\ pc = "loop"
      BY <1>8 DEF DoChunk
    <2>2. Left' = Rest(op, done + n)
      BY <1>3, <2>1 DEF Left, Rest, Backward
    <2>3. Sound'
      BY <1>5, <2>1, <2>2 DEF BulkInv, Sound, Begun, Remainder, Ahead, Progress, Dst
    <2>4. Looping'
      BY <1>1, <1>2, <1>3, <1>8, <2>1 DEF BulkInv, Looping, InBounds, Operation
    <2>5. Bounded'
      BY <2>1 DEF BulkInv, Bounded, Begun, Fits, InBounds
    <2> QED
      BY <1>6, <2>3, <2>4, <2>5 DEF BulkInv
  <1> QED
    BY <1>7, <1>8

(* An element fails: the operation is over. *)
LEMMA ElemFailsInv ==
    ASSUME BulkInv, NEW k \in 0..(Interval - 1), ElemFails(k)
    PROVE  BulkInv'
  <1>1. op \in Operation /\ done \in Nat /\ done < op.size /\ TypeOK
    BY DEF BulkInv, TypeOK, ElemFails, Looping
  <1>2. k \in Nat /\ k <= op.size - done
    <2>1. op.size - done \in Nat \ {0}
      BY <1>1 DEF Operation
    <2>2. Chunk(op, op.size - done) \in 0..(op.size - done)
      BY <1>1, <2>1, ChunkBound
    <2> QED
      BY <2>1, <2>2, BulkAssumption DEF ElemFails
  <1>3. mem' \in Contents
    BY <1>2, ChunkInv DEF ElemFails
  <1>4. late' \in Nat
    BY <1>1, <1>2 DEF TypeOK, ElemFails
  <1>5. TypeOK'
    BY <1>1, <1>3, <1>4 DEF TypeOK, ElemFails, PCs, Contents, ghosts
  <1> QED
    BY <1>5, OverInv DEF BulkInv, ElemFails

(* An execution goes on, or is stopped and pushes what is left. *)
LEMMA CheckInv ==
    ASSUME BulkInv, Check
    PROVE  BulkInv'
  <1>1. op \in Operation /\ op # None /\ done \in 0..op.size /\ TypeOK /\ pc = "check"
    BY DEF BulkInv, TypeOK, Check, Looping, Operation
  <1>2. CASE ~ShouldStop
    <2>1. /\ pc' = "loop" /\ UNCHANGED <<op, interrupt, late, done, mem, len, issued, before>>
          /\ UNCHANGED <<fuel, metered, ops, charged, broke>>
      BY <1>2 DEF Check, areas, ghosts
    <2>2. TypeOK'
      BY <1>1, <2>1 DEF TypeOK, PCs
    <2>3. Left' = Left
      BY <1>1, <2>1 DEF Left, Rest, Backward
    <2> QED
      BY <1>1, <2>1, <2>2, <2>3, KeptInv DEF BulkInv
  <1>3. CASE ShouldStop
    <2>1. /\ pc' = "suspended" /\ op' = Rest(op, done)
          /\ UNCHANGED <<done, mem, len, issued, before, fuel, metered, ops, charged, broke>>
          /\ interrupt' = (interrupt /\ OutOfFuel)
          /\ late' = IF OutOfFuel THEN late ELSE 0
      BY <1>3 DEF Check, Yield, areas, ghosts
    <2>2. Rest(op, done) \in Operation
      BY <1>1, RestFields
    <2>3. TypeOK'
      <3>1. interrupt' \in BOOLEAN
        BY <2>1
      <3>2. late' \in Nat
        BY <1>1, <2>1 DEF TypeOK
      <3> QED
        BY <1>1, <2>1, <2>2, <3>1, <3>2 DEF TypeOK, PCs
    <2>4. Left' = Left /\ Left = Rest(op, done)
      BY <1>1, <2>1 DEF Left
    <2>5. Sound'
      BY <1>1, <2>1, <2>4 DEF BulkInv, Sound, Begun, Remainder, Ahead, Progress, Dst
    <2>6. Looping'
      BY <2>1 DEF Looping
    <2>7. Bounded'
      <3>1. Rest(op, done).size = op.size - done /\ done < op.size
        BY <1>1, RestFields DEF BulkInv, Looping
      <3>2. op'.size > 0
        BY <1>1, <2>1, <3>1 DEF Operation
      <3> QED
        BY <1>1, <2>1, <3>2 DEF BulkInv, Bounded, Begun, Fits, InBounds
    <2> QED
      BY <2>3, <2>5, <2>6, <2>7 DEF BulkInv
  <1> QED
    BY <1>2, <1>3

(* The contents m after a write of v to the cell i of a. *)
Stored(m, a, i, v) == [m EXCEPT ![a] = [m[a] EXCEPT ![i] = v]]

(* Writing another cell before or after is the same. *)
LEMMA WriteCommutes ==
    ASSUME NEW m \in Contents, NEW o \in Operation, NEW S,
           NEW a \in Areas, NEW i \in Addr, NEW v \in Values, NEW m1 \in Contents,
           \A b \in Areas : b # a => m1[b] = m[b],
           \A j \in Addr : m1[a][j] = IF j = i THEN v ELSE m[a][j],
           a = o.da => i \notin S,
           \A j \in Addr : j \in S => Written(m1, o, j) = Written(m, o, j)
    PROVE  Moved(m1, o, S) = Stored(Moved(m, o, S), a, i, v)
  <1> DEFINE n == Moved(m, o, S)
             l == Moved(m1, o, S)
             r == [n EXCEPT ![a] = [n[a] EXCEPT ![i] = v]]
  <1>1. m1 \in Contents
    OBVIOUS
  <1>2. /\ l = [b \in Areas |-> l[b]] /\ n = [b \in Areas |-> n[b]]
        /\ \A b \in Areas : l[b] = [j \in Addr |-> l[b][j]] /\ n[b] = [j \in Addr |-> n[b][j]]
    BY <1>1 DEF Moved, Contents, Operation
  <1>3. /\ \A b \in Areas : b # o.da => l[b] = m1[b]
        /\ \A j \in Addr : l[o.da][j] = IF j \in S THEN Written(m1, o, j) ELSE m1[o.da][j]
    BY <1>1, MovedCells
  <1>4. /\ \A b \in Areas : b # o.da => n[b] = m[b]
        /\ \A j \in Addr : n[o.da][j] = IF j \in S THEN Written(m, o, j) ELSE m[o.da][j]
    BY MovedCells
  <1> HIDE DEF n, l
  <1>5. r = [b \in Areas |-> IF b = a THEN [n[a] EXCEPT ![i] = v] ELSE n[b]]
    BY <1>2
  <1>6. \A b \in Areas : b # a => l[b] = n[b]
    <2> TAKE b \in Areas
    <2> HAVE b # a
    <2>1. m1[b] = m[b]
      OBVIOUS
    <2>2. CASE b # o.da
      BY <1>3, <1>4, <2>1, <2>2
    <2>3. CASE b = o.da
      <3>1. ASSUME NEW j \in Addr PROVE l[b][j] = n[b][j]
        <4>1. l[b][j] = IF j \in S THEN Written(m1, o, j) ELSE m1[b][j]
          BY <1>3, <2>3
        <4>2. n[b][j] = IF j \in S THEN Written(m, o, j) ELSE m[b][j]
          BY <1>4, <2>3
        <4> QED
          BY <2>1, <4>1, <4>2
      <3> QED
        BY <1>2, <3>1
    <2> QED
      BY <2>2, <2>3
  <1>7. l[a] = [n[a] EXCEPT ![i] = v]
    <2>1. \A j \in Addr : m1[a][j] = IF j = i THEN v ELSE m[a][j]
      OBVIOUS
    <2>2. \A j \in Addr : l[a][j] = IF j = i THEN v ELSE n[a][j]
      <3>1. CASE a # o.da
        BY <1>3, <1>4, <2>1, <3>1
      <3>2. CASE a = o.da
        <4> TAKE j \in Addr
        <4>1. l[a][j] = IF j \in S THEN Written(m1, o, j) ELSE m1[a][j]
          BY <1>3, <3>2
        <4>2. n[a][j] = IF j \in S THEN Written(m, o, j) ELSE m[a][j]
          BY <1>4, <3>2
        <4> QED
          BY <2>1, <3>2, <4>1, <4>2
      <3> QED
        BY <3>1, <3>2
    <2>3. [n[a] EXCEPT ![i] = v] = [j \in Addr |-> IF j = i THEN v ELSE n[a][j]]
      BY <1>2
    <2>4. l[a] = [j \in Addr |-> l[a][j]]
      BY <1>2
    <2>5. [j \in Addr |-> l[a][j]] = [j \in Addr |-> IF j = i THEN v ELSE n[a][j]]
      BY <2>2
    <2> QED
      BY <2>3, <2>4, <2>5
  <1>8. \A b \in Areas : l[b] = IF b = a THEN [n[a] EXCEPT ![i] = v] ELSE n[b]
    BY <1>6, <1>7
  <1>9. l = r
    BY <1>2, <1>5, <1>8
  <1> QED
    BY <1>9 DEF l, n, Stored

(* The host writes a cell that the operation neither reads nor writes. *)
LEMMA HostWriteInv ==
    ASSUME BulkInv, NEW a \in Areas, NEW i \in Addr, HostWrite(a, i)
    PROVE  BulkInv'
  <1>1. /\ op \in Operation /\ op # None /\ issued \in Operation /\ TypeOK /\ pc = "suspended"
        /\ mem \in Contents /\ before \in Contents /\ Host \in Values
    BY BulkAssumption DEF BulkInv, TypeOK, HostWrite, Sound, Begun, Contents
  <1>2. /\ UNCHANGED <<pc, op, done, len, issued>>
        /\ mem' = [mem EXCEPT ![a] = [mem[a] EXCEPT ![i] = Host]]
        /\ before' = [before EXCEPT ![a] = [before[a] EXCEPT ![i] = Host]]
    BY <1>1 DEF HostWrite, Contents
  <1>3. mem' \in Contents /\ before' \in Contents
    BY <1>1, <1>2 DEF Contents
  <1>4. TypeOK'
    BY <1>1, <1>3 DEF TypeOK, HostWrite, PCs, Contents
  <1>5. Left = op /\ Left' = op
    BY <1>1, <1>2 DEF Left
  <1>6. Progress(before', mem', op, issued)
    <2> DEFINE S == Dst(issued) \ Dst(op)
    <2>1. mem = Moved(before, issued, S)
      BY <1>1, <1>5 DEF BulkInv, Sound, Begun, Progress
    <2>2. S \subseteq Dst(issued)
      OBVIOUS
    <2>3. \A j \in Addr : j \in S => Written(before', issued, j) = Written(before, issued, j)
      <3> TAKE j \in Addr
      <3> HAVE j \in S
      <3>1. CASE issued.kind = "fill"
        BY <3>1 DEF Written
      <3>2. CASE issued.kind = "copy"
        <4> DEFINE k == issued.src + (j - issued.dst)
        <4>1. k \in Src(issued)
          BY <1>1, <2>2, <3>2 DEF Src, Dst, Operation, Addr
        <4>2. a = issued.sa => i # k
          BY <4>1 DEF HostWrite
        <4>3. Fits(issued)
          BY <1>1 DEF BulkInv, Bounded, Begun
        <4>4. k \in Addr
          BY <1>1, <2>2, <3>2, <4>3, AreaAssumption DEF Fits, InBounds, Dst, Operation, Addr
        <4> QED
          BY <1>1, <1>2, <3>2, <4>2, <4>4 DEF Written, Contents, Operation
      <3> QED
        BY <1>1, <3>1, <3>2 DEF Operation
    <2>4. a = issued.da => i \notin S
      BY <2>2 DEF HostWrite
    <2> HIDE DEF S
    <2>5. Moved(before', issued, S) = Stored(Moved(before, issued, S), a, i, Host)
      <3>1. /\ \A b \in Areas : b # a => before'[b] = before[b]
            /\ \A j \in Addr : before'[a][j] = IF j = i THEN Host ELSE before[a][j]
        BY <1>1, <1>2 DEF Contents
      <3>2. before \in Contents /\ before' \in Contents /\ issued \in Operation /\ Host \in Values
        BY <1>1, <1>3
      <3> QED
        BY <2>3, <2>4, <3>1, <3>2, WriteCommutes
    <2> QED
      BY <1>2, <2>1, <2>5 DEF Progress, S, Stored
  <1>7. Sound'
    BY <1>1, <1>2, <1>5, <1>6 DEF BulkInv, Sound, Begun
  <1>8. Looping' /\ Bounded'
    BY <1>1, <1>2 DEF BulkInv, Looping, Bounded, Begun, Fits, InBounds
  <1> QED
    BY <1>4, <1>7, <1>8 DEF BulkInv

(* Steps that leave an operation alone: metering, interrupts, the host. *)
LEMMA OtherInv ==
    ASSUME BulkInv, UNCHANGED <<done, mem, len, metered, ops, issued, before, charged, broke>>,
           op' = op, pc' \in PCs \ {"loop", "check"}, Left' = op,
           pc \notin {"loop", "check"},
           pc' = "exec" => op # None, pc' \in {"ready", "code", "trapped"} => op = None,
           fuel' \in Int, interrupt' \in BOOLEAN, late' \in Nat
    PROVE  BulkInv'
  <1>1. TypeOK'
    BY DEF BulkInv, TypeOK, PCs
  <1>2. Left' = Left
    BY DEF Left
  <1> QED
    BY <1>1, <1>2, KeptInv DEF BulkInv

(* Every step preserves the invariant. *)
LEMMA NextInv ==
    ASSUME BulkInv, [Next]_vars
    PROVE  BulkInv'
  <1> DEFINE Others == UNCHANGED <<done, mem, len, metered, ops, issued, before, charged, broke>>
  <1>0. /\ TypeOK /\ fuel \in Int /\ interrupt \in BOOLEAN /\ late \in Nat
    BY DEF BulkInv, TypeOK
  <1>1. CASE ExecInterrupted
    <2>1. Others /\ op' = op /\ pc' = "suspended" /\ pc = "exec" /\ fuel' = fuel /\ Left' = op
      BY <1>1 DEF ExecInterrupted, Yield, areas, ghosts, Left
    <2>2. interrupt' \in BOOLEAN
      BY <1>1 DEF ExecInterrupted, Yield
    <2>3. late' \in Nat
      BY <1>0, <1>1 DEF ExecInterrupted, Yield
    <2> QED
      BY <1>0, <2>1, <2>2, <2>3, OtherInv DEF PCs
  <1>2. CASE ExecTraps
    <2>1. TypeOK'
      BY <1>0, <1>2 DEF ExecTraps, TypeOK, PCs, areas, ghosts
    <2> QED
      BY <1>2, <2>1, OverInv DEF ExecTraps, BulkInv
  <1>3. CASE ExecNothing
    <2>1. TypeOK'
      BY <1>0, <1>3 DEF ExecNothing, TypeOK, PCs, areas, ghosts
    <2> QED
      BY <1>3, <2>1, OverInv DEF ExecNothing, BulkInv
  <1>4. CASE ExecStarts
    BY <1>4, StartInv
  <1>5. CASE DoChunk
    BY <1>5, DoChunkInv
  <1>6. CASE Check
    BY <1>6, CheckInv
  <1>7. CASE \E o \in Ops : Begin(o)
    BY <1>7, BeginInv
  <1>8. CASE \E k \in 0..(Interval - 1) : ElemFails(k)
    BY <1>8, ElemFailsInv
  <1>9. CASE Meter
    <2>1. Others /\ op' = op /\ pc' = pc /\ pc = "code" /\ interrupt' = interrupt /\ late' = late /\ Left' = op
      BY <1>9 DEF Meter, areas, ghosts, Left
    <2>2. fuel' \in Int
      BY <1>0, <1>9 DEF Meter
    <2>3. op = None
      BY <1>0, <2>1 DEF TypeOK
    <2> QED
      BY <1>0, <2>1, <2>2, <2>3, OtherInv DEF PCs
  <1>10. CASE Tick
    <2>1. Others /\ op' = op /\ pc' \in {"code", "suspended"} /\ pc = "code" /\ Left' = op
      BY <1>10 DEF Tick, areas, ghosts, Left
    <2>2. fuel' \in Int
      BY <1>0, <1>10 DEF Tick
    <2>3. interrupt' \in BOOLEAN /\ late' \in Nat
      <3>1. (interrupt' = interrupt /\ late' = late) \/ (interrupt' = FALSE /\ late' = 0)
        BY <1>10 DEF Tick
      <3>2. interrupt' \in BOOLEAN
        BY <1>0, <3>1
      <3>3. late' \in Nat
        BY <1>0, <3>1
      <3> QED
        BY <3>2, <3>3
    <2>4. op = None
      BY <1>0, <2>1 DEF TypeOK
    <2> QED
      BY <1>0, <2>1, <2>2, <2>3, <2>4, OtherInv DEF PCs
  <1>11. CASE Poll
    <2>1. Others /\ op' = op /\ pc' = "suspended" /\ pc = "code" /\ fuel' = fuel /\ Left' = op
      BY <1>11 DEF Poll, areas, ghosts, Left
    <2>2. interrupt' \in BOOLEAN /\ late' \in Nat
      BY <1>11 DEF Poll
    <2> QED
      BY <1>0, <2>1, <2>2, OtherInv DEF PCs
  <1>12. CASE Request
    <2>1. /\ UNCHANGED <<pc, op, done, mem, len, fuel, metered, ops, issued, before, charged, broke, late>>
          /\ interrupt' = TRUE
      BY <1>12 DEF Request, areas, ghosts
    <2>2. TypeOK'
      BY <1>0, <2>1 DEF TypeOK
    <2>3. Left' = Left
      BY <2>1 DEF Left, Rest, Backward
    <2> QED
      BY <2>1, <2>2, <2>3, KeptInv DEF BulkInv
  <1>13. CASE Resume
    <2>1. /\ Others /\ op' = op /\ pc = "suspended" /\ fuel' = fuel /\ interrupt' = interrupt /\ late' = late
          /\ pc' = IF op = None THEN "code" ELSE "exec"
      BY <1>13 DEF Resume, areas, ghosts
    <2>2. Left' = op
      BY <2>1 DEF Left
    <2> QED
      BY <1>0, <2>1, <2>2, OtherInv DEF PCs
  <1>14. CASE Cancel
    <2>1. TypeOK'
      BY <1>0, <1>14 DEF Cancel, TypeOK, PCs, areas, ghosts
    <2> QED
      BY <1>14, <2>1, OverInv DEF Cancel, BulkInv
  <1>15. ASSUME NEW n \in 1..Capacity, ChargeWhole(n) PROVE BulkInv'
    <2>1. Others /\ op' = op /\ pc' = pc /\ pc = "code" /\ interrupt' = interrupt /\ late' = late /\ Left' = op
      BY <1>15 DEF ChargeWhole, areas, ghosts, Left
    <2>2. n \in Nat
      BY AreaAssumption
    <2>3. Cost(n) \in Nat
      <3>1. CASE metered
        <4>1. Items \in Nat \ {0} /\ n + Items - 1 \in Nat
          BY <2>2, BulkAssumption
        <4> QED
          BY <3>1, <4>1 DEF Cost
      <3>2. CASE ~metered
        BY <3>2 DEF Cost
      <3> QED
        BY <3>1, <3>2
    <2>4. fuel' \in Int
      BY <1>0, <1>15, <2>3 DEF ChargeWhole
    <2>5. op = None
      BY <1>0, <2>1 DEF TypeOK
    <2> QED
      BY <1>0, <2>1, <2>4, <2>5, OtherInv DEF PCs
  <1>16. ASSUME NEW n \in 1..MaxFuel, SetFuel(n) PROVE BulkInv'
    <2>1. Others /\ op' = op /\ pc' = pc /\ pc \in {"ready", "suspended"} /\ interrupt' = interrupt /\ late' = late /\ Left' = op
      BY <1>16 DEF SetFuel, areas, ghosts, Left
    <2>2. fuel' \in Int
      BY <1>16, BulkAssumption DEF SetFuel
    <2>3. pc = "ready" => op = None
      BY <1>0 DEF TypeOK
    <2> QED
      BY <1>0, <2>1, <2>2, <2>3, OtherInv DEF PCs
  <1>17. ASSUME NEW a \in Areas, Drop(a) PROVE BulkInv'
    <2>1. 0 \in 0..Capacity
      BY AreaAssumption
    <2>2. TypeOK'
      BY <1>0, <1>17, <2>1 DEF Drop, TypeOK, ghosts
    <2> QED
      BY <1>17, <2>1, <2>2, ResizeInv DEF Drop, BulkInv, ghosts
  <1>18. ASSUME NEW a \in Areas, Grow(a) PROVE BulkInv'
    <2>1. len[a] \in 0..Capacity /\ len[a] + 1 \in 0..Capacity /\ len[a] + 1 >= len[a]
      BY <1>0, <1>18, AreaAssumption DEF Grow, TypeOK
    <2>2. len' = [len EXCEPT ![a] = len[a] + 1]
      BY <1>0, <1>18 DEF Grow, TypeOK
    <2>3. TypeOK'
      BY <1>0, <1>18, <2>1, <2>2 DEF Grow, TypeOK, ghosts
    <2> QED
      BY <1>18, <2>1, <2>2, <2>3, ResizeInv DEF Grow, BulkInv, ghosts
  <1>19. ASSUME NEW a \in Areas, NEW i \in Addr, HostWrite(a, i) PROVE BulkInv'
    BY <1>19, HostWriteInv
  <1>20. CASE UNCHANGED vars
    <2>1. TypeOK'
      BY <1>0, <1>20 DEF TypeOK, vars, areas, ghosts
    <2>2. Left' = Left /\ UNCHANGED <<pc, op, done, issued, before, mem, len>>
      BY <1>20 DEF Left, Rest, Backward, vars, areas, ghosts
    <2> QED
      BY <2>1, <2>2, KeptInv DEF BulkInv
  <1>21. CASE Start
    <2>1. /\ Others /\ op' = op /\ pc = "ready" /\ fuel' = fuel /\ interrupt' = interrupt /\ late' = late
          /\ pc' = "suspended"
      BY <1>21 DEF Start, areas, ghosts
    <2>2. Left' = op
      BY <2>1 DEF Left
    <2> QED
      BY <1>0, <2>1, <2>2, OtherInv DEF PCs
  <1> QED
    BY <1>1, <1>2, <1>3, <1>4, <1>5, <1>6, <1>7, <1>8, <1>9, <1>10, <1>11, <1>12, <1>13,
       <1>14, <1>15, <1>16, <1>17, <1>18, <1>19, <1>20, <1>21 DEF Next, Execute

(* The inductive invariant. *)
THEOREM Invariant == Spec => []BulkInv
  BY InitInv, NextInv, PTL DEF Spec

(* Every variable keeps its type; in particular operands are on the stack  *)
(* exactly while an instruction is executed or may be executed again.      *)
THEOREM TypeCorrect == Spec => []TypeOK
  <1>1. BulkInv => TypeOK
    BY DEF BulkInv
  <1> QED
    BY <1>1, Invariant, PTL

(* A chunk is never longer than the interval between two checks, although  *)
(* one element is done even if it has more bytes than that or than can be  *)
(* paid.                                                                   *)
LEMMA ChunkInterval ==
    ASSUME TypeOK, NEW o \in Operation, NEW l \in Nat \ {0}
    PROVE  Chunk(o, l) <= Interval
  <1>1. ElemSize \in Nat \ {0} /\ Interval \in Nat \ {0}
    BY BulkAssumption
  <1>2. Lower(l, Interval) \in 1..Interval
    BY <1>1 DEF Lower
  <1>3. CASE ~ByBytes(o)
    <2>1. Chunk(o, l) = FuelLimit(Lower(l, Interval))
      BY <1>3 DEF Chunk
    <2>2. FuelLimit(Lower(l, Interval)) \in 0..Lower(l, Interval)
      BY <1>2, LimitBound
    <2> QED
      BY <1>1, <1>2, <2>1, <2>2
  <1>4. CASE ByBytes(o) /\ o.kind = "fill"
    <2> DEFINE n == Lower(l, Interval)
               b == FuelLimit(n * ElemSize)
    <2>1. Chunk(o, l) = IF b < n * ElemSize THEN AtLeastOne(b) ELSE n
      BY <1>4 DEF Chunk
    <2>2. n \in 1..Interval
      BY <1>2
    <2> HIDE DEF n
    <2>3. n * ElemSize \in Nat
      BY <1>1, <2>2, Product
    <2>4. b \in 0..(n * ElemSize)
      BY <2>3, LimitBound
    <2> HIDE DEF b
    <2>5. ASSUME b < n * ElemSize PROVE AtLeastOne(b) \in 0..Interval
      <3>1. b \div ElemSize \in 0..n
        BY <1>1, <2>2, <2>4, <2>5, DivBound
      <3> QED
        BY <1>1, <2>2, <2>4, <3>1 DEF AtLeastOne
    <2> QED
      BY <1>1, <2>1, <2>2, <2>5
  <1>5. CASE ByBytes(o) /\ o.kind # "fill"
    <2> DEFINE c == Lower(l * ElemSize, Interval)
               b == FuelLimit(c)
    <2>1. Chunk(o, l) = Lower(AtLeastOne(b), l)
      BY <1>5 DEF Chunk
    <2>2. l * ElemSize \in Nat
      BY <1>1, Product
    <2>3. c \in 0..Interval
      BY <1>1, <2>2 DEF Lower
    <2> HIDE DEF c
    <2>4. b \in 0..c
      BY <2>3, LimitBound
    <2> HIDE DEF b
    <2>5. b \div ElemSize \in 0..b
      BY <1>1, <2>3, <2>4
    <2>6. AtLeastOne(b) \in 0..Interval
      BY <1>1, <2>3, <2>4, <2>5 DEF AtLeastOne
    <2> QED
      BY <1>1, <2>1, <2>6 DEF Lower
  <1> QED
    BY <1>3, <1>4, <1>5

(* No cell is counted without a request, and none has been when a loop     *)
(* starts another chunk: an execution enters its loop, and stays in it,    *)
(* only if no interrupt is pending.                                        *)
DelayInv ==
    /\ late <= Interval
    /\ ~interrupt => late = 0
    /\ pc = "loop" => late = 0

LEMMA DelayStep == ASSUME BulkInv, DelayInv, [Next]_vars PROVE DelayInv'
  <1>0. /\ late \in Nat /\ interrupt \in BOOLEAN /\ Interval \in Nat \ {0} /\ TypeOK
    BY BulkAssumption DEF BulkInv, TypeOK
  <1>1. ASSUME pc = "loop" PROVE Chunk(op, op.size - done) \in 0..Interval
    <2>1. op \in Operation /\ op.size - done \in Nat \ {0}
      BY <1>1 DEF BulkInv, TypeOK, Looping, Operation
    <2>2. Chunk(op, op.size - done) <= Interval
      BY <1>0, <2>1, ChunkInterval
    <2>3. Chunk(op, op.size - done) \in 0..(op.size - done)
      BY <1>0, <2>1, ChunkBound
    <2> QED
      BY <1>0, <2>1, <2>2, <2>3
  <1>2. CASE DoChunk
    <2>1. PICK n \in 0..Interval : late' = IF interrupt THEN late + n ELSE late
      BY <1>1, <1>2 DEF DoChunk
    <2>2. late = 0 /\ pc' # "loop" /\ interrupt' = interrupt
      BY <1>2 DEF DoChunk, DelayInv
    <2> QED
      BY <1>0, <2>1, <2>2 DEF DelayInv
  <1>3. CASE \E k \in 0..(Interval - 1) : ElemFails(k)
    <2>1. PICK k \in 0..(Interval - 1) : late' = IF interrupt THEN late + k ELSE late
      BY <1>3 DEF ElemFails
    <2>2. late = 0 /\ pc' # "loop" /\ interrupt' = interrupt
      BY <1>3 DEF ElemFails, DelayInv
    <2> QED
      BY <1>0, <2>1, <2>2 DEF DelayInv
  <1>4. CASE ExecInterrupted \/ Check
    <2>1. CASE Yield
      BY <1>0, <2>1 DEF Yield, DelayInv
    <2>2. CASE ~interrupt /\ UNCHANGED <<interrupt, late>>
      BY <2>2 DEF DelayInv
    <2> QED
      BY <1>4, <2>1, <2>2 DEF ExecInterrupted, Check, ShouldStop
  <1>5. CASE ExecStarts
    BY <1>5 DEF ExecStarts, CheckStart, DelayInv
  <1>6. CASE Poll \/ Cancel
    BY <1>0, <1>6 DEF Poll, Cancel, DelayInv
  <1>7. CASE Tick
    BY <1>0, <1>7 DEF Tick, DelayInv
  <1>8. CASE Request
    BY <1>0, <1>8 DEF Request, DelayInv
  <1>9. CASE \/ ExecTraps \/ ExecNothing \/ Meter \/ Start \/ Resume
             \/ \E o \in Ops : Begin(o)
             \/ \E n \in 1..Capacity : ChargeWhole(n)
             \/ \E n \in 1..MaxFuel : SetFuel(n)
             \/ \E a \in Areas : Drop(a) \/ Grow(a) \/ \E i \in Addr : HostWrite(a, i)
             \/ UNCHANGED vars
    <2>1. UNCHANGED <<interrupt, late>> /\ (pc' = "loop" => pc = "loop")
      BY <1>9 DEF ExecTraps, ExecNothing, Meter, Start, Resume, Begin, ChargeWhole, SetFuel,
                  Drop, Grow, HostWrite, vars
    <2> QED
      BY <2>1 DEF DelayInv
  <1> QED
    BY <1>2, <1>3, <1>4, <1>5, <1>6, <1>7, <1>8, <1>9 DEF Next, Execute

(* After a request at most one more interval is processed before the       *)
(* activation is suspended, whatever the fuel and the sizes of elements,   *)
(* and even if every instruction is too short to be checked within.        *)
THEOREM DelayBounded == Spec => []BoundedDelay
  <1>1. Init => DelayInv
    BY BulkAssumption DEF Init, DelayInv
  <1>2. BulkInv /\ DelayInv /\ [Next]_vars => DelayInv'
    BY DelayStep
  <1>3. DelayInv => BoundedDelay
    BY DEF DelayInv, BoundedDelay
  <1> QED
    BY <1>1, <1>2, <1>3, Invariant, PTL DEF Spec

(* What a stopped instruction pushes for its rest never fails the bounds   *)
(* check when it is executed again, unless its segment was dropped.        *)
THEOREM ResumesInBounds == Spec => []ResumeInBounds
  <1>1. BulkInv => ResumeInBounds
    <2> SUFFICES ASSUME BulkInv, Begun, issued # op, ~InBounds(len, op)
                 PROVE  Class[op.sa] \in {"data", "elem"} /\ len[op.sa] = 0
      BY DEF ResumeInBounds
    <2>1. pc \notin {"loop", "check"}
      BY DEF BulkInv, Looping
    <2>2. op \in Operation /\ issued \in Operation /\ Remainder(op, issued)
      BY <2>1 DEF BulkInv, TypeOK, Sound, Begun, Left
    <2>3. /\ op.dst \in Nat /\ op.src \in Nat /\ op.size \in Nat /\ op.da \in Areas /\ op.sa \in Areas
          /\ issued.dst \in Nat /\ issued.src \in Nat /\ issued.size \in Nat
      BY <2>2 DEF Operation
    <2>4. /\ op.dst + op.size <= issued.dst + issued.size
          /\ op.kind = "copy" => op.src + op.size <= issued.src + issued.size
          /\ op.kind = issued.kind /\ op.da = issued.da /\ op.sa = issued.sa
      BY <2>2, <2>3 DEF Remainder
    <2>5. len[op.da] \in Nat /\ len[op.sa] \in Nat
      BY <2>3, AreaAssumption DEF BulkInv, TypeOK
    <2> QED
      BY <2>3, <2>4, <2>5 DEF BulkInv, Bounded, InBounds
  <1> QED
    BY <1>1, Invariant, PTL
-----------------------------------------------------------------------------
(* The operators of AtomicBulk are those of BulkOps. *)
LEMMA SameOperators ==
    /\ \A m, o, S : Atomic!Moved(m, o, S) = Moved(m, o, S)
    /\ \A o : Atomic!Dst(o) = Dst(o)
    /\ \A l, o : Atomic!InBounds(l, o) = InBounds(l, o)
    /\ Atomic!Operation = Operation /\ Atomic!Addr = Addr
  BY DEF Atomic!Moved, Moved, Atomic!Written, Written, Atomic!Dst, Dst, Atomic!InBounds, InBounds,
         Atomic!Operation, Operation, Atomic!Addr, Addr

(* The cells of a remainder lie within the areas. *)
LEMMA RemainderCells ==
    ASSUME NEW o \in Operation, NEW r \in Operation, Fits(o), Remainder(r, o)
    PROVE  \E lo, hi \in 0..Capacity : Dst(r) = lo..(hi - 1)
  <1>1. /\ r.dst \in Nat /\ r.size \in Nat /\ o.dst \in Nat /\ o.size \in Nat /\ o.da \in Areas
    BY DEF Operation
  <1>2. o.dst + o.size <= Capacity /\ Capacity \in Nat
    BY <1>1, AreaAssumption DEF Fits, InBounds
  <1>3. r.dst \in 0..Capacity /\ r.dst + r.size \in 0..Capacity
    BY <1>1, <1>2 DEF Remainder
  <1>4. Dst(r) = r.dst..((r.dst + r.size) - 1)
    BY <1>1 DEF Dst
  <1> DEFINE h == r.dst + r.size
  <1>5. Dst(r) = r.dst..(h - 1) /\ h \in 0..Capacity
    BY <1>3, <1>4
  <1> HIDE DEF h
  <1> QED
    BY <1>3, <1>5, Zenon

(* An operation that is over, with r not done, was abandoned. *)
LEMMA Abandons ==
    ASSUME Begun, op' = None, pc' \in {"ready", "trapped"}, len' = len, issued \in Operation, NEW r \in Operation,
           Fits(issued), Remainder(r, issued), Progress(before, mem', r, issued)
    PROVE  Atomic!Abandon
  <1>1. /\ issued # None /\ ~(Begun') /\ Begun
    BY BulkAssumption DEF Begun
  <1>2. PICK lo \in 0..Capacity, hi \in 0..Capacity : Dst(r) = lo..(hi - 1)
    BY RemainderCells
  <1>3. mem' = Moved(before, issued, Dst(issued) \ (lo..(hi - 1)))
    BY <1>2 DEF Progress
  <1>4. mem' = Atomic!Moved(before, issued, Atomic!Dst(issued) \ (lo..(hi - 1)))
    BY <1>3, SameOperators
  <1>5. Atomic!InBounds([a \in Areas |-> Capacity], issued)
    BY SameOperators DEF Fits
  <1> QED
    BY <1>1, <1>4, <1>5 DEF Atomic!Abandon

(* An operation that is over, with everything done, was performed. *)
LEMMA Performs ==
    ASSUME Begun, op' = None, pc \notin {"ready", "trapped"}, pc' = "code", len' = len,
           issued \in Operation, InBounds(len, issued), mem' = Moved(before, issued, Dst(issued))
    PROVE  Atomic!Perform
  <1>1. /\ issued # None /\ ~(Begun') /\ Begun
    BY BulkAssumption DEF Begun
  <1>2. Atomic!InBounds(len, issued) /\ mem' = Atomic!Moved(before, issued, Atomic!Dst(issued))
    BY SameOperators
  <1> QED
    BY <1>1, <1>2 DEF Atomic!Perform

(* If an execution is in bounds, all of the operation is. *)
LEMMA Whole ==
    ASSUME BulkInv, Begun, pc \in {"exec", "loop", "check"}, InBounds(len, op)
    PROVE  InBounds(len, issued)
  <1>1. /\ op \in Operation /\ issued \in Operation
        /\ op.kind = issued.kind /\ op.da = issued.da /\ op.sa = issued.sa
    <2>1. op \in Operation /\ issued \in Operation /\ Remainder(Left, issued)
      BY DEF BulkInv, TypeOK, Sound, Begun
    <2>2. Left.kind = op.kind /\ Left.da = op.da /\ Left.sa = op.sa
      <3>1. CASE pc = "exec"
        BY <3>1 DEF Left
      <3>2. CASE pc \in {"loop", "check"}
        <4>1. done \in 0..op.size
          BY <2>1, <3>2 DEF BulkInv, TypeOK, Looping, Operation
        <4> QED
          BY <2>1, <3>2, <4>1, RestFields DEF Left
      <3> QED
        BY <3>1, <3>2
    <2> QED
      BY <2>1, <2>2 DEF Remainder
  <1>2. CASE op = issued
    BY <1>2
  <1>3. CASE op # issued
    <2>1. op.src \in Nat /\ op.size \in Nat
      BY <1>1 DEF Operation
    <2> QED
      BY <1>1, <1>3, <2>1 DEF BulkInv, Bounded, InBounds
  <1> QED
    BY <1>2, <1>3

(* Steps of which AtomicBulk sees nothing. *)
LEMMA Unseen ==
    ASSUME UNCHANGED <<issued, before, len>>, Begun' = Begun, mem' = mem \/ Begun,
           (pc' \in {"ready", "trapped"}) = (pc \in {"ready", "trapped"})
    PROVE  UNCHANGED Atomic!vars
  BY DEF Atomic!vars

(* A bounds check fails. *)
LEMMA TrapsAtomic ==
    ASSUME BulkInv, ExecTraps
    PROVE  Atomic!Next
  <1>1. /\ Begun /\ op \in Operation /\ issued \in Operation /\ Left = op
        /\ op' = None /\ len' = len /\ mem' = mem /\ issued' = issued /\ before' = before
        /\ pc' = "trapped"
    BY DEF BulkInv, TypeOK, Sound, Begun, ExecTraps, Left, areas, ghosts
  <1>2. Remainder(op, issued) /\ Progress(before, mem, op, issued)
    BY <1>1 DEF BulkInv, Sound
  <1>3. CASE op = issued
    <2>1. mem = before
      <3>1. before \in Contents /\ Dst(issued) \ Dst(issued) = {}
        BY DEF BulkInv, TypeOK, Contents
      <3>2. mem = Moved(before, issued, {})
        BY <1>2, <1>3, <3>1 DEF Progress
      <3> QED
        BY <1>1, <3>1, <3>2 DEF Moved, Contents, Operation
    <2>2. ~Atomic!InBounds(len, issued)
      BY <1>3, SameOperators DEF ExecTraps
    <2>3. Atomic!Reject
      BY <1>1, <2>1, <2>2, BulkAssumption DEF Atomic!Reject, Begun
    <2> QED
      BY <2>3 DEF Atomic!Next
  <1>4. CASE op # issued
    <2>1. Fits(issued)
      BY <1>1, <1>4 DEF BulkInv, Bounded
    <2>2. Atomic!Abandon
      BY <1>1, <1>2, <2>1, Abandons
    <2> QED
      BY <2>2 DEF Atomic!Next
  <1> QED
    BY <1>3, <1>4

(* Nothing is to be done: there are no cells, or table entries would be    *)
(* copied onto themselves.                                                 *)
LEMMA NothingAtomic ==
    ASSUME BulkInv, ExecNothing
    PROVE  Atomic!Next
  <1>1. /\ Begun /\ op \in Operation /\ issued \in Operation /\ Left = op
        /\ op' = None /\ len' = len /\ mem' = mem /\ issued' = issued /\ before' = before
        /\ pc = "exec" /\ pc' = "code" /\ InBounds(len, op) /\ Nothing(op)
    BY DEF BulkInv, TypeOK, Sound, Begun, ExecNothing, Left, areas, ghosts
  <1>2. Remainder(op, issued) /\ Progress(before, mem, op, issued) /\ before \in Contents
    BY <1>1 DEF BulkInv, TypeOK, Sound, Contents
  <1>3. InBounds(len, issued)
    BY <1>1, Whole
  <1>4. CASE issued.size = 0
    <2>1. Dst(issued) = {}
      BY <1>1, <1>4 DEF Dst, Operation
    <2>2. Dst(issued) \ Dst(op) = Dst(issued)
      BY <2>1
    <2>3. mem = Moved(before, issued, Dst(issued))
      BY <1>2, <2>2 DEF Progress
    <2> QED
      BY <1>1, <1>3, <2>3, Performs DEF Atomic!Next
  <1>5. CASE issued.size # 0
    <2>1. op.size # 0
      BY <1>1, <1>5 DEF BulkInv, Bounded, Operation
    <2>2. /\ op.kind = "copy" /\ op.da = op.sa /\ op.dst = op.src
          /\ op.src \in Nat /\ issued.src \in Nat /\ issued.dst \in Nat
      BY <1>1, <2>1 DEF Nothing, Operation
    <2>3. issued.kind = "copy" /\ issued.da = issued.sa /\ issued.dst = issued.src
      BY <1>2, <2>2 DEF Remainder
    <2>4. \A i \in Addr : Written(before, issued, i) = before[issued.da][i]
      <3> TAKE i \in Addr
      <3>1. issued.src + (i - issued.dst) = i
        BY <2>2, <2>3 DEF Addr
      <3> QED
        BY <2>3, <3>1 DEF Written
    <2>5. ASSUME NEW S PROVE Moved(before, issued, S) = before
      BY <1>1, <1>2, <2>4 DEF Moved, Contents, Operation
    <2>6. mem = Moved(before, issued, Dst(issued))
      BY <1>2, <2>5 DEF Progress
    <2> QED
      BY <1>1, <1>3, <2>6, Performs DEF Atomic!Next
  <1> QED
    BY <1>4, <1>5

(* A chunk is done: the last one completes the operation. *)
LEMMA DoChunkAtomic ==
    ASSUME BulkInv, DoChunk
    PROVE  Atomic!Next \/ UNCHANGED Atomic!vars
  <1> DEFINE n == Chunk(op, op.size - done)
  <1>1. /\ Begun /\ op \in Operation /\ done \in Nat /\ done < op.size /\ TypeOK
        /\ len' = len /\ issued' = issued /\ before' = before
    BY DEF BulkInv, TypeOK, Begun, DoChunk, Looping
  <1>2. n \in Nat /\ n <= op.size - done
    <2>1. op.size - done \in Nat \ {0}
      BY <1>1 DEF Operation
    <2>2. n \in 0..(op.size - done)
      BY <1>1, <2>1, ChunkBound
    <2> QED
      BY <2>1, <2>2
  <1>3. mem' = Moved(mem, op, ChunkCells(op, done, n)) /\ done' = done + n
    BY DEF DoChunk
  <1>4. CASE done' # op.size
    BY <1>1, <1>4, Unseen DEF DoChunk, Begun
  <1>5. CASE done' = op.size
    <2>1. /\ Remainder(Rest(op, done + n), issued)
          /\ Progress(before, mem', Rest(op, done + n), issued)
          /\ Fits(issued) /\ issued \in Operation
      BY <1>2, <1>3, ChunkInv DEF DoChunk
    <2>2. done + n \in 0..op.size
      BY <1>1, <1>2 DEF Operation
    <2>3. Rest(op, done + n) \in Operation /\ Rest(op, done + n).size = 0
      BY <1>1, <1>3, <1>5, <2>2, RestFields DEF Operation
    <2>4. Dst(Rest(op, done + n)) = {}
      BY <2>3 DEF Dst, Operation
    <2>5. Dst(issued) \ Dst(Rest(op, done + n)) = Dst(issued)
      BY <2>4
    <2>6. mem' = Moved(before, issued, Dst(issued))
      BY <2>1, <2>5 DEF Progress
    <2>7. op' = None /\ pc' = "code" /\ pc = "loop"
      BY <1>5 DEF DoChunk
    <2>8. InBounds(len, issued)
      BY <1>1, <2>7, Whole DEF BulkInv, Looping
    <2> QED
      BY <1>1, <2>1, <2>6, <2>7, <2>8, Performs DEF Atomic!Next
  <1> QED
    BY <1>4, <1>5

(* An element fails: the operation is abandoned behind the ones before it. *)
LEMMA ElemFailsAtomic ==
    ASSUME BulkInv, NEW k \in 0..(Interval - 1), ElemFails(k)
    PROVE  Atomic!Next
  <1>1. /\ Begun /\ op \in Operation /\ done \in Nat /\ done < op.size /\ TypeOK
        /\ len' = len /\ op' = None /\ pc' = "trapped"
    BY DEF BulkInv, TypeOK, Begun, ElemFails, Looping
  <1>2. k \in Nat /\ k <= op.size - done
    <2>1. op.size - done \in Nat \ {0}
      BY <1>1 DEF Operation
    <2>2. Chunk(op, op.size - done) \in 0..(op.size - done)
      BY <1>1, <2>1, ChunkBound
    <2> QED
      BY <2>1, <2>2, BulkAssumption DEF ElemFails
  <1>3. /\ Remainder(Rest(op, done + k), issued)
        /\ Progress(before, mem', Rest(op, done + k), issued)
        /\ Fits(issued) /\ issued \in Operation
    BY <1>2, ChunkInv DEF ElemFails
  <1>4. done + k \in 0..op.size
    BY <1>1, <1>2 DEF Operation
  <1>5. Rest(op, done + k) \in Operation
    BY <1>1, <1>4, RestFields
  <1>6. Atomic!Abandon
    BY <1>1, <1>3, <1>5, Abandons
  <1> QED
    BY <1>6 DEF Atomic!Next

(* A suspended activation is cancelled. *)
LEMMA CancelAtomic ==
    ASSUME BulkInv, Cancel
    PROVE  Atomic!Next \/ UNCHANGED Atomic!vars
  <1>1. /\ len' = len /\ mem' = mem /\ issued' = issued /\ before' = before /\ op' = None
        /\ pc' = "ready" /\ pc \in {"suspended", "trapped"}
    BY DEF Cancel, areas, ghosts
  <1>2. CASE ~Begun
    <2>1. CASE pc = "trapped"
      BY <1>1, <1>2, <2>1, Unseen DEF Begun
    <2>2. CASE pc = "suspended"
      <3>1. Atomic!StartOrStop
        BY <1>1, <1>2, <2>2 DEF Atomic!StartOrStop, Begun
      <3> QED
        BY <3>1 DEF Atomic!Next
    <2> QED
      BY <1>1, <2>1, <2>2
  <1>3. CASE Begun
    <2>1. /\ op \in Operation /\ issued \in Operation /\ Left = op
      BY <1>3 DEF BulkInv, TypeOK, Sound, Begun, Left, Cancel
    <2>2. Remainder(op, issued) /\ Progress(before, mem, op, issued)
      BY <1>3, <2>1 DEF BulkInv, Sound
    <2>3. CASE op # issued
      <3>1. Fits(issued)
        BY <1>3, <2>3 DEF BulkInv, Bounded
      <3>2. Atomic!Abandon
        BY <1>1, <1>3, <2>1, <2>2, <3>1, Abandons
      <3> QED
        BY <3>2 DEF Atomic!Next
    <2>4. CASE op = issued
      <3>1. before \in Contents /\ Dst(issued) \ Dst(issued) = {}
        BY DEF BulkInv, TypeOK, Contents
      <3>2. mem = Moved(before, issued, {})
        BY <2>2, <2>4, <3>1 DEF Progress
      <3>3. mem = before
        BY <2>1, <3>1, <3>2 DEF Moved, Contents, Operation
      <3>4. Atomic!Abandon
        BY <1>1, <1>3, <2>1, <3>3, BulkAssumption DEF Atomic!Abandon, Begun
      <3> QED
        BY <3>4 DEF Atomic!Next
    <2> QED
      BY <2>3, <2>4
  <1> QED
    BY <1>2, <1>3

(* Every step is one of AtomicBulk, or unseen there. *)
LEMMA NextAtomic ==
    ASSUME BulkInv, [Next]_vars
    PROVE  Atomic!Next \/ UNCHANGED Atomic!vars
  <1>1. CASE ExecInterrupted \/ ExecStarts \/ Meter \/ Tick \/ Poll \/ Request \/ Resume
    <2>1. UNCHANGED <<issued, before, len, op, mem>>
      BY <1>1 DEF ExecInterrupted, ExecStarts, Meter, Tick, Poll, Request, Resume, areas, ghosts
    <2>2. \/ pc' = pc
          \/ pc \notin {"ready", "trapped"} /\ pc' \in {"suspended", "loop", "code", "exec"}
      BY <1>1 DEF ExecInterrupted, Yield, ExecStarts, Meter, Tick, Poll, Request, Resume
    <2> QED
      BY <2>1, <2>2, Unseen DEF Begun
  <1>2. CASE ExecTraps
    BY <1>2, TrapsAtomic
  <1>3. CASE ExecNothing
    BY <1>3, NothingAtomic
  <1>4. CASE DoChunk
    BY <1>4, DoChunkAtomic
  <1>5. CASE Check
    <2>1. op \in Operation /\ op # None /\ done \in 0..op.size
      BY <1>5 DEF BulkInv, TypeOK, Check, Looping, Operation
    <2>2. Rest(op, done) # None
      BY <2>1, RestFields, BulkAssumption
    <2>3. UNCHANGED <<issued, before, len, mem>> /\ op' # None
      BY <1>5, <2>1, <2>2 DEF Check, areas, ghosts
    <2>4. pc = "check" /\ pc' \in {"loop", "suspended"}
      BY <1>5 DEF Check, Yield
    <2> QED
      BY <2>1, <2>3, <2>4, Unseen DEF Begun
  <1>6. ASSUME NEW o \in Ops, Begin(o) PROVE Atomic!Next
    <2>1. o \in Operation /\ o # None
      BY BulkAssumption, AreaAssumption DEF Ops, Operation
    <2>2. op = None /\ op' = o /\ issued' = o /\ before' = mem /\ len' = len /\ pc = "code" /\ pc' = "exec"
      BY <1>6 DEF Begin, areas, BulkInv, TypeOK
    <2>3. Atomic!Begin
      BY <2>1, <2>2, SameOperators DEF Atomic!Begin, Begun
    <2> QED
      BY <2>3 DEF Atomic!Next
  <1>7. CASE \E k \in 0..(Interval - 1) : ElemFails(k)
    BY <1>7, ElemFailsAtomic
  <1>8. CASE Cancel
    BY <1>8, CancelAtomic
  <1>9. CASE (\E n \in 1..Capacity : ChargeWhole(n)) \/ (\E n \in 1..MaxFuel : SetFuel(n))
    <2>1. UNCHANGED <<pc, issued, before, len, op, mem>>
      BY <1>9 DEF ChargeWhole, SetFuel, areas, ghosts
    <2> QED
      BY <2>1, Unseen DEF Begun
  <1>10. ASSUME NEW a \in Areas, Drop(a) \/ Grow(a) PROVE Atomic!Next
    <2>1. PICK n \in 0..Capacity : (n > len[a] \/ n = 0) /\ len' = [len EXCEPT ![a] = n]
      <3>1. CASE Drop(a)
        <4>1. 0 \in 0..Capacity /\ len' = [len EXCEPT ![a] = 0]
          BY <3>1, AreaAssumption DEF Drop
        <4> QED
          BY <4>1, Zenon
      <3>2. CASE Grow(a)
        <4>1. len[a] + 1 \in 0..Capacity /\ len[a] + 1 > len[a]
          BY <3>2, AreaAssumption DEF Grow, BulkInv, TypeOK
        <4>2. len' = [len EXCEPT ![a] = len[a] + 1]
          BY <3>2 DEF Grow, BulkInv, TypeOK
        <4> QED
          BY <4>1, <4>2, Zenon
      <3> QED
        BY <1>10, <3>1, <3>2
    <2>2. UNCHANGED <<pc, issued, before, op, mem>>
      BY <1>10 DEF Drop, Grow, ghosts
    <2>3. Atomic!Resize
      BY <2>1, <2>2 DEF Atomic!Resize, Begun
    <2> QED
      BY <2>3 DEF Atomic!Next
  <1>11. ASSUME NEW a \in Areas, NEW i \in Addr, HostWrite(a, i) PROVE Atomic!Next
    <2>1. /\ Begun /\ op' = op /\ issued' = issued /\ len' = len /\ pc' = pc
          /\ a = issued.da => i \notin Dst(issued)
          /\ before' = [before EXCEPT ![a][i] = Host]
      BY <1>11 DEF HostWrite, Begun
    <2>2. Host \in Values /\ i \in Atomic!Addr /\ (a = issued.da => i \notin Atomic!Dst(issued))
      BY <2>1, BulkAssumption, SameOperators
    <2>3. Atomic!Write
      BY <2>1, <2>2 DEF Atomic!Write, Begun
    <2> QED
      BY <2>3 DEF Atomic!Next
  <1>12. CASE UNCHANGED vars
    BY <1>12, Unseen DEF vars, areas, ghosts, Begun
  <1>13. CASE Start
    <2>1. /\ UNCHANGED <<issued, before, len, op, mem>> /\ ~Begun /\ pc = "ready" /\ pc' = "suspended"
      BY <1>13 DEF Start, areas, ghosts, BulkInv, TypeOK, Begun
    <2>2. Atomic!StartOrStop
      BY <2>1 DEF Atomic!StartOrStop, Begun
    <2> QED
      BY <2>2 DEF Atomic!Next
  <1> QED
    BY <1>1, <1>2, <1>3, <1>4, <1>5, <1>6, <1>7, <1>8, <1>9, <1>10, <1>11, <1>12, <1>13 DEF Next, Execute

(* However often it is stopped and executed again, a bulk instruction has  *)
(* the effect of one atomic step, or of the abandonment of a part.         *)
THEOREM Refinement == Spec => ImplementsAtomic
  <1>1. Init => Atomic!Init
    <2> SUFFICES ASSUME Init PROVE Atomic!Init
      OBVIOUS
    <2>1. ~Begun /\ pc = "ready" /\ mem \in [Areas -> [Atomic!Addr -> Values]] /\ len \in [Areas -> 0..Capacity]
      BY BulkAssumption, SameOperators DEF Init, Begun
    <2> QED
      BY <2>1 DEF Atomic!Init
  <1>2. BulkInv /\ [Next]_vars => [Atomic!Next]_Atomic!vars
    BY NextAtomic
  <1> QED
    BY <1>1, <1>2, Invariant, PTL DEF Spec, ImplementsAtomic, Atomic!Spec
-----------------------------------------------------------------------------
(* Fuel.  A chunk is rounded up to whole units of fuel, so that the sum of *)
(* the charges is exact only if every chunk but the last is whole units:   *)
(* the interval has to be a multiple of WAH_BULK_ITEMS_PER_FUEL, and that  *)
(* of the element size, as they are by default.                            *)
WholeUnits ==
    /\ \E q \in Nat : Items = q * ElemSize
    /\ \E q \in Nat : Interval = q * Items

LEMMA Distribute ==
    ASSUME NEW a \in Nat, NEW b \in Nat, NEW u \in Nat
    PROVE  (a + b) * u = a * u + b * u /\ a * u \in Nat /\ b * u \in Nat
  OBVIOUS

LEMMA Monotone ==
    ASSUME NEW a \in Nat, NEW b \in Nat, NEW u \in Nat, a <= b
    PROVE  a * u <= b * u
  OBVIOUS

LEMMA Associate ==
    ASSUME NEW a \in Nat, NEW b \in Nat, NEW u \in Nat
    PROVE  (a * b) * u = a * (b * u)
  OBVIOUS

LEMMA Quotient ==
    ASSUME NEW q \in Nat, NEW u \in Nat \ {0}
    PROVE  (q * u) \div u = q
  OBVIOUS

LEMMA CeilExact ==
    ASSUME NEW q \in Nat, NEW i \in Nat \ {0}
    PROVE  (q * i + i - 1) \div i = q
  OBVIOUS

LEMMA CeilBounds ==
    ASSUME NEW x \in Nat, NEW i \in Nat \ {0}
    PROVE  /\ (x + i - 1) \div i \in Nat
           /\ x <= ((x + i - 1) \div i) * i
           /\ ((x + i - 1) \div i) * i <= x + i - 1
  OBVIOUS

(* A charge g for T items that is less than b + 1 units too high, and not  *)
(* too low, is at most b units more than the d units that are due.         *)
LEMMA Settled ==
    ASSUME NEW T \in Nat, NEW g \in Nat, NEW b \in Nat, NEW i \in Nat \ {0}, NEW d \in Nat,
           T <= g * i, g * i <= T + b * i + i - 1, T <= d * i, d * i <= T + i - 1
    PROVE  g \in d..(d + b)
  <1>1. ASSUME g < d PROVE FALSE
    <2>1. (g + 1) * i <= d * i
      BY <1>1, Monotone
    <2>2. (g + 1) * i = g * i + 1 * i /\ g * i \in Nat
      BY Distribute
    <2> QED
      BY <2>1, <2>2
  <1>2. ASSUME g > d + b PROVE FALSE
    <2>1. (d + b + 1) * i <= g * i
      BY <1>2, Monotone
    <2>2. (d + b + 1) * i = d * i + b * i + i /\ d * i \in Nat /\ b * i \in Nat
      OBVIOUS
    <2> QED
      BY <2>1, <2>2
  <1> QED
    BY <1>1, <1>2

(* Bytes that are whole units are whole elements. *)
LEMMA WholeElements ==
    ASSUME WholeUnits, NEW q \in Nat \ {0}
    PROVE  /\ q * Items \in Nat
           /\ AtLeastOne(q * Items) \in Nat
           /\ AtLeastOne(q * Items) * ElemSize = q * Items
  <1>1. ElemSize \in Nat \ {0} /\ Items \in Nat \ {0}
    BY BulkAssumption
  <1>2. PICK r \in Nat : Items = r * ElemSize
    BY DEF WholeUnits
  <1>3. r # 0
    BY <1>1, <1>2
  <1>4. PICK k \in Nat : k = q * r /\ k > 0
    <2>1. q * r \in Nat /\ q * r > 0
      BY <1>3
    <2> QED
      BY <2>1
  <1>5. q * Items = k * ElemSize
    BY <1>1, <1>2, <1>4, Associate
  <1>6. (k * ElemSize) \div ElemSize = k
    BY <1>1, Quotient
  <1>7. k * ElemSize \in Nat /\ (k * ElemSize > ElemSize \/ k = 1)
    <2>1. CASE k = 1
      BY <1>1, <2>1
    <2>2. CASE k # 1
      <3>1. 2 * ElemSize <= k * ElemSize /\ k * ElemSize \in Nat
        BY <1>1, <1>4, <2>2, Monotone, Product
      <3> QED
        BY <1>1, <3>1
    <2> QED
      BY <2>1, <2>2
  <1>8. AtLeastOne(k * ElemSize) = k
    BY <1>1, <1>6, <1>7 DEF AtLeastOne
  <1> QED
    BY <1>5, <1>7, <1>8

(* The fuel limit of a chunk is the chunk, or whole units of fuel. *)
LEMMA LimitWhole ==
    ASSUME TypeOK, metered, ~OutOfFuel, NEW c \in Nat, FuelLimit(c) # c
    PROVE  \E q \in Nat \ {0} : FuelLimit(c) = q * Items
  <1>1. fuel + 1 \in Nat \ {0} /\ Items \in Nat
    BY BulkAssumption DEF TypeOK, OutOfFuel
  <1>2. FuelLimit(c) = Lower(c, (fuel + 1) * Items)
    BY DEF FuelLimit, OutOfFuel
  <1>3. FuelLimit(c) = (fuel + 1) * Items
    BY <1>2 DEF Lower
  <1> QED
    BY <1>1, <1>3

(* A chunk is the last one, was done without fuel, or is whole units.      *)
LEMMA ChunkWhole ==
    ASSUME WholeUnits, TypeOK, metered, ~OutOfFuel,
           NEW o \in Operation, NEW l \in Nat \ {0}, Chunk(o, l) # l
    PROVE  \E q \in Nat : ItemsOf(o, Chunk(o, l)) = q * Items
  <1>1. ElemSize \in Nat \ {0} /\ Interval \in Nat \ {0} /\ Items \in Nat \ {0}
    BY BulkAssumption
  <1>2. PICK w \in Nat : Interval = w * Items
    BY DEF WholeUnits
  <1>3. w # 0
    BY <1>1, <1>2
  <1>4. CASE ~ByBytes(o)
    <2>1. ItemsOf(o, Chunk(o, l)) = FuelLimit(Lower(l, Interval)) /\ Chunk(o, l) = FuelLimit(Lower(l, Interval))
      BY <1>4 DEF Chunk, ItemsOf
    <2>2. Lower(l, Interval) \in Nat /\ Lower(l, Interval) \in {l, Interval}
      BY <1>1 DEF Lower
    <2>3. CASE FuelLimit(Lower(l, Interval)) = Lower(l, Interval)
      BY <1>2, <2>1, <2>2, <2>3
    <2>4. CASE FuelLimit(Lower(l, Interval)) # Lower(l, Interval)
      BY <2>1, <2>2, <2>4, LimitWhole
    <2> QED
      BY <2>3, <2>4
  <1>5. CASE ByBytes(o) /\ o.kind = "fill"
    <2> DEFINE n == Lower(l, Interval)
               b == FuelLimit(n * ElemSize)
    <2>1. Chunk(o, l) = IF b < n * ElemSize THEN AtLeastOne(b) ELSE n
      BY <1>5 DEF Chunk
    <2>2. n \in Nat /\ n \in {l, Interval}
      BY <1>1 DEF Lower
    <2> HIDE DEF n
    <2>3. n * ElemSize \in Nat
      BY <1>1, <2>2, Product
    <2>4. b \in 0..(n * ElemSize)
      BY <2>3, LimitBound
    <2>5. b # n * ElemSize => \E q \in Nat \ {0} : b = q * Items
      BY <2>3, LimitWhole
    <2>6. ItemsOf(o, Chunk(o, l)) = Chunk(o, l) * ElemSize
      BY <1>5 DEF ItemsOf
    <2> HIDE DEF b
    <2>7. CASE b < n * ElemSize
      <3>1. PICK q \in Nat \ {0} : b = q * Items
        BY <2>4, <2>5, <2>7
      <3>2. AtLeastOne(b) * ElemSize = q * Items
        BY <3>1, WholeElements
      <3> QED
        BY <2>1, <2>6, <2>7, <3>2
    <2>8. CASE ~(b < n * ElemSize)
      <3>1. Chunk(o, l) = Interval
        BY <2>1, <2>2, <2>8
      <3>2. Interval * ElemSize = (w * ElemSize) * Items /\ w * ElemSize \in Nat
        BY <1>1, <1>2, Product
      <3> QED
        BY <2>6, <3>1, <3>2
    <2> QED
      BY <2>7, <2>8
  <1>6. CASE ByBytes(o) /\ o.kind # "fill"
    <2> DEFINE c == Lower(l * ElemSize, Interval)
               b == FuelLimit(c)
    <2>1. Chunk(o, l) = Lower(AtLeastOne(b), l)
      BY <1>6 DEF Chunk
    <2>2. l * ElemSize \in Nat
      BY <1>1, Product
    <2>3. c \in Nat /\ c \in {l * ElemSize, Interval}
      BY <1>1, <2>2 DEF Lower
    <2> HIDE DEF c
    <2>4. b = c \/ \E q \in Nat \ {0} : b = q * Items
      BY <2>3, LimitWhole
    <2>5. ItemsOf(o, Chunk(o, l)) = Chunk(o, l) * ElemSize
      BY <1>6 DEF ItemsOf
    <2> HIDE DEF b
    <2>6. CASE b = l * ElemSize
      <3>1. (l * ElemSize) \div ElemSize = l
        BY <1>1, Quotient
      <3>2. AtLeastOne(b) \in {l, 1}
        BY <2>6, <3>1 DEF AtLeastOne
      <3>3. l = 1 \/ l * ElemSize > ElemSize
        <4>1. l # 1 => 2 * ElemSize <= l * ElemSize
          BY <1>1, Monotone
        <4> QED
          BY <1>1, <2>2, <4>1
      <3>4. AtLeastOne(b) = l
        BY <2>6, <3>1, <3>2, <3>3 DEF AtLeastOne
      <3>5. Chunk(o, l) = l
        BY <2>1, <3>4 DEF Lower
      <3> QED
        BY <3>5
    <2>7. CASE \E q \in Nat \ {0} : b = q * Items
      <3>1. PICK q \in Nat \ {0} : b = q * Items
        BY <2>7
      <3>2. AtLeastOne(b) \in Nat /\ AtLeastOne(b) * ElemSize = q * Items
        BY <3>1, WholeElements
      <3>3. Chunk(o, l) = AtLeastOne(b)
        BY <2>1, <3>2 DEF Lower
      <3> QED
        BY <2>5, <3>2, <3>3
    <2>8. CASE b = Interval
      BY <1>2, <1>3, <2>7, <2>8
    <2> QED
      BY <2>3, <2>4, <2>6, <2>7, <2>8
  <1> QED
    BY <1>4, <1>5, <1>6

(* Cells that are not done yet. *)
Undone == IF pc \in {"loop", "check"} THEN op.size - done ELSE op.size

(* What an operation was charged so far: for the items done, and up to one *)
(* unit more for each chunk that was done without fuel.                    *)
PaidFor(items, g, b) ==
    IF metered THEN items <= g * Items /\ g * Items <= items + b * Items ELSE g = 0

Paid == Begun => PaidFor(ItemsOf(issued, issued.size - Undone), charged, broke)

(* What is left has the areas of the operation, and is no larger. *)
LEMMA UndoneFacts ==
    ASSUME BulkInv, Begun
    PROVE  /\ op \in Operation /\ issued \in Operation /\ ByBytes(op) = ByBytes(issued)
           /\ Undone \in Nat /\ issued.size - Undone \in Nat
  <1>1. op \in Operation /\ issued \in Operation /\ Remainder(Left, issued)
    BY DEF BulkInv, TypeOK, Sound, Begun
  <1>2. /\ Left \in Operation /\ Left.da = op.da /\ Left.sa = op.sa /\ Left.size = Undone
    <2>1. CASE pc \notin {"loop", "check"}
      BY <1>1, <2>1 DEF Left, Undone
    <2>2. CASE pc \in {"loop", "check"}
      <3>1. done \in 0..op.size
        BY <1>1, <2>2 DEF BulkInv, TypeOK, Looping, Operation
      <3> QED
        BY <1>1, <2>2, <3>1, RestFields DEF Left, Undone
    <2> QED
      BY <2>1, <2>2
  <1>3. /\ Left.dst \in Nat /\ Left.size \in Nat /\ issued.dst \in Nat /\ issued.size \in Nat
        /\ issued.dst <= Left.dst /\ Left.dst + Left.size <= issued.dst + issued.size
    BY <1>1, <1>2 DEF Remainder, Operation
  <1>4. PICK i \in Nat, j \in Nat, k \in Nat, m \in Nat :
            i = Left.dst /\ j = Left.size /\ k = issued.dst /\ m = issued.size
    BY <1>3
  <1>5. m - j \in Nat
    BY <1>3, <1>4
  <1> QED
    BY <1>1, <1>2, <1>3, <1>4, <1>5 DEF Remainder, ByBytes

(* Steps that do and charge nothing. *)
LEMMA PaidKept ==
    ASSUME Paid, UNCHANGED <<issued, charged, broke, metered>>, Begun' => Begun /\ Undone' = Undone
    PROVE  Paid'
  BY DEF Paid, PaidFor, ItemsOf, ByBytes

(* The account after another chunk of x items. *)
LEMMA ChunkPaid ==
    ASSUME NEW T \in Nat, NEW x \in Nat, NEW g \in Nat, NEW b \in Nat, NEW i \in Nat \ {0},
           T <= g * i, g * i <= T + b * i
    PROVE  LET c == (x + i - 1) \div i IN
           /\ c \in Nat
           /\ T + x <= (g + c) * i
           /\ (g + c) * i <= (T + x) + b * i + i - 1
           /\ (g + c) * i <= (T + x) + (b + 1) * i
           /\ (\E q \in Nat : x = q * i) => (g + c) * i <= (T + x) + b * i
  <1> DEFINE c == (x + i - 1) \div i
  <1>1. c \in Nat /\ x <= c * i /\ c * i <= x + i - 1
    BY CeilBounds
  <1>2. ASSUME NEW q \in Nat, x = q * i PROVE c = q
    BY <1>2, CeilExact
  <1> HIDE DEF c
  <1>3. (g + c) * i = g * i + c * i /\ g * i \in Nat /\ c * i \in Nat
    BY <1>1, Distribute
  <1>4. (b + 1) * i = b * i + i /\ b * i \in Nat
    BY Distribute
  <1>5. PICK gi \in Nat, ci \in Nat, bi \in Nat : gi = g * i /\ ci = c * i /\ bi = b * i
    BY <1>3, <1>4
  <1>6. /\ T + x <= gi + ci
        /\ gi + ci <= (T + x) + bi + i - 1
        /\ gi + ci <= (T + x) + (bi + i)
        /\ ci = x => gi + ci <= (T + x) + bi
    BY <1>1, <1>5
  <1>7. (\E q \in Nat : x = q * i) => ci = x
    BY <1>2, <1>5
  <1> QED
    BY <1>1, <1>3, <1>4, <1>5, <1>6, <1>7 DEF c

(* A chunk, and the charge for it. *)
LEMMA DoChunkPaid ==
    ASSUME WholeUnits, BulkInv, Paid, DoChunk
    PROVE  Paid' /\ (pc' = "code" => LET due == Cost(ItemsOf(issued, issued.size))
                                     IN  charged' \in due..(due + broke'))
  <1> DEFINE n == Chunk(op, op.size - done)
  <1>1. /\ Begun /\ TypeOK /\ pc = "loop" /\ op \in Operation /\ done \in Nat /\ done < op.size
        /\ Undone = op.size - done /\ op.size \in Nat
        /\ charged \in Nat /\ broke \in Nat /\ metered \in BOOLEAN
    BY DEF BulkInv, TypeOK, Begun, DoChunk, Looping, Undone, Operation
  <1>2. /\ done' = done + n /\ charged' = charged + Cost(ItemsOf(op, n))
        /\ broke' = IF OutOfFuel /\ n > 0 THEN broke + 1 ELSE broke
        /\ metered' = metered /\ issued' = issued
        /\ pc' = IF done' = op.size THEN "code" ELSE "check"
        /\ op' = IF done' = op.size THEN None ELSE op
    BY DEF DoChunk
  <1>3. op.size - done \in Nat \ {0}
    BY <1>1
  <1>4. n \in 0..(op.size - done)
    BY <1>1, <1>3, ChunkBound
  <1>5. metered /\ ~OutOfFuel /\ n # op.size - done => \E q \in Nat : ItemsOf(op, n) = q * Items
    BY <1>1, <1>3, ChunkWhole
  <1> HIDE DEF n
  <1>6. /\ issued \in Operation /\ ByBytes(op) = ByBytes(issued)
        /\ issued.size - Undone \in Nat /\ issued.size \in Nat
    BY <1>1, UndoneFacts DEF Operation
  <1>7. PICK T \in Nat, x \in Nat :
            /\ T = ItemsOf(issued, issued.size - Undone) /\ x = ItemsOf(op, n)
            /\ T + x = ItemsOf(issued, (issued.size - Undone) + n)
    <2>1. n \in Nat /\ ElemSize \in Nat
      BY <1>3, <1>4, BulkAssumption
    <2>2. CASE ByBytes(op)
      BY <1>6, <2>1, <2>2, Distribute DEF ItemsOf
    <2>3. CASE ~ByBytes(op)
      BY <1>6, <2>1, <2>3 DEF ItemsOf
    <2> QED
      BY <2>2, <2>3
  <1>8. PaidFor(T, charged, broke)
    BY <1>1, <1>7 DEF Paid
  <1>9. CASE ~metered
    <2>1. charged' = 0
      BY <1>2, <1>8, <1>9 DEF PaidFor, Cost
    <2>2. PICK b \in Nat : b = broke'
      BY <1>1, <1>2
    <2>3. Paid'
      BY <1>2, <1>9, <2>1 DEF Paid, PaidFor
    <2>4. Cost(ItemsOf(issued, issued.size)) = 0
      BY <1>9 DEF Cost
    <2>5. 0 \in 0..(0 + b)
      OBVIOUS
    <2> QED
      BY <2>1, <2>2, <2>3, <2>4, <2>5
  <1>10. CASE metered
    <2> DEFINE c == (x + Items - 1) \div Items
    <2>0. Items \in Nat \ {0}
      BY BulkAssumption
    <2>1. charged' = charged + c
      BY <1>2, <1>7, <1>10 DEF Cost
    <2>2. T <= charged * Items /\ charged * Items <= T + broke * Items
      BY <1>8, <1>10 DEF PaidFor
    <2>3. /\ c \in Nat
          /\ T + x <= (charged + c) * Items
          /\ (charged + c) * Items <= (T + x) + broke * Items + Items - 1
          /\ (charged + c) * Items <= (T + x) + (broke + 1) * Items
          /\ (\E q \in Nat : x = q * Items) => (charged + c) * Items <= (T + x) + broke * Items
      BY <1>1, <2>0, <2>2, ChunkPaid
    <2> HIDE DEF c
    <2>4. CASE done' # op.size
      <3>1. /\ pc' = "check" /\ op' = op /\ Undone' = op.size - (done + n)
        BY <1>2, <2>4 DEF Undone
      <3>2. issued.size - (op.size - (done + n)) = (issued.size - Undone) + n
        BY <1>1, <1>3, <1>4, <1>6
      <3>3. ItemsOf(issued, issued.size - Undone)' = T + x
        <4>1. (issued.size - Undone)' = (issued.size - Undone) + n
          BY <1>2, <3>1, <3>2
        <4> QED
          BY <1>2, <1>7, <4>1 DEF ItemsOf, ByBytes
      <3>4. n # op.size - done
        BY <1>1, <1>2, <1>3, <1>4, <2>4
      <3>5. CASE ~OutOfFuel
        <4>1. \E q \in Nat : x = q * Items
          BY <1>5, <1>7, <1>10, <3>4, <3>5
        <4>2. broke' = broke
          BY <1>2, <3>5
        <4> QED
          BY <1>2, <1>10, <2>1, <2>3, <3>1, <3>3, <4>1, <4>2 DEF Paid, PaidFor
      <3>6. CASE OutOfFuel /\ n > 0
        BY <1>2, <1>10, <2>1, <2>3, <3>1, <3>3, <3>6 DEF Paid, PaidFor
      <3>7. CASE OutOfFuel /\ ~(n > 0)
        <4>1. n = 0 /\ x = 0
          BY <1>3, <1>4, <1>7, <3>7, BulkAssumption DEF ItemsOf
        <4>2. \E q \in Nat : x = q * Items
          BY <2>0, <4>1
        <4>3. broke' = broke
          BY <1>2, <3>7
        <4> QED
          BY <1>2, <1>10, <2>1, <2>3, <3>1, <3>3, <4>2, <4>3 DEF Paid, PaidFor
      <3> QED
        BY <3>1, <3>5, <3>6, <3>7
    <2>5. CASE done' = op.size
      <3>1. op' = None
        BY <1>2, <2>5
      <3>2. (issued.size - Undone) + n = issued.size
        BY <1>1, <1>2, <1>3, <1>4, <1>6, <2>5
      <3>3. Cost(ItemsOf(issued, issued.size)) = (T + x + Items - 1) \div Items
        BY <1>7, <1>10, <3>2 DEF Cost
      <3>4. PICK d \in Nat : /\ d = (T + x + Items - 1) \div Items
                             /\ T + x <= d * Items /\ d * Items <= T + x + Items - 1
        <4>1. PICK y \in Nat : y = T + x
          OBVIOUS
        <4>2. /\ (y + Items - 1) \div Items \in Nat
              /\ y <= ((y + Items - 1) \div Items) * Items
              /\ ((y + Items - 1) \div Items) * Items <= y + Items - 1
          BY <2>0, CeilBounds
        <4> QED
          BY <4>1, <4>2, Zenon
      <3>5. PICK g \in Nat : g = charged + c
        BY <1>1, <2>3
      <3>6. g \in d..(d + broke)
        <4>1. T + x <= g * Items /\ g * Items <= (T + x) + broke * Items + Items - 1
          BY <2>3, <3>5
        <4> QED
          BY <1>1, <2>0, <3>4, <4>1, Settled
      <3>7. g \in d..(d + broke')
        BY <1>1, <1>2, <3>6
      <3>8. Paid'
        BY <3>1 DEF Paid, Begun
      <3> QED
        BY <2>1, <3>3, <3>4, <3>5, <3>7, <3>8
    <2> QED
      BY <2>4, <2>5
  <1> QED
    BY <1>1, <1>9, <1>10

LEMMA PaidStep ==
    ASSUME WholeUnits, BulkInv, Paid, [Next]_vars
    PROVE  /\ Paid'
           /\ pc = "loop" /\ pc' = "code" =>
                LET due == Cost(ItemsOf(issued, issued.size)) IN charged' \in due..(due + broke')
  <1>1. CASE DoChunk
    BY <1>1, DoChunkPaid
  <1>2. CASE \E o \in Ops : Begin(o)
    <2>1. PICK o \in Ops : Begin(o)
      BY <1>2
    <2>2. /\ issued' = o /\ charged' = 0 /\ broke' = 0 /\ Undone' = o.size /\ pc = "code"
      BY <2>1 DEF Begin, Undone
    <2>3. o.size \in Nat /\ Items \in Nat /\ ElemSize \in Nat
      BY BulkAssumption, AreaAssumption DEF Ops
    <2>4. ItemsOf(issued, issued.size - Undone)' = 0
      BY <2>2, <2>3 DEF ItemsOf
    <2> QED
      BY <2>2, <2>3, <2>4 DEF Paid, PaidFor
  <1>3. CASE Check
    <2>1. /\ Begun /\ op \in Operation /\ done \in 0..op.size /\ pc = "check"
      BY <1>3 DEF BulkInv, TypeOK, Check, Looping, Operation, Begun
    <2>2. Undone' = Undone
      <3>1. CASE ShouldStop
        BY <1>3, <2>1, <3>1, RestFields DEF Check, Yield, Undone
      <3>2. CASE ~ShouldStop
        BY <1>3, <2>1, <3>2 DEF Check, Undone
      <3> QED
        BY <3>1, <3>2
    <2>3. UNCHANGED <<issued, charged, broke, metered>>
      BY <1>3 DEF Check, ghosts
    <2> QED
      BY <2>1, <2>2, <2>3, PaidKept
  <1>4. CASE ExecStarts
    <2>1. /\ Begun /\ op \in Operation /\ pc = "exec" /\ pc' = "loop" /\ done' = 0 /\ op' = op
          /\ UNCHANGED <<issued, charged, broke, metered>>
      BY <1>4 DEF BulkInv, TypeOK, Begun, ExecStarts, ghosts
    <2>2. Undone' = Undone
      BY <2>1 DEF Undone, Operation
    <2> QED
      BY <2>1, <2>2, PaidKept
  <1>5. CASE ExecTraps \/ ExecNothing \/ Cancel \/ \E k \in 0..(Interval - 1) : ElemFails(k)
    <2>1. op' = None /\ (pc' # "code" \/ pc = "exec")
      <3>1. CASE ExecTraps
        BY <3>1 DEF ExecTraps
      <3>2. CASE ExecNothing
        BY <3>2 DEF ExecNothing
      <3>3. CASE Cancel
        BY <3>3 DEF Cancel
      <3>4. CASE \E k \in 0..(Interval - 1) : ElemFails(k)
        BY <3>4 DEF ElemFails
      <3> QED
        BY <1>5, <3>1, <3>2, <3>3, <3>4
    <2> QED
      BY <2>1 DEF Paid, Begun
  <1>6. CASE \/ ExecInterrupted \/ Meter \/ Tick \/ Poll \/ Request \/ Start \/ Resume
             \/ \E n \in 1..Capacity : ChargeWhole(n)
             \/ \E n \in 1..MaxFuel : SetFuel(n)
             \/ \E a \in Areas : Drop(a) \/ Grow(a) \/ \E i \in Addr : HostWrite(a, i)
             \/ UNCHANGED vars
    <2>1. /\ UNCHANGED <<issued, charged, broke, metered, op, done>>
          /\ \/ pc' = pc
             \/ pc \notin {"loop", "check"} /\ pc' \notin {"loop", "check"}
      <3>1. CASE ExecInterrupted \/ Tick \/ Poll
        BY <3>1 DEF ExecInterrupted, Yield, Tick, Poll, ghosts
      <3>2. CASE Meter \/ Request
        BY <3>2 DEF Meter, Request, ghosts
      <3>3. CASE Start \/ Resume
        BY <3>3 DEF Start, Resume, ghosts
      <3>4. CASE (\E n \in 1..Capacity : ChargeWhole(n)) \/ (\E n \in 1..MaxFuel : SetFuel(n))
        BY <3>4 DEF ChargeWhole, SetFuel, ghosts
      <3>5. CASE \E a \in Areas : Drop(a) \/ Grow(a) \/ \E i \in Addr : HostWrite(a, i)
        BY <3>5 DEF Drop, Grow, HostWrite, ghosts
      <3>6. CASE UNCHANGED vars
        BY <3>6 DEF vars, ghosts
      <3> QED
        BY <1>6, <3>1, <3>2, <3>3, <3>4, <3>5, <3>6
    <2>2. Undone' = Undone /\ Begun' = Begun
      BY <2>1 DEF Undone, Begun
    <2> QED
      BY <2>1, <2>2, PaidKept
  <1> QED
    BY <1>1, <1>2, <1>3, <1>4, <1>5, <1>6 DEF Next, Execute

(* If the interval is whole units of fuel, an instruction is charged for   *)
(* its items exactly however often it was stopped, and array instructions  *)
(* at most one unit more each time they go on without fuel.                *)
THEOREM FuelCharged == ASSUME WholeUnits PROVE Spec => FuelExact
  <1>1. Init => Paid
    BY DEF Init, Paid, Begun
  <1>2. BulkInv /\ Paid /\ [Next]_vars => Paid'
    BY PaidStep
  <1>3. BulkInv /\ Paid /\ [Next]_vars =>
            [pc = "loop" /\ pc' = "code" =>
               LET due == Cost(ItemsOf(issued, issued.size)) IN charged' \in due..(due + broke')]_vars
    BY PaidStep
  <1> QED
    BY <1>1, <1>2, <1>3, Invariant, PTL DEF Spec, FuelExact
=============================================================================
