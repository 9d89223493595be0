------------------------------ MODULE BulkOps -------------------------------
(***************************************************************************)
(* Resumable bulk instructions: memory.fill/copy/init, table.fill/copy/    *)
(* init and array.fill/copy/init_data/init_elem.                           *)
(*                                                                         *)
(* A bulk instruction works in chunks.  After a chunk it may be stopped by *)
(* an interrupt or for lack of fuel; then it pushes operands that describe *)
(* what is left, and is executed again, from its start, when the           *)
(* activation is resumed.  Nothing else remembers that it was begun.       *)
(*                                                                         *)
(* A chunk is moved at once, like memmove.  The loops of tables and arrays *)
(* move one element at a time in the direction of the chunks, which is the *)
(* same as chunks of one cell.  Offsets and sizes count cells; a cell of   *)
(* an array has ElemSize bytes.                                            *)
(***************************************************************************)
EXTENDS BulkEffect

CONSTANTS None,      \* no operation
          Initial,   \* contents of the areas at first
          InitLen,   \* lengths of the areas at first
          ElemSize,  \* bytes of an array element
          Interval,  \* WAH_BULK_CHECK_INTERVAL
          Items,     \* WAH_BULK_ITEMS_PER_FUEL
          MaxFuel,   \* bound: largest fuel the host sets
          MaxDebt,   \* bound: missing fuel at which code is not run on
          MaxOps,    \* bound: operations executed
          Filler,    \* what fill operations write
          Host       \* what the host writes, once at most: a bound

ASSUME BulkAssumption ==
    /\ Initial \in [Areas -> [Addr -> Values]] /\ InitLen \in [Areas -> 0..Capacity]
    /\ ElemSize \in Nat \ {0} /\ Interval \in Nat \ {0} /\ Items \in Nat \ {0}
    /\ MaxFuel \in Nat /\ MaxDebt \in Nat /\ MaxOps \in Nat
    /\ Filler \in Values /\ Host \in Values
    /\ None \notin Operation

VARIABLES pc,         \* where the activation is
          op,         \* operands of the instruction on the stack, or None
          done,       \* cells done by the current execution
          mem, len,   \* contents and lengths of the areas
          fuel,       \* ctx->fuel
          metered,    \* module->fuel_metering
          interrupt,  \* ctx->interrupt_flag
          ops,        \* operations begun so far
          issued, before, \* ghosts: the operation and contents when it began
          charged,    \* ghost: fuel it was charged
          broke,      \* ghost: chunks it did although there was no fuel
          late        \* ghost: cells written while an interrupt was pending

areas  == <<mem, len>>
ghosts == <<issued, before, charged, broke>>
vars   == <<pc, op, done, areas, fuel, metered, interrupt, ops, ghosts, late>>

PCs == {"ready", "suspended", "code", "exec", "loop", "check", "trapped"}
Lower(m, n) == IF m <= n THEN m ELSE n

(* Operations of validated code: unused components have a fixed value. *)
Typed(o) == IF o.kind = "fill" THEN Class[o.da] \in {"memory", "table", "array"} /\ o.sa = o.da /\ o.src = 0
                               ELSE Class[o.sa] \in Sources(Class[o.da]) /\ o.val = Filler
Ops == {o \in [kind : {"fill", "copy"}, da : Areas, sa : Areas, dst : 0..Capacity,
               src : 0..Capacity, size : 0..Capacity, val : {Filler}] : Typed(o)}
-----------------------------------------------------------------------------
(* Mistake: fuel 0 affords nothing, although it is not out of fuel. *)
FuelLimitNoCredit(chunk) ==
    IF ~metered THEN chunk
    ELSE IF fuel < 0 THEN 0
    ELSE Lower(chunk, fuel * Items)

(* Mistake: the limit is not a multiple of what a unit of fuel affords. *)
FuelLimitUneven(chunk) ==
    IF ~metered THEN chunk
    ELSE IF fuel < 0 THEN 0
    ELSE Lower(chunk, (fuel + 1) * Items - 1)

(* wah_bulk_fuel_limit. *)
FuelLimit(chunk) ==
    IF ~metered THEN chunk
    ELSE IF fuel < 0 THEN 0
    ELSE Lower(chunk, (fuel + 1) * Items)

(* What wah_bulk_fuel_charge takes for n items. *)
Cost(n) == IF metered THEN (n + Items - 1) \div Items ELSE 0

(* Arrays are charged by the byte, except by array.init_elem. *)
ByBytes(o)  == Class[o.da] = "array" /\ Class[o.sa] # "elem"
ItemsOf(o, n) == IF ByBytes(o) THEN n * ElemSize ELSE n

(* Bytes rounded down to elements, but at least one. *)
AtLeastOne(bytes) == IF bytes > ElemSize THEN bytes \div ElemSize ELSE 1

(* Cells of the next chunk when `left` are to be done.  Of arrays at least *)
(* one is done even without fuel.                                          *)
Chunk(o, left) ==
    IF ~ByBytes(o) THEN FuelLimit(Lower(left, Interval))
    ELSE IF o.kind = "fill"
    THEN LET n == Lower(left, Interval)
             b == FuelLimit(n * ElemSize)
         IN  IF b < n * ElemSize THEN AtLeastOne(b) ELSE n
    ELSE Lower(AtLeastOne(FuelLimit(Lower(left * ElemSize, Interval))), left)

(* Whether the chunks are taken from the end. *)
Backward(o) == o.kind = "copy" /\ o.da = o.sa /\ o.dst > o.src /\ o.dst < o.src + o.size

(* The cells of a chunk of n after d cells are done. *)
ChunkCells(o, d, n) ==
    IF Backward(o) THEN (o.dst + o.size - d - n)..(o.dst + o.size - d - 1)
                   ELSE (o.dst + d)..(o.dst + d + n - 1)

(* Mistake: a backward copy goes on behind the cells that are done. *)
RestForward(o, d) ==
    [o EXCEPT !.dst = @ + d, !.src = IF o.kind = "copy" THEN @ + d ELSE @, !.size = @ - d]

(* Mistake: the source does not advance. *)
RestSourceKept(o, d) ==
    IF Backward(o) THEN [o EXCEPT !.size = @ - d] ELSE [o EXCEPT !.dst = @ + d, !.size = @ - d]

(* The operands that are pushed for what is left after d cells. *)
Rest(o, d) ==
    IF Backward(o)
      THEN [o EXCEPT !.size = @ - d]
      ELSE [o EXCEPT !.dst = @ + d, !.src = IF o.kind = "copy" THEN @ + d ELSE @, !.size = @ - d]

(* table.copy of entries onto themselves returns at once. *)
Nothing(o) ==
    \/ o.size = 0
    \/ Class[o.da] = "table" /\ o.kind = "copy" /\ o.da = o.sa /\ o.dst = o.src

OutOfFuel  == metered /\ fuel < 0
ShouldStop == interrupt \/ OutOfFuel

(* Mistake: the start of an instruction does not look for interrupts. *)
CheckStartDropped == FALSE

(* WAH_BULK_CHECK_START. *)
CheckStart == interrupt

(* WAH_BULK_YIELD: lack of fuel goes first and keeps the interrupt. *)
Yield ==
    /\ pc' = "suspended"
    /\ interrupt' = (interrupt /\ OutOfFuel)
    /\ late' = IF OutOfFuel THEN late ELSE 0
-----------------------------------------------------------------------------
(* The code reaches a bulk instruction. *)
Begin(o) ==
    /\ pc = "code" /\ ops < MaxOps
    /\ ops' = ops + 1
    /\ op' = o /\ issued' = o /\ before' = mem /\ charged' = 0 /\ broke' = 0
    /\ pc' = "exec"
    /\ UNCHANGED <<done, areas, fuel, metered, interrupt, late>>

(* It yields at the start: the operands are still on the stack. *)
ExecInterrupted ==
    /\ pc = "exec" /\ CheckStart
    /\ Yield
    /\ UNCHANGED <<op, done, areas, fuel, metered, ops, ghosts>>

(* The bounds checks, made again on each execution, fail. *)
ExecTraps ==
    /\ pc = "exec" /\ ~CheckStart /\ ~InBounds(len, op)
    /\ pc' = "trapped"
    /\ op' = None
    /\ UNCHANGED <<done, areas, fuel, metered, interrupt, ops, ghosts, late>>

ExecNothing ==
    /\ pc = "exec" /\ ~CheckStart /\ InBounds(len, op) /\ Nothing(op)
    /\ pc' = "code"
    /\ op' = None
    /\ UNCHANGED <<done, areas, fuel, metered, interrupt, ops, ghosts, late>>

ExecStarts ==
    /\ pc = "exec" /\ ~CheckStart /\ InBounds(len, op) /\ ~Nothing(op)
    /\ pc' = "loop"
    /\ done' = 0
    /\ UNCHANGED <<op, areas, fuel, metered, interrupt, ops, ghosts, late>>

(* A chunk is moved and charged; it may be the last one. *)
DoChunk ==
    /\ pc = "loop"
    /\ LET n == Chunk(op, op.size - done) IN
          /\ mem' = Moved(mem, op, ChunkCells(op, done, n))
          /\ done' = done + n
          /\ fuel' = fuel - Cost(ItemsOf(op, n))
          /\ charged' = charged + Cost(ItemsOf(op, n))
          /\ broke' = IF OutOfFuel /\ n > 0 THEN broke + 1 ELSE broke
          /\ late' = IF interrupt THEN late + n ELSE late
    /\ pc' = IF done' = op.size THEN "code" ELSE "check"
    /\ op' = IF done' = op.size THEN None ELSE op
    /\ UNCHANGED <<len, metered, interrupt, ops, issued, before>>

(* An element expression fails: the cells before it are written. *)
ElemFails(k) ==
    /\ pc = "loop" /\ Class[op.sa] = "elem"
    /\ k < Chunk(op, op.size - done)
    /\ mem' = Moved(mem, op, ChunkCells(op, done, k))
    /\ late' = IF interrupt THEN late + k ELSE late
    /\ pc' = "trapped"
    /\ op' = None
    /\ UNCHANGED <<done, len, fuel, metered, interrupt, ops, ghosts>>

(* wah_bulk_should_stop, and what the instruction does when it was stopped. *)
Check ==
    /\ pc = "check"
    /\ IF ShouldStop
         THEN Yield /\ op' = Rest(op, done)
         ELSE pc' = "loop" /\ UNCHANGED <<op, interrupt, late>>
    /\ UNCHANGED <<done, areas, fuel, metered, ops, ghosts>>
-----------------------------------------------------------------------------
(* METER with enough fuel; without, the code goes on with TICKs. *)
Meter ==
    /\ pc = "code" /\ metered /\ fuel > 0
    /\ fuel' = fuel - 1
    /\ UNCHANGED <<pc, op, done, areas, metered, interrupt, ops, ghosts, late>>

(* TICK: a suspended one is retried. *)
Tick ==
    /\ pc = "code" /\ metered /\ fuel >= -MaxDebt
    /\ fuel' = IF fuel > 0 /\ interrupt THEN fuel ELSE fuel - 1
    /\ IF fuel <= 0 THEN pc' = "suspended" /\ UNCHANGED <<interrupt, late>>
       ELSE IF interrupt THEN pc' = "suspended" /\ interrupt' = FALSE /\ late' = 0
       ELSE UNCHANGED <<pc, interrupt, late>>
    /\ UNCHANGED <<op, done, areas, metered, ops, ghosts>>

(* POLL. *)
Poll ==
    /\ pc = "code" /\ interrupt
    /\ pc' = "suspended" /\ interrupt' = FALSE /\ late' = 0
    /\ UNCHANGED <<op, done, areas, fuel, metered, ops, ghosts>>

(* array.new and others cannot be resumed and may leave fuel negative. *)
ChargeWhole(n) ==
    /\ pc = "code" /\ metered /\ fuel >= -MaxDebt
    /\ fuel - Cost(n) >= -MaxDebt
    /\ fuel' = fuel - Cost(n)
    /\ UNCHANGED <<pc, op, done, areas, metered, interrupt, ops, ghosts, late>>

(* data.drop and elem.drop, by this code or other code of the instance. *)
Drop(a) ==
    /\ pc \in {"code", "suspended"}
    /\ Class[a] \in {"data", "elem"}
    /\ len' = [len EXCEPT ![a] = 0]
    /\ UNCHANGED <<pc, op, done, mem, fuel, metered, interrupt, ops, ghosts, late>>

(* wah_request_interrupt or the deadline timer. *)
Request ==
    /\ ~interrupt
    /\ interrupt' = TRUE
    /\ UNCHANGED <<pc, op, done, areas, fuel, metered, ops, ghosts, late>>
-----------------------------------------------------------------------------
Resume ==
    /\ pc = "suspended"
    /\ metered => fuel > -MaxDebt
    /\ pc' = IF op = None THEN "code" ELSE "exec"
    /\ UNCHANGED <<op, done, areas, fuel, metered, interrupt, ops, ghosts, late>>

(* wah_start. *)
Start ==
    /\ pc = "ready"
    /\ pc' = "suspended"
    /\ UNCHANGED <<op, done, areas, fuel, metered, interrupt, ops, ghosts, late>>

(* wah_set_limits with fuel. *)
SetFuel(n) ==
    /\ pc \in {"ready", "suspended"} /\ metered
    /\ fuel' = n
    /\ UNCHANGED <<pc, op, done, areas, metered, interrupt, ops, ghosts, late>>

(* wah_cancel. *)
Cancel ==
    /\ pc \in {"suspended", "trapped"}
    /\ pc' = "ready" /\ op' = None
    /\ interrupt' = FALSE /\ late' = 0
    /\ UNCHANGED <<done, areas, fuel, metered, ops, ghosts>>

(* Other code grows a memory or table while the activation is suspended.   *)
(* The new cells were never written.                                       *)
Grow(a) ==
    /\ pc = "suspended"
    /\ Class[a] \in {"memory", "table"}
    /\ len[a] < Capacity
    /\ len' = [len EXCEPT ![a] = @ + 1]
    /\ UNCHANGED <<pc, op, done, mem, fuel, metered, interrupt, ops, ghosts, late>>

(* The cells that an operation reads. *)
Src(o) == IF o.kind = "copy" THEN o.src..(o.src + o.size - 1) ELSE {}

(* The host or other code writes a cell that the suspended operation is    *)
(* not about.                                                              *)
HostWrite(a, i) ==
    /\ pc = "suspended" /\ op # None
    /\ Class[a] \in {"memory", "table", "array"} /\ i < len[a]
    /\ a = issued.da => i \notin Dst(issued)
    /\ a = issued.sa => i \notin Src(issued)
    /\ \A b \in Areas, j \in Addr : mem[b][j] # Host
    /\ mem' = [mem EXCEPT ![a][i] = Host]
    /\ before' = [before EXCEPT ![a][i] = Host]
    /\ UNCHANGED <<pc, op, done, len, fuel, metered, interrupt, ops, issued, charged, broke, late>>
-----------------------------------------------------------------------------
Init ==
    /\ pc = "ready" /\ op = None /\ done = 0
    /\ mem = Initial /\ len = InitLen
    /\ metered \in BOOLEAN
    /\ fuel \in 0..MaxFuel
    /\ interrupt = FALSE
    /\ ops = 0
    /\ issued = None /\ before = Initial
    /\ charged = 0 /\ broke = 0 /\ late = 0

Execute == ExecInterrupted \/ ExecTraps \/ ExecNothing \/ ExecStarts \/ DoChunk \/ Check

Next ==
    \/ Execute
    \/ \E o \in Ops : Begin(o)
    \/ \E k \in 0..(Interval - 1) : ElemFails(k)
    \/ Meter \/ Tick \/ Poll \/ Request \/ Start \/ Resume \/ Cancel
    \/ \E n \in 1..Capacity : ChargeWhole(n)
    \/ \E n \in 1..MaxFuel : SetFuel(n)
    \/ \E a \in Areas : Drop(a) \/ Grow(a) \/ \E i \in Addr : HostWrite(a, i)

(* Running code goes on; the host keeps resuming and refuelling it. *)
Fairness ==
    /\ WF_vars(Execute)
    /\ SF_vars(Resume)
    /\ SF_vars(\E n \in 1..MaxFuel : SetFuel(n))

Spec == Init /\ [][Next]_vars /\ Fairness
-----------------------------------------------------------------------------
TypeOK ==
    /\ pc \in PCs
    /\ op \in Operation \cup {None} /\ issued \in Operation \cup {None}
    /\ done \in Nat
    /\ mem \in [Areas -> [Addr -> Values]] /\ before \in [Areas -> [Addr -> Values]]
    /\ len \in [Areas -> 0..Capacity]
    /\ fuel \in Int /\ metered \in BOOLEAN /\ interrupt \in BOOLEAN
    /\ ops \in 0..MaxOps /\ charged \in Nat /\ broke \in Nat /\ late \in Nat
    /\ pc \in {"exec", "loop", "check"} => op # None
    /\ pc \in {"ready", "code", "trapped"} => op = None

(* The operation is not finished yet. *)
Begun == op # None

Atomic == INSTANCE AtomicBulk WITH mem <- IF Begun THEN before ELSE mem,
                                   op  <- IF Begun THEN issued ELSE None,
                                   running <- pc \notin {"ready", "trapped"}

(* However often a bulk instruction is stopped and executed again, whether *)
(* its ranges overlap or not and whatever other code does meanwhile, it    *)
(* has the effect of one atomic step; if the activation ends with it, the  *)
(* cells it did have their final contents and all others are untouched.    *)
ImplementsAtomic == Atomic!Spec

(* An instruction that passed its bounds check never fails it later: what  *)
(* is pushed for the rest stays within bounds, unless the segment it reads *)
(* was dropped meanwhile.                                                  *)
ResumeInBounds ==
    Begun /\ issued # op /\ ~InBounds(len, op) => Class[op.sa] \in {"data", "elem"} /\ len[op.sa] = 0

(* A completed instruction was charged for its items exactly, however the  *)
(* fuel ran out in between; only array instructions executed without fuel  *)
(* cost up to one unit more each time.  Copying table entries onto         *)
(* themselves is free.  This is so for whole units only: the interval is a *)
(* multiple of the items per unit, and those of the element size, as the   *)
(* default values are.  Otherwise (an interval of 64 and 7 items per unit, *)
(* as in test_bulk_fuel_align.c) each interval is rounded up to a unit.    *)
FuelExact ==
    [][pc = "loop" /\ pc' = "code" =>
         LET due == Cost(ItemsOf(issued, issued.size)) IN charged' \in due..(due + broke')]_vars

(* After an interrupt is requested, bulk instructions process at most one  *)
(* more interval before the activation is suspended, even if each is too   *)
(* small to be checked after a chunk and no TICK comes in between.         *)
BoundedDelay == late <= Interval

(* A bulk instruction is completed, or fails, if interrupts cease: every   *)
(* resumption with fuel makes progress.                                    *)
Completes == <>[](~interrupt) => (Begun ~> ~Begun)
=============================================================================
