----------------------------- MODULE AtomicBulk -----------------------------
(***************************************************************************)
(* The promise of bulk instructions: each one happens at once, or traps    *)
(* and has no effect.  Only if the activation ends with it, because it is  *)
(* cancelled, the segment is dropped by other code meanwhile, or an        *)
(* element cannot be computed, may it leave a part behind: cells at the    *)
(* two ends, each with its final contents.                                 *)
(***************************************************************************)
EXTENDS BulkEffect

CONSTANT None        \* no operation

VARIABLES mem,       \* contents of the areas
          len,       \* their lengths
          op,        \* the operation that was begun, or None
          running    \* whether there is an activation, which was not failed

vars == <<mem, len, op, running>>

Init ==
    /\ mem \in [Areas -> [Addr -> Values]]
    /\ len \in [Areas -> 0..Capacity]
    /\ op = None
    /\ running = FALSE

(* An activation starts, or is cancelled outside of bulk operations. *)
StartOrStop == /\ op = None
               /\ running' = ~running
               /\ UNCHANGED <<mem, len, op>>

Begin == /\ op = None /\ running
         /\ op' \in Operation
         /\ UNCHANGED <<mem, len, running>>

Perform == /\ op # None
           /\ InBounds(len, op)
           /\ mem' = Moved(mem, op, Dst(op))
           /\ op' = None
           /\ UNCHANGED <<len, running>>

Reject == /\ op # None
          /\ ~InBounds(len, op)
          /\ op' = None /\ running' = FALSE
          /\ UNCHANGED <<mem, len>>

(* Cells in the middle, or all, are left as they were. *)
Abandon == /\ op # None
           /\ \/ mem' = mem
              \/ /\ InBounds([a \in Areas |-> Capacity], op)
                 /\ \E lo, hi \in 0..Capacity :
                       mem' = Moved(mem, op, Dst(op) \ (lo..(hi - 1)))
           /\ op' = None /\ running' = FALSE
           /\ UNCHANGED len

(* Other code grows a memory or table, drops a segment, or writes a cell   *)
(* that the operation is not about.                                        *)
Resize == \E a \in Areas, n \in 0..Capacity :
             /\ n > len[a] \/ n = 0
             /\ len' = [len EXCEPT ![a] = n]
             /\ UNCHANGED <<mem, op, running>>

Write == \E a \in Areas, i \in Addr, v \in Values :
            /\ op # None /\ a = op.da => i \notin Dst(op)
            /\ mem' = [mem EXCEPT ![a][i] = v]
            /\ UNCHANGED <<len, op, running>>

Next == StartOrStop \/ Begin \/ Perform \/ Reject \/ Abandon \/ Resize \/ Write

Spec == Init /\ [][Next]_vars
=============================================================================
