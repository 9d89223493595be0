----------------------------- MODULE BulkEffect -----------------------------
(***************************************************************************)
(* What a bulk instruction does, as the WebAssembly specification sees it. *)
(*                                                                         *)
(* Memories, tables, arrays and segments are areas of Capacity cells, of   *)
(* which the first len[a] exist.  A dropped segment has length 0.  An      *)
(* operation fills cells of the area da with val, or copies them from the  *)
(* area sa (memory.init and its kin copy from a segment).                  *)
(***************************************************************************)
EXTENDS Integers

CONSTANTS Areas,     \* memories, tables, arrays and segments, by identity
          Class,       \* what each area is
          Capacity,  \* bound: cells of an area
          Values       \* contents of a cell

Addr    == 0..(Capacity - 1)
Classes == {"memory", "table", "array", "data", "elem"}

ASSUME AreaAssumption ==
    /\ Capacity \in Nat
    /\ Class \in [Areas -> Classes]

(* Which classes an area may be filled from by copy or init. *)
Sources(c) == CASE c = "memory" -> {"memory", "data"}
                [] c = "table"  -> {"table", "elem"}
                [] c = "array"  -> {"array", "data", "elem"}
                [] OTHER        -> {}

Operation == [kind : {"fill", "copy"}, da : Areas, sa : Areas,
              dst : Nat, src : Nat, size : Nat, val : Values]

(* The cells that o writes. *)
Dst(o) == o.dst..(o.dst + o.size - 1)

(* What o writes to the cell i, when the contents are m. *)
Written(m, o, i) == IF o.kind = "fill" THEN o.val ELSE m[o.sa][o.src + (i - o.dst)]

(* The cells in S are written, all from the same contents m. *)
Moved(m, o, S) ==
    [m EXCEPT ![o.da] = [i \in Addr |-> IF i \in S THEN Written(m, o, i) ELSE m[o.da][i]]]

(* wah_u64_range_in_bounds and its like. *)
InBounds(len, o) ==
    /\ o.dst + o.size <= len[o.da]
    /\ o.kind = "copy" => o.src + o.size <= len[o.sa]
=============================================================================
