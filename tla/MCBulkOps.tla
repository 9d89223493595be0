----------------------------- MODULE MCBulkOps ------------------------------
(* Cells that hold their own address at first, so that every copy shows    *)
(* where it came from.                                                     *)
EXTENDS BulkOps, TLC

CONSTANTS m, t, a, d, e, zero, fill, host

(* Contents by address, zero beyond the length of the area. *)
Content(as, l) == [x \in as |-> [i \in Addr |-> IF i < l[x] THEN <<x, i>> ELSE zero]]
Contents(as)   == {<<x, i>> : x \in as, i \in Addr} \cup {zero, fill, host}

(* Copies within a memory and a table, which may be grown. *)
CopyAreas  == {m, t}
CopyClass  == m :> "memory" @@ t :> "table"
CopyLen    == m :> 4 @@ t :> 3
CopyValues == Contents(CopyAreas)
CopyStart  == Content(CopyAreas, CopyLen)

(* An array and the segments that initialise it. *)
InitAreas  == {a, d, e}
InitClass  == a :> "array" @@ d :> "data" @@ e :> "elem"
InitSizes  == a :> 2 @@ d :> 2 @@ e :> 2
InitValues == Contents(InitAreas)
InitStart  == Content(InitAreas, InitSizes)
=============================================================================
