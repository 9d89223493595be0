--------------------------- MODULE MCLinkDomain ----------------------------
(* Contexts made by the host; a primary may own one or two contexts.       *)
EXTENDS LinkDomain, TLC

CONSTANTS a, b, c, m, n

MCPrimaries == {a, b, c}

(* References: b may own a context. *)
RefsOwned     == {m}
RefsOwnedBy   == m :> b
RefsObjectsIn == {b}
RefsStoring   == {a, c}

(* Imports: b may own two contexts, which may import from each other. *)
TwoOwned       == {m, n}
SiblingOwnedBy == m :> b @@ n :> b

(* Contexts that own nothing are interchangeable. *)
Alike == Permutations({a, c})
=============================================================================
