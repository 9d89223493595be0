---------------------------- MODULE MCReferences ----------------------------
(* A collection of a context, and the pinned references of its host.  The  *)
(* host does not run during a collection, so that it pins and unpins after *)
(* one.  Objects are two of the swept heap, one of them an exception, and  *)
(* one of another context's heap.                                          *)
EXTENDS PinBatch, GcMark

CONSTANTS o1, o2, o3

MCObjects == {o1, o2, o3}
MCOwn     == {o1, o2}
MCExns    == {o2}

(* Bound: the host pins objects of one heap only, whose collection could   *)
(* not be begun; the table does not depend on what the objects refer to.   *)
Returned ==
    /\ phase = "done" /\ live = Objects /\ marked = {}
    /\ roots = {} /\ full /\ refs = [o \in Objects |-> {}]

RefsInit == GcInit /\ BatchInit

RefsNext ==
    \/ GcNext /\ UNCHANGED allVars
    \/ Returned /\ BatchNext /\ UNCHANGED gcVars

RefsSpec == RefsInit /\ [][RefsNext]_<<gcVars, allVars>> /\ WF_gcVars(GcNext)
=============================================================================
