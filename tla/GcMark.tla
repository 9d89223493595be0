------------------------------- MODULE GcMark -------------------------------
(***************************************************************************)
(* One collection of a context's heap: wah_gc_step_mark followed by        *)
(* wah_gc_step_sweep or, after wah_cancel, by the sweep of                 *)
(* wah_gc_sweep_unreachable_exceptions.                                    *)
(*                                                                         *)
(* The mutator is stopped, so the object graph is fixed.  Marked objects   *)
(* wait in a worklist for their references to be visited.  When the        *)
(* worklist cannot grow, they are made gray instead, and all heaps are     *)
(* searched for gray objects later.                                        *)
(*                                                                         *)
(* The worklist is a set: it is a stack in the code, and every order of    *)
(* popping it is allowed here.  Any growth of it may fail.                 *)
(***************************************************************************)
EXTENDS Naturals, FiniteSets

CONSTANTS Objects,  \* objects of every heap in the link domain
          Own,      \* those of the heap that is swept
          Exns      \* those with repr_id WAH_TYPE_EXN

ASSUME ObjectsAssumption ==
    IsFiniteSet(Objects) /\ Own \subseteq Objects /\ Exns \subseteq Objects

VARIABLES refs,       \* objects that each object refers to
          roots,      \* objects that the domain's roots refer to
          full,       \* whether the sweep is wah_gc_step_sweep
          live,       \* objects that are allocated
          object_count, exception_count,  \* gc->..., for the heap that is swept
          marked, gray,    \* tags of the objects
          items, overflow, \* the worklist
          todo,       \* what the loop of the current phase has yet to visit
          phase

graph == <<refs, roots, full>>
heap  == <<live, object_count, exception_count>>
tags  == <<marked, gray>>
list  == <<items, overflow>>
gcVars == <<graph, heap, tags, list, todo, phase>>

Phases == {"start", "roots", "scan", "rescan", "sweep", "done"}

(* Objects that a chain of references from a root leads to: those in every *)
(* set that holds the roots and what its members refer to.                 *)
Closed(R) == roots \subseteq R /\ \A o \in R : refs[o] \subseteq R
Reachable == {o \in Objects : \A R \in SUBSET Objects : Closed(R) => o \in R}
-----------------------------------------------------------------------------
(* wah_gc_mark_object of each of S: what is not marked yet becomes marked, *)
(* and either joins the worklist ws or, if that cannot grow, the gray gs.  *)
MarkObjects(S, ws, gs) ==
    \E spilled \in SUBSET (S \ marked) :
        /\ marked' = marked \cup S
        /\ items' = ws \cup ((S \ marked) \ spilled)
        /\ gray' = gs \cup spilled
        /\ overflow' = (overflow \/ spilled # {})

(* Mistake: marks of the last collection stay in place. *)
KeepMarks ==
    /\ phase = "start"
    /\ gray' = {}
    /\ items' = {} /\ overflow' = FALSE
    /\ todo' = roots
    /\ phase' = "roots"
    /\ UNCHANGED <<graph, heap, marked>>

(* The marks and gray bits of every heap in the domain are cleared. *)
ClearMarks ==
    /\ phase = "start"
    /\ marked' = {} /\ gray' = {}
    /\ items' = {} /\ overflow' = FALSE
    /\ todo' = roots
    /\ phase' = "roots"
    /\ UNCHANGED <<graph, heap>>

(* The domain could not be computed for lack of memory. *)
SkipCollection ==
    /\ phase = "start"
    /\ phase' = "done"
    /\ UNCHANGED <<graph, heap, tags, list, todo>>

(* wah_gc_mark_visitor on a root. *)
VisitRoot(o) ==
    /\ phase = "roots" /\ o \in todo
    /\ MarkObjects({o}, items, gray)
    /\ todo' = todo \ {o}
    /\ UNCHANGED <<graph, heap, phase>>

RootsVisited ==
    /\ phase = "roots" /\ todo = {}
    /\ phase' = "scan"
    /\ UNCHANGED <<graph, heap, tags, list, todo>>

(* wah_gc_scan_object on an object popped from the worklist. *)
ScanItem(o) ==
    /\ phase = "scan" /\ o \in items
    /\ MarkObjects(refs[o], items \ {o}, gray)
    /\ UNCHANGED <<graph, heap, todo, phase>>

(* Mistake: overflow is cleared after the search instead of before it. *)
StartRescanKeepFlag ==
    /\ phase = "scan" /\ items = {} /\ overflow
    /\ todo' = Objects
    /\ phase' = "rescan"
    /\ UNCHANGED <<graph, heap, tags, items, overflow>>

(* The worklist is empty, but some objects were left gray. *)
StartRescan ==
    /\ phase = "scan" /\ items = {} /\ overflow
    /\ overflow' = FALSE
    /\ todo' = Objects
    /\ phase' = "rescan"
    /\ UNCHANGED <<graph, heap, tags, items>>

(* The search of all heaps reaches an object, which it scans if gray. *)
RescanObject(o) ==
    /\ phase = "rescan" /\ o \in todo
    /\ todo' = todo \ {o}
    /\ IF o \in gray
         THEN MarkObjects(refs[o], items, gray \ {o})
         ELSE UNCHANGED <<tags, list>>
    /\ UNCHANGED <<graph, heap, phase>>

(* Mistake: the search goes straight to the sweep, without another round. *)
FinishRescanEarly ==
    /\ phase = "rescan" /\ todo = {}
    /\ todo' = Own
    /\ phase' = "sweep"
    /\ UNCHANGED <<graph, heap, tags, list>>

FinishRescan ==
    /\ phase = "rescan" /\ todo = {}
    /\ phase' = "scan"
    /\ UNCHANGED <<graph, heap, tags, list, todo>>

FinishMark ==
    /\ phase = "scan" /\ items = {} /\ ~overflow
    /\ todo' = Own
    /\ phase' = "sweep"
    /\ UNCHANGED <<graph, heap, tags, list>>

(* The sweep reaches an object of the own heap; a partial sweep frees only *)
(* exceptions.                                                             *)
SweepObject(o) ==
    /\ phase = "sweep" /\ o \in todo
    /\ todo' = todo \ {o}
    /\ IF o \notin marked /\ (full \/ o \in Exns)
         THEN /\ live' = live \ {o}
              /\ object_count' = object_count - 1
              /\ exception_count' = IF o \in Exns THEN exception_count - 1 ELSE exception_count
         ELSE UNCHANGED heap
    /\ UNCHANGED <<graph, tags, list, phase>>

FinishSweep ==
    /\ phase = "sweep" /\ todo = {}
    /\ phase' = "done"
    /\ UNCHANGED <<graph, heap, tags, list, todo>>

(* wah_gc_step returned. *)
Done == phase = "done" /\ UNCHANGED gcVars
-----------------------------------------------------------------------------
(* Any graph, with any marks left over from collections of other heaps. *)
GcInit ==
    /\ refs \in [Objects -> SUBSET Objects]
    /\ roots \in SUBSET Objects
    /\ full \in BOOLEAN
    /\ live = Objects
    /\ object_count = Cardinality(Own)
    /\ exception_count = Cardinality(Own \cap Exns)
    /\ marked \in SUBSET Objects
    /\ gray = {}
    /\ items = {} /\ overflow = FALSE
    /\ todo = {}
    /\ phase = "start"

GcNext ==
    \/ ClearMarks \/ SkipCollection \/ RootsVisited \/ StartRescan
    \/ FinishRescan \/ FinishMark \/ FinishSweep \/ Done
    \/ \E o \in Objects : VisitRoot(o) \/ ScanItem(o) \/ RescanObject(o) \/ SweepObject(o)

(* The collector runs to its end: wah_gc_step is a plain function call. *)
GcSpec == GcInit /\ [][GcNext]_gcVars /\ WF_gcVars(GcNext)
-----------------------------------------------------------------------------
GcTypeOK ==
    /\ refs \in [Objects -> SUBSET Objects]
    /\ roots \in SUBSET Objects
    /\ full \in BOOLEAN
    /\ live \in SUBSET Objects
    /\ object_count \in Nat /\ exception_count \in Nat
    /\ marked \in SUBSET Objects /\ gray \in SUBSET Objects
    /\ items \in SUBSET Objects /\ overflow \in BOOLEAN
    /\ todo \in SUBSET Objects
    /\ phase \in Phases

(* A collection never frees an object that the program can still reach,    *)
(* even if every growth of the worklist fails.                             *)
NoReachableFreed == Reachable \subseteq live

(* A full collection that was not skipped leaves exactly the reachable     *)
(* objects in its heap, and never touches another context's heap.          *)
SweepExact ==
    /\ Objects \ Own \subseteq live
    /\ phase = "sweep" => \A o \in Own \ todo :
          o \in live <=> (o \in Reachable \/ (~full /\ o \notin Exns))

(* What wah_gc_verify_heap checks, and the count of exceptions by which    *)
(* wah_gc_sweep_unreachable_exceptions decides whether it has work to do.  *)
CountsExact ==
    /\ object_count = Cardinality(Own \cap live)
    /\ exception_count = Cardinality(Own \cap live \cap Exns)

(* The collection ends however often it has to search for gray objects. *)
Terminates == <>(phase = "done")
=============================================================================
