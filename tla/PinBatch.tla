------------------------------ MODULE PinBatch ------------------------------
(***************************************************************************)
(* The two calls that pin several references at once, over PinTable.       *)
(*                                                                         *)
(* wah_finish_pin pins the results one by one and gives the references to  *)
(* the host; when one cannot be pinned it takes back the earlier ones.     *)
(* wah_instantiate_on_entry pins the parameters while the start functions  *)
(* run, and releases them whether or not instantiation succeeds.  Between  *)
(* the two the host runs, and pins and unpins references of its own.       *)
(***************************************************************************)
EXTENDS PinTable, FiniteSets

CONSTANTS MaxBatch   \* bound: references of one call

ASSUME MaxBatchAssumption == MaxBatch \in Nat

NoRef == [slot |-> SlotCap, generation |-> 0]   \* NULL

Idle == [call |-> "none", phase |-> "idle", todo |-> <<>>, refs |-> <<>>]

VARIABLES job,     \* the running call: what is left to pin, and results[] or pinned[]
          hosts    \* ghost: slots whose references the host holds

allVars == <<vars, job, hosts>>

Held == {job.refs[i] : i \in DOMAIN job.refs} \ {NoRef}

HeldSlots == {r.slot : r \in Held}
-----------------------------------------------------------------------------
(* The host runs outside of the calls, and while start functions do. *)
HostRuns == job.phase \in {"idle", "starting"}

HostPin ==
    /\ HostRuns
    /\ \/ \E v \in Values : PinReused(v) \/ PinGrown(v)
       \/ PinRejected
    /\ hosts' = hosts \cup {s \in Slots : value'[s] # value[s]}
    /\ UNCHANGED job

(* The host does not present the references of the running call. *)
HostUnpin ==
    /\ HostRuns
    /\ \E ref \in Refs \ Held :
          \/ Unpin(ref) /\ hosts' = hosts \ {ref.slot}
          \/ UnpinRejected(ref) /\ UNCHANGED hosts
    /\ UNCHANGED job

(* A call begins; results may be null, parameters that are null are skipped. *)
Begin ==
    /\ job = Idle
    /\ \A s \in Slots : reuse[s] < MaxReuse   \* the call can undo itself within the bound
    /\ \E n \in 1..MaxBatch :
          \/ \E r \in [1..n -> Values \cup {Null}] :
                job' = [call |-> "finish", phase |-> "pinning", todo |-> r, refs |-> <<>>]
          \/ \E r \in [1..n -> Values] :
                job' = [call |-> "entry", phase |-> "pinning", todo |-> r, refs |-> <<>>]
    /\ UNCHANGED <<vars, hosts>>

Stored(ref) == [job EXCEPT !.todo = Tail(@), !.refs = Append(@, ref)]

(* wah_pin of the next reference, or a null result. *)
PinNext ==
    /\ job.phase = "pinning" /\ job.todo # <<>>
    /\ LET v == Head(job.todo)
           s == IF free_head # 0 THEN free_head - 1 ELSE slot_count
       IN  \/ /\ v = Null
              /\ job' = Stored(NoRef) /\ UNCHANGED vars
           \/ /\ v # Null /\ (PinReused(v) \/ PinGrown(v))
              /\ job' = Stored([slot |-> s, generation |-> generation'[s]])
    /\ UNCHANGED hosts

(* wah_pin of the next reference fails. *)
PinFails ==
    /\ job.phase = "pinning" /\ job.todo # <<>> /\ Head(job.todo) # Null
    /\ PinRejected
    /\ job' = [job EXCEPT !.phase = "unpinning", !.todo = <<>>]
    /\ UNCHANGED hosts

(* All are pinned: wah_finish_pin returns them, wah_instantiate runs. *)
AllPinned ==
    /\ job.phase = "pinning" /\ job.todo = <<>>
    /\ \/ job.call = "finish" /\ job' = Idle /\ hosts' = hosts \cup HeldSlots
       \/ job.call = "entry" /\ job' = [job EXCEPT !.phase = "starting"] /\ UNCHANGED hosts
    /\ UNCHANGED vars

Instantiated ==
    /\ job.phase = "starting"
    /\ job' = [job EXCEPT !.phase = "unpinning"]
    /\ UNCHANGED <<vars, hosts>>

(* Mistake: the index is decremented before it is compared. *)
LeftToUnpinButFirst == Len(job.refs) > 1

LeftToUnpin == job.refs # <<>>

(* The references are released from the last to the first. *)
UnpinLast ==
    /\ job.phase = "unpinning" /\ LeftToUnpin
    /\ LET ref == job.refs[Len(job.refs)]
       IN  IF Resolves(ref) THEN Unpin(ref) ELSE UNCHANGED vars
    /\ job' = [job EXCEPT !.refs = SubSeq(@, 1, Len(@) - 1)]
    /\ UNCHANGED hosts

Return ==
    /\ job.phase = "unpinning" /\ ~LeftToUnpin
    /\ job' = Idle
    /\ UNCHANGED <<vars, hosts>>
-----------------------------------------------------------------------------
BatchInit == Init /\ job = Idle /\ hosts = {}

BatchNext == HostPin \/ HostUnpin \/ Begin \/ PinNext \/ PinFails \/ AllPinned
             \/ Instantiated \/ UnpinLast \/ Return

BatchSpec == BatchInit /\ [][BatchNext]_allVars

(* Every pinned slot has exactly one holder: the host or the running call. *)
(* So a call that fails halfway, or whose start functions fail, leaves     *)
(* nothing pinned behind and releases nothing of the host's, and the       *)
(* parameters stay pinned for as long as start functions may collect.      *)
PinsBalanced ==
    /\ Pinned = hosts \cup HeldSlots
    /\ hosts \cap HeldSlots = {}
    /\ \A ref \in Held : Resolves(ref)
    /\ Cardinality(HeldSlots) = Cardinality({i \in DOMAIN job.refs : job.refs[i] # NoRef})
=============================================================================
