----------------------------- MODULE Unwinding ------------------------------
(***************************************************************************)
(* What exception handling promises to a WebAssembly program, with no      *)
(* handler stack at all: an exception goes to the innermost try_table, of  *)
(* the innermost call, that lexically encloses the code and catches the    *)
(* tag; execution continues at the label of that try_table; and the        *)
(* activation traps if there is none.                                      *)
(***************************************************************************)
EXTENDS Integers, Sequences

CONSTANTS Tables,  \* catch tables of try_tables
          FuncEnd, \* the label of a function body
          Tags

VARIABLES state,   \* of the activation
          calls    \* for each call, the catch tables of the enclosing try_tables

vars == <<state, calls>>

Running == state = "RUNNING" /\ calls # <<>>
Last    == calls[Len(calls)]

(* The try_tables that enclose a label. *)
Enclosing(tables, label) == IF label = FuncEnd THEN <<>> ELSE SubSeq(tables, 1, label)

(* An activation of a WebAssembly function, or of a host function. *)
Begin == /\ state = "READY" /\ state' = "SUSPENDED"
         /\ calls' \in {<<>>, << <<>> >>}

Run == state = "SUSPENDED" /\ state' = "RUNNING" /\ UNCHANGED calls

(* The activation is suspended, or fails, or a host function finishes it. *)
Stop == /\ state = "RUNNING"
        /\ state' \in {"SUSPENDED", "TRAPPED"} \cup (IF calls = <<>> THEN {"FINISHED"} ELSE {})
        /\ UNCHANGED calls

(* It is finished or cancelled. *)
End == state \notin {"READY", "RUNNING"} /\ state' = "READY" /\ calls' = <<>>

Enter(tb) == Running /\ calls' = [calls EXCEPT ![Len(calls)] = Append(@, tb)] /\ UNCHANGED state

Jump(label) == /\ Running
               /\ label <= Len(Last) \/ label = FuncEnd
               /\ calls' = [calls EXCEPT ![Len(calls)] = Enclosing(@, label)]
               /\ UNCHANGED state

Call == Running /\ calls' = Append(calls, <<>>) /\ UNCHANGED state

TailCall == Running /\ calls' = [calls EXCEPT ![Len(calls)] = <<>>] /\ UNCHANGED state

Return == /\ Running
          /\ calls' = SubSeq(calls, 1, Len(calls) - 1)
          /\ state' = IF Len(calls) = 1 THEN "FINISHED" ELSE state

(* The j-th try_table of the k-th call catches t, and none inside it does. *)
Innermost(k, j, t) ==
    /\ t \in calls[k][j].catches
    /\ \A i \in (j + 1)..Len(calls[k]) : t \notin calls[k][i].catches
    /\ \A l \in (k + 1)..Len(calls) : \A i \in 1..Len(calls[l]) : t \notin calls[l][i].catches

Caught(t) ==
    /\ Running
    /\ \E k \in 1..Len(calls) : \E j \in 1..Len(calls[k]) :
          /\ Innermost(k, j, t)
          /\ calls' = [SubSeq(calls, 1, k) EXCEPT ![k] = Enclosing(@, calls[k][j].label)]
    /\ UNCHANGED state

(* Nothing is promised about the calls of an activation that failed. *)
Uncaught(t) ==
    /\ Running
    /\ \A k \in 1..Len(calls) : \A j \in 1..Len(calls[k]) : t \notin calls[k][j].catches
    /\ state' = "TRAPPED"
    /\ \E k \in 0..Len(calls) : calls' = SubSeq(calls, 1, k)

Init == state = "READY" /\ calls = <<>>

Next ==
    \/ Begin \/ Run \/ Stop \/ End \/ Call \/ TailCall \/ Return
    \/ \E tb \in Tables : Enter(tb) \/ Jump(tb.label)
    \/ \E t \in Tags : Caught(t) \/ Uncaught(t)

Spec == Init /\ [][Next]_vars
=============================================================================
