---------------------------- MODULE MCExecStack ----------------------------
(* An empty function, one with a parameter, a local variable, a result and *)
(* room for one more operand, and host functions with and without          *)
(* parameters and results.                                                 *)
EXTENDS ExecStack, TLC

Fn(p, l, s, r, h) == [params |-> p, locals |-> l, slots |-> s, results |-> r, host |-> h]

MCFuncs == {Fn(0, 0, 0, 0, FALSE), Fn(1, 1, 3, 1, FALSE),
            Fn(1, 0, 0, 1, TRUE), Fn(0, 0, 0, 1, TRUE), Fn(0, 0, 0, 0, TRUE)}
=============================================================================
