-------------------------- MODULE MCDeadlineTimer --------------------------
(* DeadlineTimer with the constants given by the configuration. *)
EXTENDS DeadlineTimer
=============================================================================
