---------------------------- MODULE MCPollFlags ----------------------------
(***************************************************************************)
(* Two requesting threads (say, a watchdog and the timer) and the          *)
(* interpreter, all of which may call wah_request_interrupt.               *)
(***************************************************************************)
EXTENDS PollFlags, TLC

CONSTANTS r1, r2, interp

MCRequesters == {r1, r2}
=============================================================================
