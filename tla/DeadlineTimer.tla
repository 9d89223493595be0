--------------------------- MODULE DeadlineTimer ---------------------------
(***************************************************************************)
(* The deadline timer of an execution context (POSIX build).               *)
(*                                                                         *)
(* Three actors share the context: the owner thread, which sets limits,    *)
(* runs activations, cancels and frees; the timer thread, which runs       *)
(* wah_timer_main; and users on other threads, who call                    *)
(* wah_request_interrupt.  The owner and the timer thread synchronise with *)
(* timer->mutex and timer->cond.  A region that holds the mutex from one   *)
(* wait to the next is one step; the interpreter reads and clears          *)
(* interrupt_flag without the mutex, in two steps.  (PollFlags models the  *)
(* memory order of the flags; here they are sequentially consistent.)      *)
(*                                                                         *)
(* Time is relative: elapsed is now - timer->start_us and wake_in is what  *)
(* is left of the absolute time the thread waits for.                      *)
(***************************************************************************)
EXTENDS Integers

CONSTANTS MaxDeadline,  \* bound: largest finite deadline_us a host sets
          MaxGen        \* bound: armings of the timer

ASSUME TimerAssumption == MaxDeadline \in Nat \ {0} /\ MaxGen \in Nat \ {0}

VARIABLES state,        \* lifecycle.state
          apc,          \* where the owner thread is
          outcome,      \* lifecycle.state after the activation returned
          deadline_us,  \* ctx->deadline_us
          interrupt,    \* ctx->interrupt_flag
          timer,        \* fields of wah_timer_t that the mutex protects
          elapsed,      \* now - timer->start_us, up to MaxDeadline
          tpc,          \* where the timer thread is
          tgen,         \* local `gen` of wah_timer_main
          wake_in,      \* time left until its absolute deadline
          limit, spent, \* ghosts: deadline set last, time charged against it
          user          \* ghost: user requests contribute to interrupt_flag

ghosts == <<limit, spent, user>>
thread == <<tpc, tgen, wake_in>>
vars == <<state, apc, outcome, deadline_us, interrupt, timer, elapsed, thread, ghosts>>

NoDeadline == 0                \* deadline_us of a context without a deadline
Unlimited  == MaxDeadline + 1  \* UINT64_MAX
Deadlines  == 1..MaxDeadline

States    == {"READY", "SUSPENDED", "RUNNING", "FINISHED", "TRAPPED"}
OwnerPC   == {"host", "code", "clear", "return", "join", "freed"}
TimerPC   == {"none", "start", "cond_wait", "timed_wait", "woken", "timed_out", "exited"}
Smaller(m, n) == IF m <= n THEN m ELSE n

NoTimer == [deadline_us |-> 0, cancelled |-> FALSE, armed |-> FALSE, gen |-> 0,
            fired |-> FALSE, running |-> FALSE]
-----------------------------------------------------------------------------
(* pthread_cond_signal: a waiting timer thread wakes up; otherwise no-op. *)
Signal(p) == CASE p = "cond_wait"  -> "start"
               [] p = "timed_wait" -> "woken"
               [] OTHER            -> p

(* Mistake: a full deadline is granted to each activation. *)
ChargedNever == deadline_us

(* wah_timer_set_armed_locked's charge to ctx->deadline_us. *)
Charged ==
    IF ~timer.running THEN deadline_us
    ELSE IF timer.fired \/ elapsed >= timer.deadline_us THEN 1
    ELSE timer.deadline_us - elapsed

(* Mistake: the unseen interrupt of a fire stays. *)
AfterDisarmKept == interrupt

(* The interrupt_flag wah_timer_set_armed_locked leaves behind. *)
AfterDisarm == interrupt /\ ~timer.fired

(* Mistake: the timer thread is not told. *)
SetArmedSilent(armed) ==
    /\ timer' = [timer EXCEPT !.running = armed, !.armed = armed, !.fired = FALSE,
                              !.gen = IF armed THEN @ + 1 ELSE @,
                              !.deadline_us = IF armed THEN Charged ELSE @]
    /\ elapsed' = IF armed THEN 0 ELSE elapsed
    /\ deadline_us' = Charged
    /\ UNCHANGED tpc

(* wah_timer_set_armed once it holds the mutex, up to the unlock. *)
SetArmed(armed) ==
    /\ timer' = [timer EXCEPT !.running = armed, !.armed = armed, !.fired = FALSE,
                              !.gen = IF armed THEN @ + 1 ELSE @,
                              !.deadline_us = IF armed THEN Charged ELSE @]
    /\ elapsed' = IF armed THEN 0 ELSE elapsed
    /\ deadline_us' = Charged
    /\ tpc' = Signal(tpc)

Charge == spent' = IF timer.running THEN Smaller(spent + elapsed, MaxDeadline) ELSE spent

HasTimer == tpc # "none"

(* wah_timer_set_armed(ctx, true), with its early returns. *)
Arm ==
    IF HasTimer /\ deadline_us \in Deadlines
      THEN /\ timer.gen < MaxGen
           /\ SetArmed(TRUE)
           /\ interrupt' = AfterDisarm
      ELSE UNCHANGED <<timer, elapsed, deadline_us, tpc, interrupt>>

(* wah_timer_set_armed(ctx, false). *)
Disarm == IF HasTimer THEN SetArmed(FALSE) ELSE UNCHANGED <<timer, elapsed, deadline_us, tpc>>
-----------------------------------------------------------------------------
(* wah_set_limits as far as the deadline goes.  wah_new_timer creates the  *)
(* timer with its thread; when it fails nothing changes.                   *)
SetLimits(d) ==
    /\ apc = "host" /\ state \in {"READY", "SUSPENDED"}
    /\ IF d \in Deadlines /\ ~HasTimer
         THEN /\ timer' = [NoTimer EXCEPT !.deadline_us = deadline_us]
              /\ tpc' = "start"
         ELSE UNCHANGED <<timer, tpc>>
    /\ deadline_us' = d
    /\ limit' = d
    /\ spent' = 0
    /\ UNCHANGED <<state, apc, outcome, interrupt, elapsed, tgen, wake_in, user>>

(* wah_start: an activation exists, and has not run yet. *)
Start ==
    /\ apc = "host" /\ state = "READY"
    /\ state' = "SUSPENDED"
    /\ UNCHANGED <<apc, outcome, deadline_us, interrupt, timer, elapsed, thread, ghosts>>

(* wah_resume_internal up to the first instruction. *)
Resume ==
    /\ apc = "host" /\ state = "SUSPENDED"
    /\ state' = "RUNNING"
    /\ apc' = "code"
    /\ Arm
    /\ UNCHANGED <<outcome, tgen, wake_in, limit, spent, user>>

(* POLL, TICK or a bulk operation sees interrupt_flag set ... *)
SeeInterrupt ==
    /\ apc = "code" /\ interrupt
    /\ apc' = "clear"
    /\ UNCHANGED <<state, outcome, deadline_us, interrupt, timer, elapsed, thread, ghosts>>

(* ... clears it, and returns WAH_STATUS_YIELDED. *)
ClearInterrupt ==
    /\ apc = "clear"
    /\ apc' = "return"
    /\ outcome' = "SUSPENDED"
    /\ interrupt' = FALSE
    /\ user' = FALSE
    /\ UNCHANGED <<state, deadline_us, timer, elapsed, thread, limit, spent>>

(* The activation finishes, traps, or stops for lack of fuel. *)
Stop(s) ==
    /\ apc = "code"
    /\ apc' = "return"
    /\ outcome' = s
    /\ UNCHANGED <<state, deadline_us, interrupt, timer, elapsed, thread, ghosts>>

(* The rest of wah_resume_internal. *)
Return ==
    /\ apc = "return"
    /\ Disarm
    /\ interrupt' = AfterDisarm
    /\ Charge
    /\ state' = outcome
    /\ apc' = "host"
    /\ user' = (user /\ interrupt')
    /\ UNCHANGED <<outcome, tgen, wake_in, limit>>

(* wah_finish: the results were taken. *)
Finish ==
    /\ apc = "host" /\ state = "FINISHED"
    /\ state' = "READY"
    /\ UNCHANGED <<apc, outcome, deadline_us, interrupt, timer, elapsed, thread, ghosts>>

(* wah_cancel: the activation and any pending interrupt are dropped. *)
Cancel ==
    /\ apc = "host"
    /\ Disarm
    /\ Charge
    /\ interrupt' = FALSE
    /\ user' = FALSE
    /\ state' = "READY"
    /\ UNCHANGED <<apc, outcome, tgen, wake_in, limit>>

(* Mistake: wah_free_timer does not wake the thread. *)
FreeTimerSilent ==
    /\ apc = "host"
    /\ apc' = "join"
    /\ timer' = [timer EXCEPT !.cancelled = HasTimer]
    /\ UNCHANGED <<state, outcome, deadline_us, interrupt, elapsed, thread, ghosts>>

(* wah_free_exec_context: wah_free_timer up to pthread_join ... *)
FreeTimer ==
    /\ apc = "host"
    /\ apc' = "join"
    /\ timer' = [timer EXCEPT !.cancelled = HasTimer]
    /\ tpc' = Signal(tpc)
    /\ UNCHANGED <<state, outcome, deadline_us, interrupt, elapsed, tgen, wake_in, ghosts>>

(* ... and from there: the timer and the context are gone. *)
Join ==
    /\ apc = "join"
    /\ tpc \in {"none", "exited"}
    /\ apc' = "freed"
    /\ UNCHANGED <<state, outcome, deadline_us, interrupt, timer, elapsed, thread, ghosts>>

(* Nothing is left to do. *)
Terminated == apc = "freed" /\ UNCHANGED vars
-----------------------------------------------------------------------------
(* wah_timer_fire's condition, for the gen that the wait started with. *)
Fires == timer.armed /\ timer.gen = tgen

(* wah_timer_main from the head of its loop to the next wait, when the     *)
(* timer is tm and the interrupt flag is already up to date.               *)
LoopHead(tm) ==
    \/ /\ tm.cancelled
       /\ tpc' = "exited"
       /\ UNCHANGED <<tgen, wake_in>>
    \/ /\ ~tm.cancelled /\ ~tm.armed
       /\ tpc' = "cond_wait"
       /\ UNCHANGED <<tgen, wake_in>>
    \/ /\ ~tm.cancelled /\ tm.armed
       /\ tpc' = "timed_wait"
       /\ tgen' = tm.gen
       /\ wake_in' = IF elapsed >= tm.deadline_us THEN 0 ELSE tm.deadline_us - elapsed

(* The thread starts, or is back from pthread_cond_wait. *)
ThreadLoop ==
    /\ tpc = "start"
    /\ LoopHead(timer)
    /\ UNCHANGED <<state, apc, outcome, deadline_us, interrupt, timer, elapsed, ghosts>>

(* Back from pthread_cond_timedwait before the deadline. *)
ThreadWoken ==
    /\ tpc = "woken"
    /\ IF Fires /\ ~timer.cancelled
         THEN tpc' = "timed_wait" /\ UNCHANGED <<tgen, wake_in>>
         ELSE LoopHead(timer)
    /\ UNCHANGED <<state, apc, outcome, deadline_us, interrupt, timer, elapsed, ghosts>>

(* Back from pthread_cond_timedwait with ETIMEDOUT and the mutex. *)
ThreadTimedOut ==
    /\ tpc = "timed_out"
    /\ IF Fires /\ ~timer.cancelled
         THEN /\ timer' = [timer EXCEPT !.armed = FALSE, !.fired = TRUE]
              /\ interrupt' = TRUE
         ELSE UNCHANGED <<timer, interrupt>>
    /\ LoopHead(timer')
    /\ UNCHANGED <<state, apc, outcome, deadline_us, elapsed, ghosts>>

(* The wait's deadline passed; the thread has yet to get the mutex back. *)
TimeOut ==
    /\ tpc = "timed_wait" /\ wake_in = 0
    /\ tpc' = "timed_out"
    /\ UNCHANGED <<state, apc, outcome, deadline_us, interrupt, timer, elapsed,
                   tgen, wake_in, ghosts>>

(* Both kinds of wait may return without a signal. *)
SpuriousWakeup ==
    /\ tpc \in {"cond_wait", "timed_wait"}
    /\ tpc' = Signal(tpc)
    /\ UNCHANGED <<state, apc, outcome, deadline_us, interrupt, timer, elapsed,
                   tgen, wake_in, ghosts>>
-----------------------------------------------------------------------------
(* wah_request_interrupt on a thread of the embedder. *)
UserRequest ==
    /\ apc # "freed"
    /\ interrupt' = TRUE
    /\ user' = TRUE
    /\ UNCHANGED <<state, apc, outcome, deadline_us, timer, elapsed, thread, limit, spent>>

(* CLOCK_MONOTONIC advances. *)
Elapse ==
    /\ elapsed < MaxDeadline \/ wake_in > 0
    /\ elapsed' = Smaller(elapsed + 1, MaxDeadline)
    /\ wake_in' = IF wake_in > 0 THEN wake_in - 1 ELSE 0
    /\ UNCHANGED <<state, apc, outcome, deadline_us, interrupt, timer, tpc, tgen, ghosts>>
-----------------------------------------------------------------------------
Init ==
    /\ state = "READY" /\ apc = "host" /\ outcome = "READY"
    /\ deadline_us = NoDeadline
    /\ interrupt = FALSE
    /\ timer = NoTimer
    /\ elapsed = MaxDeadline
    /\ tpc = "none" /\ tgen = 0 /\ wake_in = 0
    /\ limit = NoDeadline /\ spent = 0 /\ user = FALSE

Owner ==
    \/ \E d \in Deadlines \cup {Unlimited} : SetLimits(d)
    \/ Start \/ Resume \/ SeeInterrupt \/ ClearInterrupt
    \/ \E s \in {"FINISHED", "TRAPPED", "SUSPENDED"} : Stop(s)
    \/ Return \/ Finish \/ Cancel \/ FreeTimer \/ Join

Thread == ThreadLoop \/ ThreadWoken \/ ThreadTimedOut \/ TimeOut \/ SpuriousWakeup

Next == Owner \/ Thread \/ UserRequest \/ Elapse \/ Terminated

(* Time passes, the timer thread is scheduled and gets the mutex, running  *)
(* code keeps reaching a POLL or TICK and then returns.  The host owes     *)
(* nothing, except to finish wah_free_exec_context once it began.          *)
Fairness ==
    /\ WF_vars(Elapse)
    /\ WF_vars(ThreadLoop) /\ WF_vars(ThreadWoken) /\ WF_vars(ThreadTimedOut)
    /\ SF_vars(TimeOut)
    /\ WF_vars(SeeInterrupt) /\ WF_vars(ClearInterrupt) /\ WF_vars(Return)
    /\ WF_vars(Join)

Spec == Init /\ [][Next]_vars /\ Fairness
-----------------------------------------------------------------------------
TypeOK ==
    /\ state \in States /\ apc \in OwnerPC /\ outcome \in States
    /\ deadline_us \in 0..Unlimited
    /\ interrupt \in BOOLEAN
    /\ timer \in [deadline_us : 0..Unlimited, cancelled : BOOLEAN, armed : BOOLEAN,
                  gen : 0..MaxGen, fired : BOOLEAN, running : BOOLEAN]
    /\ elapsed \in 0..MaxDeadline
    /\ tpc \in TimerPC /\ tgen \in 0..MaxGen /\ wake_in \in 0..MaxDeadline
    /\ limit \in 0..Unlimited /\ spent \in 0..MaxDeadline
    /\ user \in BOOLEAN

(* While no activation runs, ctx->deadline_us is what the limit has left   *)
(* after the time of all activations since wah_set_limits, and at least 1  *)
(* because 0 would mean no deadline.                                       *)
DeadlineBudget ==
    (apc = "host" /\ limit \in Deadlines) =>
        deadline_us = IF spent >= limit THEN 1 ELSE limit - spent

(* The timer outlives neither the activation it was armed for nor the      *)
(* context: outside wah_resume a pending interrupt comes from a user, and  *)
(* the thread is gone, never to write again, once wah_free_timer freed.    *)
TimerContained ==
    /\ interrupt /\ ~user => apc \in {"code", "clear", "return"} /\ timer.fired
    /\ apc = "freed" => tpc \in {"none", "exited"}

(* An armed activation stops: the deadline of a loop that never ends is    *)
(* enforced however the arming races the thread's waits and time-outs.     *)
DeadlineEnforced == (apc = "code" /\ timer.running) ~> (apc # "code")

(* wah_free_exec_context does not wait forever for the timer thread. *)
FreeReturns == (apc = "join") ~> (apc = "freed")

=============================================================================
