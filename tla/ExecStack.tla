----------------------------- MODULE ExecStack ------------------------------
(***************************************************************************)
(* The activation of an execution context: its lifecycle, its stack and    *)
(* its exception handlers.                                                 *)
(*                                                                         *)
(* One buffer holds the value stack, which grows up to sp, and the call    *)
(* frames, which grow down from its end, one unit each.  A separate stack  *)
(* holds the handlers of the try_tables that were entered.  Nothing in a   *)
(* frame says which handlers are its own: a handler only records the       *)
(* call_depth at which it was installed, and lowered code emits            *)
(* TRIM_HANDLERS at labels that may be reached from inside try_tables.     *)
(*                                                                         *)
(* The position of a frame's code is abstracted to the try_tables that     *)
(* lexically enclose it, and its operands to the height of the stack.  The *)
(* program is any that the validator accepts: every choice of instruction  *)
(* that keeps the operands of a frame between floor and top is allowed.    *)
(***************************************************************************)
EXTENDS Integers, Sequences

CONSTANTS StackSize,    \* units of stack_buffer
          MaxHandlers,  \* handlers the stack budget allows
          MaxTries,     \* bound: try_tables nested in one function
          Tags,         \* identities of exception tags
          Funcs,        \* functions: params, locals, slots, results and host
          None          \* no function

ASSUME ExecAssumption ==
    /\ StackSize \in Nat /\ MaxHandlers \in Nat /\ MaxTries \in Nat
    /\ Funcs \subseteq [params : Nat, locals : Nat, slots : Nat, results : Nat, host : BOOLEAN]
    /\ \A f \in Funcs : ~f.host => f.locals + f.results <= f.slots
    /\ None \notin Funcs

VARIABLES state,     \* lifecycle.state
          base,      \* lifecycle.base_sp and base_handler_depth
          entry,     \* lifecycle.entry_fn
          mode,      \* whether wah_call* or the host drives the activation
          sp,        \* height of the value stack
          frames,    \* call frames, the innermost last
          handlers,  \* exception_handlers, the innermost last
          landing,   \* what the label that was branched to has yet to do
          host,      \* the host function that is running
          pending    \* whether pending_exception is set

stack == <<sp, frames, handlers>>
vars  == <<state, base, entry, mode, stack, landing, host, pending>>

States   == {"READY", "SUSPENDED", "RUNNING", "FINISHED", "TRAPPED"}
FuncEnd  == MaxTries + 1  \* the label of the function body

Labels   == 0..FuncEnd

(* A catch table: the number of try_tables around its own, the tags it     *)
(* catches, and the number of try_tables around the label that it targets. *)
Tables == {tb \in [depth : 0..(MaxTries - 1), catches : SUBSET Tags, label : Labels] :
              tb.label <= tb.depth \/ tb.label = FuncEnd}

Depth        == Len(frames)
Top          == frames[Depth]
Butlast(s)   == SubSeq(s, 1, Len(s) - 1)
SetTop(f)    == [frames EXCEPT ![Depth] = f]
FramePtr(d)  == StackSize - d  \* where frame_ptr is below d frames

(* wah_init_wasm_frame: tries abstracts bytecode_ip, and hbase is a ghost, *)
(* the number of handlers below the frame's own.                           *)
NewFrame(f, locals, hbase) ==
    [locals |-> locals, floor |-> locals + f.params + f.locals,
     top |-> locals + f.params + f.slots, results |-> f.results,
     hbase |-> hbase, tries |-> <<>>]
-----------------------------------------------------------------------------
(* wah_start_function_internal ... *)
SaveBase == base' = [sp |-> sp, handlers |-> Len(handlers), frames |-> Depth]

Start(f, m) ==
    /\ state = "READY" /\ mode = "api"
    /\ SaveBase
    /\ entry' = f
    /\ state' = "SUSPENDED"
    /\ mode' = m
    /\ IF f.host
         THEN /\ sp + f.params + f.results <= FramePtr(Depth)
              /\ sp' = sp + f.params + f.results
              /\ UNCHANGED frames
         ELSE /\ sp + f.params + f.slots <= FramePtr(Depth + 1)
              /\ frames' = Append(frames, NewFrame(f, sp, Len(handlers)))
              /\ sp' = sp + f.params + f.locals
    /\ UNCHANGED <<handlers, landing, host, pending>>

(* ... and its early returns: the stack is too small for the function, or  *)
(* a parameter is rejected.                                                *)
StartRejected(f) ==
    /\ state = "READY" /\ mode = "api"
    /\ SaveBase
    /\ entry' = IF f.host THEN entry ELSE f
    /\ UNCHANGED <<state, mode, stack, landing, host, pending>>

(* wah_resume_internal.  wah_call* resumes an activation exactly once. *)
Resume ==
    /\ state = "SUSPENDED" /\ mode \in {"api", "enter"}
    /\ state' = "RUNNING"
    /\ mode' = IF mode = "enter" THEN "leave" ELSE mode
    /\ host' = IF entry.host THEN entry ELSE None
    /\ UNCHANGED <<base, entry, stack, landing, pending>>

(* wah_finish_internal. *)
Restore ==
    /\ sp' = base.sp
    /\ frames' = SubSeq(frames, 1, base.frames)
    /\ handlers' = SubSeq(handlers, 1, base.handlers)
    /\ state' = "READY"
    /\ base' = [sp |-> 0, handlers |-> 0, frames |-> 0]
    /\ entry' = None
    /\ landing' = "no"

Finish ==
    /\ state = "FINISHED"
    /\ Restore
    /\ mode' = "api"
    /\ UNCHANGED <<host, pending>>

(* Mistake: handlers of the dropped activation stay installed. *)
CancelInternalKeepsHandlers ==
    /\ pending' = FALSE
    /\ sp' = base.sp
    /\ frames' = SubSeq(frames, 1, base.frames)
    /\ state' = "READY"
    /\ base' = [sp |-> 0, handlers |-> 0, frames |-> 0]
    /\ entry' = None
    /\ landing' = "no"
    /\ UNCHANGED <<handlers, host>>

(* wah_cancel_internal. *)
CancelInternal ==
    /\ pending' = FALSE
    /\ IF state = "READY" THEN UNCHANGED <<state, base, entry, stack, landing>> ELSE Restore
    /\ UNCHANGED host

(* wah_cancel, by the host between calls or from a host function. *)
Cancel ==
    /\ host # None \/ (state # "RUNNING" /\ mode = "api")
    /\ IF state = "RUNNING" THEN UNCHANGED vars ELSE CancelInternal /\ UNCHANGED mode

(* wah_call_module_multi cancels what did not finish. *)
CallFails ==
    /\ mode = "leave" /\ state \in {"SUSPENDED", "TRAPPED"}
    /\ CancelInternal
    /\ mode' = "api"
-----------------------------------------------------------------------------
Interpreting == state = "RUNNING" /\ host = None
InCode       == Interpreting /\ landing = "no"

lifecycle == <<base, entry, mode>>

(* The rest of an instruction that fails: wah_resume_internal returns. *)
Traps == state' = "TRAPPED" /\ UNCHANGED <<lifecycle, landing, host>>

(* Any instruction that traps and leaves the stack alone. *)
Trap ==
    /\ InCode
    /\ Traps
    /\ UNCHANGED <<stack, pending>>

(* POLL, TICK or a bulk operation yields or is out of fuel. *)
Suspend ==
    /\ Interpreting /\ landing # "pop"
    /\ state' = "SUSPENDED"
    /\ UNCHANGED <<lifecycle, stack, landing, host, pending>>

(* Instructions that only move operands. *)
Operate(n) ==
    /\ InCode
    /\ sp' = n
    /\ UNCHANGED <<state, lifecycle, frames, handlers, landing, host, pending>>

(* TRY_TABLE. *)
TryTable(tb) ==
    /\ InCode
    /\ Len(Top.tries) < MaxTries /\ tb.depth = Len(Top.tries)
    /\ IF Len(handlers) >= MaxHandlers
         THEN Traps /\ UNCHANGED <<frames, handlers>>
         ELSE /\ handlers' = Append(handlers, [call_depth |-> Depth, sp_base |-> sp, table |-> tb])
              /\ frames' = SetTop([Top EXCEPT !.tries = Append(@, [sp_base |-> sp, table |-> tb])])
              /\ UNCHANGED <<state, lifecycle, landing, host>>
    /\ UNCHANGED <<sp, pending>>

(* END_TRY_TABLE. *)
EndTryTable ==
    /\ InCode
    /\ Top.tries # <<>>
    /\ IF handlers = <<>>
         THEN Traps /\ UNCHANGED <<frames, handlers>>
         ELSE /\ handlers' = Butlast(handlers)
              /\ frames' = SetTop([Top EXCEPT !.tries = Butlast(@)])
              /\ UNCHANGED <<state, lifecycle, landing, host>>
    /\ UNCHANGED <<sp, pending>>

(* What follows a jump from below `from` try_tables to the label: lowering *)
(* emits TRIM_HANDLERS if some branch to it leaves a try_table.            *)
Landings(from, label) ==
    IF label = FuncEnd THEN {"end"} ELSE IF label < from THEN {"trim"} ELSE {"no", "trim"}

(* The frame as it is at the label, before TRIM_HANDLERS. *)
AtLabel(fr, label) ==
    [fr EXCEPT !.tries = IF label = FuncEnd THEN <<>> ELSE SubSeq(@, 1, label)]

(* Operands the validator expects at least at a label. *)
Lowest(fr, label) == IF label = FuncEnd THEN fr.floor + fr.results ELSE fr.floor

(* BR, BR_IF, BR_TABLE and friends. *)
Branch(label, n) ==
    /\ InCode
    /\ label <= Len(Top.tries) \/ label = FuncEnd
    /\ n \in Lowest(Top, label)..sp
    /\ sp' = n
    /\ frames' = SetTop(AtLabel(Top, label))
    /\ landing' \in Landings(Len(Top.tries), label)
    /\ UNCHANGED <<state, lifecycle, handlers, host, pending>>

(* The number of handlers of the callers: WAH_DROP_FRAME_HANDLERS keeps    *)
(* them and TRIM_HANDLERS starts from them.                                *)
FrameBase ==
    CHOOSE b \in 0..Len(handlers) :
        /\ b > 0 => handlers[b].call_depth < Depth
        /\ \A i \in (b + 1)..Len(handlers) : handlers[i].call_depth >= Depth

(* Mistake: one handler too many is kept. *)
TrimKeepsOne ==
    /\ Interpreting /\ landing = "trim"
    /\ \E n \in {FrameBase + Len(Top.tries) + 1} :
          handlers' = SubSeq(handlers, 1, IF n <= Len(handlers) THEN n ELSE n - 1)
    /\ landing' = "no"
    /\ UNCHANGED <<state, lifecycle, host, sp, frames, pending>>

(* TRIM_HANDLERS, whose operand is the number of try_tables at the label. *)
Trim ==
    /\ Interpreting /\ landing = "trim"
    /\ IF Len(Top.tries) > Len(handlers) - FrameBase
         THEN Traps /\ UNCHANGED handlers
         ELSE /\ handlers' = SubSeq(handlers, 1, FrameBase + Len(Top.tries))
              /\ landing' = "no"
              /\ UNCHANGED <<state, lifecycle, host>>
    /\ UNCHANGED <<sp, frames, pending>>
-----------------------------------------------------------------------------
(* What the validator knows about a call of f: its parameters are operands *)
(* and its results will fit.                                               *)
Callable(f) == /\ sp - f.params >= Top.floor
               /\ sp - f.params + f.results <= Top.top

(* Mistake: the preflight forgets the frame that is about to be pushed. *)
CallUnchecked(f) ==
    /\ InCode /\ ~f.host /\ Callable(f)
    /\ IF sp + f.slots > FramePtr(Depth)
         THEN Traps /\ UNCHANGED <<sp, frames>>
         ELSE /\ frames' = Append(frames, NewFrame(f, sp - f.params, Len(handlers)))
              /\ sp' = sp + f.locals
              /\ UNCHANGED <<state, lifecycle, landing, host>>
    /\ UNCHANGED <<handlers, pending>>

(* CALL, CALL_INDIRECT and CALL_REF of a WebAssembly function. *)
Call(f) ==
    /\ InCode /\ ~f.host /\ Callable(f)
    /\ IF sp + f.slots > FramePtr(Depth + 1)
         THEN Traps /\ UNCHANGED <<sp, frames>>
         ELSE /\ frames' = Append(frames, NewFrame(f, sp - f.params, Len(handlers)))
              /\ sp' = sp + f.locals
              /\ UNCHANGED <<state, lifecycle, landing, host>>
    /\ UNCHANGED <<handlers, pending>>

(* WAH_CALL_HOST_INLINE up to the call. *)
CallHost(f) ==
    /\ InCode /\ f.host /\ Callable(f)
    /\ IF sp + f.results > FramePtr(Depth)
         THEN Traps
         ELSE host' = f /\ UNCHANGED <<state, lifecycle, landing>>
    /\ UNCHANGED <<stack, pending>>

(* The host function returns, to the code that called it or to the host. *)
HostReturns ==
    /\ host # None
    /\ host' = None
    /\ IF Depth = 0
         THEN sp' = base.sp + host.params + host.results /\ state' = "FINISHED"
         ELSE sp' = sp - host.params + host.results /\ UNCHANGED state
    /\ UNCHANGED <<lifecycle, frames, handlers, landing, pending>>

(* It called wah_trap, or misused the interface. *)
HostTraps ==
    /\ host # None
    /\ host' = None
    /\ state' = "TRAPPED"
    /\ UNCHANGED <<lifecycle, stack, landing, pending>>

(* RETURN_CALL and friends: the frame is reused. *)
TailCall(f) ==
    /\ InCode /\ ~f.host /\ sp - f.params >= Top.floor /\ f.results = Top.results
    /\ handlers' = SubSeq(handlers, 1, FrameBase)
    /\ IF Top.locals + f.params + f.slots > FramePtr(Depth)
         THEN Traps /\ UNCHANGED <<sp, frames>>
         ELSE /\ frames' = SetTop(NewFrame(f, Top.locals, Top.hbase))
              /\ sp' = Top.locals + f.params + f.locals
              /\ UNCHANGED <<state, lifecycle, landing, host>>
    /\ UNCHANGED pending

(* The same of a host function: the frame is popped after the call. *)
TailCallHost(f) ==
    /\ InCode /\ f.host /\ sp - f.params >= Top.floor /\ f.results = Top.results
    /\ handlers' = SubSeq(handlers, 1, FrameBase)
    /\ IF sp + f.results > FramePtr(Depth)
         THEN Traps /\ UNCHANGED frames
         ELSE /\ frames' = SetTop([Top EXCEPT !.tries = <<>>])
              /\ host' = f
              /\ landing' = "pop"
              /\ UNCHANGED <<state, lifecycle>>
    /\ UNCHANGED <<sp, pending>>

(* Mistake: a frame is popped without its handlers. *)
ReturnKeepsHandlers ==
    /\ Interpreting /\ landing # "trim"
    /\ sp - Top.results >= Top.floor
    /\ sp' = Top.locals + Top.results
    /\ frames' = Butlast(frames)
    /\ landing' = "no"
    /\ state' = IF Depth = 1 THEN "FINISHED" ELSE state
    /\ UNCHANGED <<lifecycle, host, pending, handlers>>

(* RETURN, END and the end of a tail-called host function. *)
Return ==
    /\ Interpreting /\ landing # "trim"
    /\ sp - Top.results >= Top.floor
    /\ handlers' = SubSeq(handlers, 1, FrameBase)
    /\ sp' = Top.locals + Top.results
    /\ frames' = Butlast(frames)
    /\ landing' = "no"
    /\ state' = IF Depth = 1 THEN "FINISHED" ELSE state
    /\ UNCHANGED <<lifecycle, host, pending>>
-----------------------------------------------------------------------------
(* The call depth after the handlers from i on were looked at. *)
Unwound(i) ==
    CHOOSE d \in 0..Depth :
        /\ \A k \in i..Len(handlers) : d <= handlers[k].call_depth
        /\ d = Depth \/ \E k \in i..Len(handlers) : d = handlers[k].call_depth

Catches(i, t) == i > base.handlers /\ t \in handlers[i].table.catches

(* THROW and THROW_REF: wah_throw_exception finds a handler, unwinds to it *)
(* and jumps to the label with the values of the exception.                *)
ThrowCaught(t, n) ==
    /\ InCode
    /\ \E i \in 1..Len(handlers) :
          /\ Catches(i, t)
          /\ \A k \in (i + 1)..Len(handlers) : ~Catches(k, t)
          /\ LET h == handlers[i]  d == Unwound(i)  fr == frames[d] IN
                /\ n \in Lowest(fr, h.table.label)..fr.top
                /\ n <= h.sp_base + 1
                /\ sp' = n
                /\ frames' = [SubSeq(frames, 1, d) EXCEPT ![d] = AtLabel(fr, h.table.label)]
                /\ handlers' = SubSeq(handlers, 1, i - 1)
                /\ landing' \in Landings(h.table.depth, h.table.label)
    /\ pending' = FALSE
    /\ UNCHANGED <<state, lifecycle, host>>

(* No handler of the activation catches it. *)
ThrowUncaught(t) ==
    /\ InCode
    /\ \A i \in 1..Len(handlers) : ~Catches(i, t)
    /\ frames' = SubSeq(frames, 1, Unwound(base.handlers + 1))
    /\ handlers' = SubSeq(handlers, 1, base.handlers)
    /\ pending' = TRUE
    /\ Traps
    /\ UNCHANGED sp
-----------------------------------------------------------------------------
Init ==
    /\ state = "READY" /\ mode = "api"
    /\ base = [sp |-> 0, handlers |-> 0, frames |-> 0]
    /\ entry = None
    /\ sp = 0 /\ frames = <<>> /\ handlers = <<>>
    /\ landing = "no"
    /\ host = None
    /\ pending = FALSE

Heights  == IF Interpreting THEN Top.floor..Top.top ELSE {}

Interpret ==
    \/ Trap \/ Suspend \/ EndTryTable \/ Trim \/ Return
    \/ \E n \in Heights : Operate(n)
    \/ \E tb \in Tables : TryTable(tb)
    \/ \E label \in Labels, n \in 0..StackSize : Branch(label, n)
    \/ \E f \in Funcs : Call(f) \/ CallHost(f) \/ TailCall(f) \/ TailCallHost(f)
    \/ \E t \in Tags : ThrowUncaught(t) \/ \E n \in 0..StackSize : ThrowCaught(t, n)

Next ==
    \/ \E f \in Funcs : StartRejected(f) \/ \E m \in {"api", "enter"} : Start(f, m)
    \/ Resume \/ Finish \/ Cancel \/ CallFails
    \/ HostReturns \/ HostTraps
    \/ Interpret

Spec == Init /\ [][Next]_vars
-----------------------------------------------------------------------------
Handler == [call_depth : Nat, sp_base : 0..StackSize, table : Tables]
Frame   == [locals : 0..StackSize, floor : 0..StackSize, top : 0..StackSize, results : Nat,
            hbase : Nat, tries : Seq([sp_base : 0..StackSize, table : Tables])]

TypeOK ==
    /\ state \in States
    /\ base \in [sp : 0..StackSize, handlers : Nat, frames : Nat]
    /\ entry \in Funcs \cup {None} /\ host \in Funcs \cup {None}
    /\ mode \in {"api", "enter", "leave"}
    /\ sp \in 0..StackSize
    /\ frames \in Seq(Frame)
    /\ handlers \in Seq(Handler) /\ Len(handlers) <= MaxHandlers
    /\ landing \in {"no", "trim", "end", "pop"}
    /\ pending \in BOOLEAN

Active == state \in {"SUSPENDED", "RUNNING"}

(* Where the handlers of the frame below the k-th one end. *)
HandlersEnd(k) == IF k = Depth THEN Len(handlers) ELSE frames[k + 1].hbase

(* The handler stack consists, frame by frame, of exactly the try_tables   *)
(* that enclose the frame's code, each with its own call depth and stack   *)
(* height: calls, tail calls, returns, branches out of try_tables, throws  *)
(* and suspensions in any order never leave one too many or too few.  Only *)
(* between a branch and its TRIM_HANDLERS may the innermost frame have     *)
(* more of them.                                                           *)
HandlersMatch ==
    Active =>
        /\ \A k \in 1..Depth :
              LET fr == frames[k] IN
              /\ fr.hbase + Len(fr.tries) <= HandlersEnd(k)
              /\ k < Depth \/ landing = "no" => fr.hbase + Len(fr.tries) = HandlersEnd(k)
              /\ \A j \in 1..Len(fr.tries) :
                    handlers[fr.hbase + j] =
                        [call_depth |-> k, sp_base |-> fr.tries[j].sp_base, table |-> fr.tries[j].table]
        /\ Depth > 0 => frames[1].hbase = 0
        /\ Depth = 0 => handlers = <<>>
        /\ \A i \in 1..Len(handlers) : handlers[i].call_depth <= Depth

(* The two stacks never collide, a frame's operands never reach into its   *)
(* callers', and a handler rewinds to a height within its own frame.       *)
FrameBounds ==
    /\ sp <= FramePtr(Depth)
    /\ Active =>
        /\ \A k \in 1..Depth : /\ frames[k].floor <= frames[k].top
                               /\ frames[k].top <= FramePtr(k)
                               /\ \A j \in 1..Len(frames[k].tries) :
                                     frames[k].tries[j].sp_base \in frames[k].floor..frames[k].top
        /\ \A k \in 1..(Depth - 1) : frames[k + 1].locals \in frames[k].floor..frames[k].top
        /\ Depth > 0 /\ host = None /\ landing # "pop" => sp \in Top.floor..Top.top

(* However an activation ended - finished, cancelled while suspended at    *)
(* any point, trapped at any depth, or run by wah_call* - nothing of it is *)
(* left in a context that is ready for the next one.                       *)
ReadyIsClean ==
    state = "READY" => /\ sp = 0 /\ frames = <<>> /\ handlers = <<>>
                       /\ host = None /\ landing = "no" /\ ~pending

(* The activation without its handler stack, as a WebAssembly program sees *)
(* it.                                                                     *)
TablesOf(fr) == [j \in 1..Len(fr.tries) |-> fr.tries[j].table]
Lexical      == INSTANCE Unwinding WITH calls <- [k \in 1..Depth |-> TablesOf(frames[k])]

(* The handler stack with its call depths, its trimming at labels and the  *)
(* search of wah_throw_exception implement lexically scoped handlers: an   *)
(* exception goes to the innermost enclosing try_table that catches it.    *)
ImplementsUnwinding == Lexical!Spec
=============================================================================
