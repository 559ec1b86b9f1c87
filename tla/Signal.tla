------------------------------- MODULE Signal -------------------------------
(***************************************************************************)
(* posix.signal (ext/posix/signal.c): deferred delivery of POSIX signals   *)
(* to Lua functions.                                                       *)
(*                                                                         *)
(* The C handler sig_postpone may run between any two steps of the         *)
(* interpreter.  It only stores the signal number in the array `signals'   *)
(* and installs a debug hook.  At the next Lua instruction the interpreter *)
(* runs the hook, sig_handle, which blocks every signal, empties the array *)
(* by calling the Lua handlers, and restores the mask.  Psignal installs a *)
(* handler: first the C disposition, with sigaction, then the Lua function,*)
(* in a registry table, so a signal can arrive between the two.            *)
(*                                                                         *)
(* There is one thread.  `frames' is the stack of sig_postpone activations *)
(* that have interrupted it; the interpreter moves only when it is empty.  *)
(* The kernel keeps a set of pending signals (a signal that is already     *)
(* pending is not recorded twice) and a mask.                              *)
(***************************************************************************)
EXTENDS Integers, Sequences

CONSTANTS
    Sigs,              \* signals that can be caught
    SIGKILL,           \* a signal sigaction refuses
    Funcs,             \* Lua functions the program may install
    SIGNAL_QUEUE_MAX,  \* slots of the array `signals'
    Resets,            \* values flags may give to the bit SA_RESETHAND
    Outcomes,          \* how a Lua handler may end, a subset of AllOutcomes
    NoSig,             \* the number 0, which is no signal
    nil                \* Lua's nil

\* "ok": the handler returns.  "error": it raises a value that can be
\* indexed (error 'text': a string has an __index).  "error_nil": it raises
\* a value that cannot be (error(), error(nil), error(1)).
AllOutcomes == {"ok", "error", "error_nil"}

Macros == {"SIG_DFL", "SIG_IGN"}

ASSUME SignalAssumption ==
    /\ SIGNAL_QUEUE_MAX \in Nat \ {0}
    /\ Sigs # {} /\ NoSig \notin Sigs
    /\ SIGKILL \notin Sigs
    /\ Outcomes \subseteq AllOutcomes
    /\ Resets \subseteq BOOLEAN
    /\ nil \notin Funcs
    /\ Funcs \cap (Macros \cup {"wrap"}) = {}

VARIABLES
    (* the kernel, for this process *)
    pending,         \* generated and not yet delivered
    blocked,         \* the signal mask
    disp,            \* sa_handler of each signal
    resethand,       \* signals whose sa_flags hold SA_RESETHAND
    (* the globals of signal.c, and the hook and the registry of signalL *)
    signal_count, signals, defer_signal, signal_pending,
    hook,            \* sig_handle is installed as signalL's debug hook
    handlers,        \* the Lua table of handlers
    (* the thread *)
    frames,          \* activations of sig_postpone, the last one running
    pc,              \* where the interpreter is
    ps,              \* the current or the last call of Psignal
    inhook,          \* sig_handle is active, so Lua runs no hook
    oldmask,         \* sig_handle's local
    signalno,        \* sig_handle's local
    top,             \* what sig_handle's lua_gettable(L, -2) will index
    (* history *)
    lost             \* a queued signal was removed and its handler not called

kernel  == <<pending, blocked, disp, resethand>>
queue   == <<signal_count, signals, defer_signal, signal_pending, hook>>
drain   == <<inhook, oldmask, signalno, top, lost>>
vars    == <<kernel, queue, handlers, frames, pc, ps, drain>>

\* The C handlers a disposition can name.  "foreign" is one installed by
\* another part of the host program.
Dispositions == Macros \cup {"sig_postpone", "foreign"}

\* What Psignal takes as its second argument and gives as its result.
\* "wrap" is a sig_handler_wrap closure around a foreign handler.
LuaHandlers == Macros \cup {"wrap", nil} \cup Funcs

PsCalls == [sig : Sigs \cup {SIGKILL}, arg : LuaHandlers, reset : BOOLEAN,
            old : Dispositions, prev : LuaHandlers, ret : LuaHandlers]

HookPcs  == {"block", "unhook", "loop", "handler", "reset", "unblock"}
PsPcs    == {"sigaction", "rawset", "result"}
FramePcs == {"enter", "store", "count", "hook", "raise"}

-----------------------------------------------------------------------------
(* The kernel and the Lua C API, as signal.c uses them.                    *)

Generate(s) ==
    pending' = IF disp[s] = "SIG_IGN" THEN pending ELSE pending \cup {s}

\* Mistake: sigemptyset in place of sigfillset.
sa_mask_empty == {}

\* sa.sa_mask: sigfillset(&sa.sa_mask).
sa_mask == Sigs

\* A pending signal that is not blocked interrupts the thread.  A signal
\* whose action is not sig_postpone leaves this state alone: what a foreign
\* handler does is its own, and a default action that ends the process only
\* ends the behaviour.
Deliver(s) ==
    /\ s \in pending \ blocked
    /\ pending' = pending \ {s}
    /\ IF disp[s] = "sig_postpone"
         THEN /\ frames' = Append(frames, [pc |-> "enter", sig |-> s,
                                           saved |-> blocked])
              /\ blocked' = blocked \cup sa_mask
         ELSE UNCHANGED <<frames, blocked>>
    /\ IF s \in resethand
         THEN /\ disp' = [disp EXCEPT ![s] = "SIG_DFL"]
              /\ resethand' = resethand \ {s}
         ELSE UNCHANGED <<disp, resethand>>
    /\ UNCHANGED <<queue, handlers, pc, ps, drain>>

\* kill(2) from another process.
Arrive(s) ==
    /\ Generate(s)
    /\ UNCHANGED <<blocked, disp, resethand, queue, handlers, frames, pc, ps,
                   drain>>

-----------------------------------------------------------------------------
(* sig_postpone, run by the last activation.                               *)

Current == frames[Len(frames)]

InFrame(at) == frames # <<>> /\ Current.pc = at

Goto(at) == frames' = [frames EXCEPT ![Len(frames)].pc = at]

\* Returning from a signal handler restores the mask it interrupted.
Return ==
    /\ frames' = SubSeq(frames, 1, Len(frames) - 1)
    /\ blocked' = Current.saved

FrameUnchanged == UNCHANGED <<disp, resethand, handlers, pc, ps, drain>>

\* The two early returns.  Another activation is under way: the signal is
\* remembered.  The array is full: it is dropped.
sig_postpone_return ==
    /\ InFrame("enter")
    /\ IF defer_signal # 0
         THEN signal_pending' = Current.sig
         ELSE /\ signal_count = SIGNAL_QUEUE_MAX
              /\ UNCHANGED signal_pending
    /\ Return
    /\ FrameUnchanged
    /\ UNCHANGED <<pending, signal_count, signals, defer_signal, hook>>

\* Mistake: no test for a full array.
sig_postpone_enter_unchecked ==
    /\ InFrame("enter") /\ defer_signal = 0
    /\ defer_signal' = defer_signal + 1
    /\ Goto("store")
    /\ FrameUnchanged
    /\ UNCHANGED <<pending, blocked, signal_count, signals, signal_pending,
                   hook>>

sig_postpone_enter ==
    /\ InFrame("enter") /\ defer_signal = 0
    /\ signal_count # SIGNAL_QUEUE_MAX
    /\ defer_signal' = defer_signal + 1
    /\ Goto("store")
    /\ FrameUnchanged
    /\ UNCHANGED <<pending, blocked, signal_count, signals, signal_pending,
                   hook>>

sig_postpone_store ==
    /\ InFrame("store")
    /\ signals' = [signals EXCEPT ![signal_count] = Current.sig]
    /\ Goto("count")
    /\ FrameUnchanged
    /\ UNCHANGED <<pending, blocked, signal_count, defer_signal,
                   signal_pending, hook>>

sig_postpone_count ==
    /\ InFrame("count")
    /\ signal_count' = signal_count + 1
    /\ Goto("hook")
    /\ FrameUnchanged
    /\ UNCHANGED <<pending, blocked, signals, defer_signal, signal_pending,
                   hook>>

sig_postpone_hook ==
    /\ InFrame("hook")
    /\ hook' = TRUE
    /\ defer_signal' = defer_signal - 1
    /\ Goto("raise")
    /\ FrameUnchanged
    /\ UNCHANGED <<pending, blocked, signal_count, signals, signal_pending>>

\* Re-raise the remembered signal; signal_pending keeps its value.
sig_postpone_raise ==
    /\ InFrame("raise")
    /\ IF defer_signal = 0 /\ signal_pending # NoSig
         THEN Generate(signal_pending)
         ELSE UNCHANGED pending
    /\ Return
    /\ FrameUnchanged
    /\ UNCHANGED queue

sig_postpone ==
    \/ sig_postpone_return \/ sig_postpone_enter \/ sig_postpone_store
    \/ sig_postpone_count \/ sig_postpone_hook \/ sig_postpone_raise

-----------------------------------------------------------------------------
(* The interpreter.                                                        *)

At(at) == frames = <<>> /\ pc = at

\* The program's own code runs: at top level, where a hook fires before the
\* next instruction, or inside a Lua handler, where Lua runs no hook.
UserCode == \/ At("lua") /\ ~hook
            \/ At("handler")

\* Where a C function called by the program returns to.
BackToLua == pc' = IF inhook THEN "handler" ELSE "lua"

\* raise(sig), or kill(2) and killpg(2) of the process itself.
Praise(s) ==
    /\ UserCode
    /\ Generate(s)
    /\ UNCHANGED <<blocked, disp, resethand, queue, handlers, frames, pc, ps,
                   drain>>

\* The Lua value that names what is installed for sig now.
LuaHandler(sig) ==
    CASE disp[sig] = "sig_postpone" -> handlers[sig]
      [] disp[sig] = "foreign"      -> "wrap"
      [] OTHER                      -> disp[sig]

\* The switch on the type of argument 2.  For a sig_handler_wrap closure the
\* code reads upvalue 1, which is the signal number, so lua_touserdata gives
\* NULL, and NULL is SIG_DFL.
HandlerArg(arg) ==
    CASE arg \in Macros -> arg
      [] arg = nil      -> "SIG_DFL"
      [] arg = "wrap"   -> "SIG_DFL"
      [] OTHER          -> "sig_postpone"

\* A call of signal(sig, arg, flags).  The program has its own functions,
\* the two macros, and the result of the last call.
Psignal(sig, arg, reset) ==
    /\ UserCode
    /\ pc' = "sigaction"
    /\ ps' = [sig |-> sig, arg |-> arg, reset |-> reset,
              old |-> "SIG_DFL", prev |-> nil, ret |-> nil]
    /\ UNCHANGED <<kernel, queue, handlers, frames, drain>>

Psignal_refused ==
    /\ At("sigaction") /\ ps.sig = SIGKILL
    /\ BackToLua
    /\ UNCHANGED <<kernel, queue, handlers, frames, ps, drain>>

Psignal_sigaction ==
    /\ At("sigaction") /\ ps.sig # SIGKILL
    /\ LET new == HandlerArg(ps.arg) IN
         /\ disp' = [disp EXCEPT ![ps.sig] = new]
         /\ pending' = IF new = "SIG_IGN" THEN pending \ {ps.sig} ELSE pending
         /\ pc' = IF new = "sig_postpone" THEN "rawset" ELSE "result"
    /\ resethand' = IF ps.reset THEN resethand \cup {ps.sig}
                                ELSE resethand \ {ps.sig}
    /\ ps' = [ps EXCEPT !.old = disp[ps.sig], !.prev = LuaHandler(ps.sig)]
    /\ UNCHANGED <<blocked, queue, handlers, frames, drain>>

\* Mistake: the Lua function is not stored.
Psignal_rawset_none ==
    /\ At("rawset")
    /\ pc' = "result"
    /\ UNCHANGED <<kernel, queue, handlers, frames, ps, drain>>

Psignal_rawset ==
    /\ At("rawset")
    /\ handlers' = [handlers EXCEPT ![ps.sig] = ps.arg]
    /\ pc' = "result"
    /\ UNCHANGED <<kernel, queue, frames, ps, drain>>

Psignal_result ==
    /\ At("result")
    /\ ps' = [ps EXCEPT !.ret =
                CASE ps.old = "sig_postpone" -> handlers[ps.sig]
                  [] ps.old = "foreign"      -> "wrap"
                  [] OTHER                   -> ps.old]
    /\ BackToLua
    /\ UNCHANGED <<kernel, queue, handlers, frames, drain>>

-----------------------------------------------------------------------------
(* sig_handle.                                                             *)

\* The debug hook fires: at the next call, return or instruction.
HookFires ==
    /\ At("lua") /\ hook
    /\ pc' = "block"
    /\ inhook' = TRUE
    /\ UNCHANGED <<kernel, queue, handlers, frames, ps, oldmask, signalno,
                   top, lost>>

\* Mistake: the array is emptied with signals unblocked.
sig_handle_block_none ==
    /\ At("block")
    /\ oldmask' = blocked
    /\ pc' = "unhook"
    /\ UNCHANGED <<kernel, queue, handlers, frames, ps, inhook, signalno, top,
                   lost>>

sig_handle_block ==
    /\ At("block")
    /\ oldmask' = blocked
    /\ blocked' = Sigs
    /\ pc' = "unhook"
    /\ UNCHANGED <<pending, disp, resethand, queue, handlers, frames, ps,
                   inhook, signalno, top, lost>>

\* lua_sethook(L, NULL, 0, 0), then push the handlers table.
sig_handle_unhook ==
    /\ At("unhook")
    /\ hook' = FALSE
    /\ top' = "table"
    /\ pc' = "loop"
    /\ UNCHANGED <<kernel, signal_count, signals, defer_signal,
                   signal_pending, handlers, frames, ps, inhook, oldmask,
                   signalno, lost>>

\* while (signal_count--), the last test.
sig_handle_empty ==
    /\ At("loop") /\ signal_count = 0
    /\ signal_count' = signal_count - 1
    /\ pc' = "reset"
    /\ UNCHANGED <<kernel, signals, defer_signal, signal_pending, hook,
                   handlers, frames, ps, drain>>

\* Take the last signal and call its handler with lua_pcall.  After a handler
\* that failed its error value is still on the stack, and it is indexed in
\* place of the table: a string gives nil, and calling nil fails in turn; a
\* value that cannot be indexed raises an error here, outside any pcall of
\* sig_handle, and the hook is left at once.
sig_handle_next ==
    /\ At("loop") /\ signal_count # 0
    /\ signal_count' = signal_count - 1
    /\ signalno' = signals[signal_count - 1]
    /\ LET called == top = "table" /\ handlers[signals[signal_count - 1]] # nil
       IN /\ lost' = (lost \/ ~called)
          /\ top' = IF called \/ top = "error_nil" THEN top ELSE "error"
          /\ pc' = IF called THEN "handler"
                   ELSE IF top = "error_nil" THEN "lua" ELSE "loop"
    /\ inhook' = (top # "error_nil")
    /\ UNCHANGED <<kernel, signals, defer_signal, signal_pending, hook,
                   handlers, frames, ps, oldmask>>

\* Mistake: `if' in place of `while': one signal for each run of the hook.
HandlerEnds_once(o) ==
    /\ At("handler")
    /\ top' = IF o = "ok" THEN top ELSE o
    /\ pc' = "unblock"
    /\ UNCHANGED <<kernel, queue, handlers, frames, ps, inhook, oldmask,
                   signalno, lost>>

\* The Lua handler ends: lua_pcall leaves nothing, or the error value.
HandlerEnds(o) ==
    /\ At("handler")
    /\ top' = IF o = "ok" THEN top ELSE o
    /\ pc' = "loop"
    /\ UNCHANGED <<kernel, queue, handlers, frames, ps, inhook, oldmask,
                   signalno, lost>>

sig_handle_reset ==
    /\ At("reset")
    /\ signal_count' = 0
    /\ pc' = "unblock"
    /\ UNCHANGED <<kernel, signals, defer_signal, signal_pending, hook,
                   handlers, frames, ps, drain>>

\* Mistake: the mask is not restored.
sig_handle_unblock_none ==
    /\ At("unblock")
    /\ pc' = "lua"
    /\ inhook' = FALSE
    /\ UNCHANGED <<kernel, queue, handlers, frames, ps, oldmask, signalno, top,
                   lost>>

sig_handle_unblock ==
    /\ At("unblock")
    /\ blocked' = oldmask
    /\ pc' = "lua"
    /\ inhook' = FALSE
    /\ UNCHANGED <<pending, disp, resethand, queue, handlers, frames, ps,
                   oldmask, signalno, top, lost>>

sig_handle ==
    \/ sig_handle_block \/ sig_handle_unhook \/ sig_handle_empty
    \/ sig_handle_next \/ sig_handle_reset \/ sig_handle_unblock

-----------------------------------------------------------------------------
\* luaopen_posix_signal has run; the host may have handlers of its own.
Init ==
    /\ pending = {} /\ blocked = {} /\ resethand = {}
    /\ disp \in [Sigs -> {"SIG_DFL", "foreign"}]
    /\ signal_count = 0 /\ defer_signal = 0 /\ signal_pending = NoSig
    /\ signals = [i \in 0..(SIGNAL_QUEUE_MAX - 1) |-> NoSig]
    /\ hook = FALSE
    /\ handlers = [s \in Sigs |-> nil]
    /\ frames = <<>> /\ pc = "lua"
    /\ ps = [sig |-> SIGKILL, arg |-> nil, reset |-> FALSE,
             old |-> "SIG_DFL", prev |-> nil, ret |-> nil]
    /\ inhook = FALSE /\ oldmask = {} /\ signalno = NoSig /\ top = "table"
    /\ lost = FALSE

CallPsignal ==
    \E sig \in Sigs \cup {SIGKILL}, reset \in Resets :
        \E arg \in Macros \cup Funcs \cup {ps.ret} : Psignal(sig, arg, reset)

Psignal_step ==
    Psignal_refused \/ Psignal_sigaction \/ Psignal_rawset \/ Psignal_result

Next ==
    \/ \E s \in Sigs : Arrive(s) \/ Deliver(s) \/ Praise(s)
    \/ sig_postpone
    \/ CallPsignal \/ Psignal_step
    \/ HookFires \/ sig_handle
    \/ \E o \in Outcomes : HandlerEnds(o)

\* Fairness.  The kernel delivers what it may deliver, a signal handler and
\* the interpreter run on, a storm of signals does not starve the
\* interpreter, and a Lua handler ends.
Fairness ==
    /\ \A s \in Sigs : WF_vars(Deliver(s))
    /\ WF_vars(sig_postpone)
    /\ SF_vars(HookFires \/ sig_handle \/ Psignal_step)
    /\ SF_vars(\E o \in Outcomes : HandlerEnds(o))

Spec == Init /\ [][Next]_vars

FairSpec == Spec /\ Fairness

-----------------------------------------------------------------------------
(* Properties.                                                             *)

Slots == 0..(SIGNAL_QUEUE_MAX - 1)

\* The queued signals.
Queued == {signals[i] : i \in 0..(signal_count - 1)}

\* Every variable keeps its type: signal_count is -1 only between the last
\* test of the loop of sig_handle and the assignment that follows it.
TypeOK ==
    /\ pending \subseteq Sigs /\ blocked \subseteq Sigs
    /\ disp \in [Sigs -> Dispositions]
    /\ resethand \subseteq Sigs
    /\ signal_count \in -1..SIGNAL_QUEUE_MAX
    /\ signal_count = -1 => pc = "reset"
    /\ signals \in [Slots -> Sigs \cup {NoSig}]
    /\ defer_signal \in 0..1
    /\ signal_pending \in Sigs \cup {NoSig}
    /\ hook \in BOOLEAN
    /\ handlers \in [Sigs -> Funcs \cup {nil}]
    /\ frames \in Seq([pc : FramePcs, sig : Sigs, saved : SUBSET Sigs])
    /\ pc \in {"lua"} \cup HookPcs \cup PsPcs
    /\ ps \in PsCalls
    /\ inhook \in BOOLEAN
    /\ oldmask \subseteq Sigs
    /\ signalno \in Sigs \cup {NoSig}
    /\ top \in {"table", "error", "error_nil"}
    /\ lost \in BOOLEAN

\* sig_postpone is never interrupted by itself, so it never has to remember
\* a signal: because sa_mask is full.  Were one ever remembered it would be
\* raised again at the end of every later call, as signal_pending is never
\* cleared.
NeverDeferred == Len(frames) <= 1 /\ signal_pending = NoSig

\* sig_postpone stores inside the array, wherever it interrupts sig_handle.
WritesInBounds == InFrame("store") => signal_count \in Slots

\* No lost wakeup: whenever the program's own code runs outside sig_handle
\* with signals enabled, a non-empty queue has its hook installed.
QueueHooked ==
    frames = <<>> /\ ~inhook /\ blocked = {} /\ signal_count > 0 => hook

\* When the queue is emptied every signal in it has its Lua function, even
\* one that arrived between sigaction and lua_rawset in Psignal.
HandlerKnown == pc = "loop" => \A s \in Queued : handlers[s] # nil

\* "Having run the Lua signal handler, restore original signal mask": the
\* program's own code never runs with signals blocked.
MaskRestored == At("lua") => blocked = {}

\* "Empty the signal queue ... Call handler with signal number": a signal
\* leaves the queue only for its handler to be called.
NoneLost == ~lost

\* The queue and its draining implement the stack of SignalQueue.
Stack == [i \in 1..signal_count |-> signals[i - 1]]

Calling == IF inhook /\ pc \in {"handler"} \cup PsPcs THEN signalno ELSE NoSig

Abstract == INSTANCE SignalQueue
                WITH Max <- SIGNAL_QUEUE_MAX, stack <- Stack,
                     calling <- Calling

\* Every caught signal is handed to its handler exactly once, latest first,
\* and no two handlers overlap, when no handler fails.
ImplementsQueue == Abstract!Spec

\* A queued signal reaches its Lua handler.
QueuedIsHandled ==
    \A s \in Sigs :
        s \in Queued ~> (pc = "handler" /\ signalno = s)

=============================================================================
