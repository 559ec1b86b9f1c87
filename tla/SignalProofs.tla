---------------------------- MODULE SignalProofs ----------------------------
(***************************************************************************)
(* Proofs that the safety properties of Signal hold for every set of       *)
(* signals, every size of the array and every way a Lua handler may end.   *)
(***************************************************************************)
EXTENDS Signal, SequenceTheorems, TLAPS

Frame == [pc : FramePcs, sig : Sigs, saved : SUBSET Sigs]

\* sig_handle has blocked every signal and has not yet restored the mask.
Draining == inhook /\ pc # "block"

\* At most one activation of sig_postpone, and it blocks every signal.
FramesInv ==
    /\ frames # <<>> => /\ \E f \in Frame : frames = <<f>>
                        /\ frames[1].saved = {}
                        /\ blocked = Sigs
                        /\ ~Draining
    /\ blocked \in {{}, Sigs}
    /\ oldmask \in {{}, Sigs}
    /\ Draining => blocked = Sigs
    /\ signal_pending = NoSig

\* Where the interpreter is.
PcInv ==
    /\ pc \in HookPcs => inhook
    /\ pc = "lua" => ~inhook
    /\ pc = "rawset" => ps.arg \in Funcs /\ ps.sig \in Sigs
    /\ pc = "result" => ps.sig \in Sigs

\* defer_signal is set while an activation updates the queue, and only then.
DeferInv ==
    IF frames # <<>> /\ frames[1].pc \in {"store", "count", "hook"}
      THEN defer_signal = 1 ELSE defer_signal = 0

\* What signal_count is while sig_handle and sig_postpone work on it.
CountInv ==
    /\ pc = "reset" <=> signal_count = -1
    /\ pc = "unblock" => signal_count = 0
    /\ frames # <<>> /\ frames[1].pc \in {"store", "count"} =>
           signal_count < SIGNAL_QUEUE_MAX
    /\ frames # <<>> /\ frames[1].pc = "hook" => signal_count > 0

\* A queued signal has the hook installed, but for the moment between the
\* two statements of sig_postpone.
HookInv ==
    ~inhook /\ signal_count > 0 =>
        \/ hook
        \/ IF frames = <<>> THEN blocked = Sigs ELSE frames[1].pc = "hook"

\* A signal that sig_postpone catches has a Lua function, or Psignal is
\* about to store it.
Known(s) == s \in Sigs /\ (handlers[s] # nil \/ (pc = "rawset" /\ ps.sig = s))

KnownInv ==
    /\ \A s \in Sigs : disp[s] = "sig_postpone" => Known(s)
    /\ frames # <<>> => Known(frames[1].sig)
    /\ \A i \in Slots : i < signal_count => Known(signals[i])
    /\ frames # <<>> /\ frames[1].pc = "count" => Known(signals[signal_count])

IInv ==
    /\ TypeOK /\ FramesInv /\ PcInv /\ DeferInv /\ CountInv /\ HookInv
    /\ KnownInv

-----------------------------------------------------------------------------
(* Facts about the stack of activations.                                   *)

\* Goto moves the only activation and leaves its signal and mask alone.
LEMMA GotoFact ==
    ASSUME NEW at \in FramePcs, NEW f \in Frame, frames = <<f>>, Goto(at)
    PROVE  /\ frames' = <<[f EXCEPT !.pc = at]>>
           /\ [f EXCEPT !.pc = at] \in Frame
           /\ Current = f
BY DEF Goto, Frame, FramePcs, Current

\* When the only activation returns, none is left and the mask it
\* interrupted is back.
LEMMA ReturnFact ==
    ASSUME NEW f \in Frame, frames = <<f>>, Return
    PROVE  frames' = <<>> /\ blocked' = f.saved /\ Current = f
BY DEF Return, Frame, Current

\* A signal that is not blocked is delivered only when no activation and no
\* run of sig_handle is under way.
LEMMA DeliverFact ==
    ASSUME TypeOK, FramesInv, NEW s \in Sigs, Deliver(s)
    PROVE  /\ frames = <<>> /\ blocked = {} /\ ~Draining
           /\ disp[s] = "sig_postpone" =>
                /\ blocked' = Sigs
                /\ frames' = <<[pc |-> "enter", sig |-> s, saved |-> {}]>>
           /\ disp[s] # "sig_postpone" => UNCHANGED <<frames, blocked>>
<1>1. blocked # Sigs
  BY DEF Deliver
<1>2. frames = <<>> /\ blocked = {} /\ ~Draining
  BY <1>1 DEF FramesInv
<1>3. CASE disp[s] = "sig_postpone"
  <2>1. frames' = Append(<<>>, [pc |-> "enter", sig |-> s, saved |-> {}])
    BY <1>2, <1>3 DEF Deliver
  <2>2. blocked' = Sigs
    BY <1>2, <1>3 DEF Deliver, sa_mask
  <2> QED
    BY <1>2, <1>3, <2>1, <2>2
<1>4. CASE disp[s] # "sig_postpone"
  BY <1>2, <1>4 DEF Deliver
<1> QED
  BY <1>3, <1>4

\* What the switch of Psignal makes of its second argument.
LEMMA HandlerArgFact ==
    ASSUME NEW arg \in LuaHandlers
    PROVE  /\ HandlerArg(arg) \in Dispositions
           /\ HandlerArg(arg) = "sig_postpone" => arg \in Funcs
BY SignalAssumption DEF HandlerArg, LuaHandlers, Dispositions, Macros

-----------------------------------------------------------------------------
(* The invariant is inductive.                                             *)

\* The invariant holds in every state luaopen_posix_signal leaves.
LEMMA InitIInv == Init => IInv
<1> SUFFICES ASSUME Init PROVE IInv
  OBVIOUS
<1> USE SignalAssumption DEF Init
<1>1. TypeOK
  BY DEF TypeOK, Dispositions, Macros, Slots, PsCalls, LuaHandlers, HookPcs,
         PsPcs, FramePcs
<1>2. FramesInv /\ PcInv /\ DeferInv /\ CountInv /\ HookInv
  BY DEF FramesInv, PcInv, DeferInv, CountInv, HookInv, Draining, HookPcs
<1>3. KnownInv
  BY DEF KnownInv, Known, Slots
<1> QED
  BY <1>1, <1>2, <1>3 DEF IInv

\* Every step of sig_postpone keeps the invariant.
LEMMA PostponeIInv ==
    ASSUME IInv, sig_postpone
    PROVE  IInv'
<1> USE SignalAssumption DEF IInv, FrameUnchanged, kernel, queue, drain
<1>1. frames # <<>>
  BY DEF sig_postpone, sig_postpone_return,
         sig_postpone_enter, sig_postpone_store, sig_postpone_count,
         sig_postpone_hook, sig_postpone_raise, InFrame
<1>2. PICK f \in Frame : frames = <<f>>
  BY <1>1 DEF FramesInv
<1>3. /\ Current = f /\ frames[1] = f /\ f.saved = {}
      /\ blocked = Sigs /\ ~Draining /\ pc \notin {"reset", "unblock"}
  BY <1>1, <1>2 DEF FramesInv, Current, Draining, PcInv, HookPcs
<1>4. signal_count \in 0..SIGNAL_QUEUE_MAX
  BY <1>3 DEF TypeOK
<1> DEFINE move(at) == [f EXCEPT !.pc = at]
<1>5. CASE sig_postpone_return
  <2> USE <1>5 DEF sig_postpone_return, InFrame
  \* no activation interrupts another
  <2>0. defer_signal = 0 /\ UNCHANGED queue
    BY <1>2, <1>3 DEF DeferInv
  <2>1. frames' = <<>> /\ blocked' = {}
    BY <1>2, <1>3, ReturnFact
  <2>2. f.pc = "enter"
    BY <1>3
  <2>4. TypeOK'
    BY <1>2, <1>3, <1>4, <2>0, <2>1, <2>2
       DEF TypeOK, Frame, DeferInv, CountInv, Slots
  <2>5. FramesInv' /\ PcInv' /\ DeferInv'
    BY <1>2, <1>3, <1>4, <2>0, <2>1, <2>2
       DEF FramesInv, PcInv, DeferInv, Draining, TypeOK
  <2>6. CountInv' /\ HookInv'
    BY <1>2, <1>3, <1>4, <2>0, <2>1, <2>2 DEF CountInv, HookInv, FramesInv, TypeOK
  <2>7. KnownInv'
    BY <1>2, <1>3, <1>4, <2>0, <2>1, <2>2
       DEF KnownInv, Known, CountInv, TypeOK, Slots
  <2> QED
    BY <2>4, <2>5, <2>6, <2>7
<1>7. CASE sig_postpone_enter
  <2> USE <1>7 DEF sig_postpone_enter, InFrame
  <2>1. frames' = <<move("store")>> /\ move("store") \in Frame
    BY <1>2, GotoFact DEF FramePcs
  <2>2. frames'[1] = move("store") /\ f.pc = "enter"
    BY <1>3, <2>1
  <2>3. move("store").pc = "store" /\ move("store").sig = f.sig
          /\ move("store").saved = {}
    BY <1>3 DEF Frame
  <2>4. TypeOK'
    BY <1>2, <1>3, <1>4, <2>1, <2>2, <2>3
       DEF TypeOK, Frame, DeferInv, CountInv, Slots
  <2>5. FramesInv' /\ PcInv' /\ DeferInv'
    BY <1>2, <1>3, <1>4, <2>1, <2>2, <2>3
       DEF FramesInv, PcInv, DeferInv, Draining, TypeOK
  <2>6. CountInv' /\ HookInv'
    BY <1>2, <1>3, <1>4, <2>1, <2>2, <2>3
       DEF CountInv, HookInv, FramesInv, TypeOK
  <2>7. KnownInv'
    BY <1>2, <1>3, <1>4, <2>1, <2>2, <2>3
       DEF KnownInv, Known, CountInv, TypeOK, Slots
  <2> QED
    BY <2>4, <2>5, <2>6, <2>7
<1>8. CASE sig_postpone_store
  <2> USE <1>8 DEF sig_postpone_store, InFrame
  <2>1. frames' = <<move("count")>> /\ move("count") \in Frame
    BY <1>2, GotoFact DEF FramePcs
  <2>2. frames'[1] = move("count") /\ f.pc = "store"
    BY <1>3, <2>1
  <2>3. move("count").pc = "count" /\ move("count").sig = f.sig
          /\ move("count").saved = {}
    BY <1>3 DEF Frame
  <2>4. TypeOK'
    BY <1>2, <1>3, <1>4, <2>1, <2>2, <2>3
       DEF TypeOK, Frame, DeferInv, CountInv, Slots
  <2>5. FramesInv' /\ PcInv' /\ DeferInv'
    BY <1>2, <1>3, <1>4, <2>1, <2>2, <2>3
       DEF FramesInv, PcInv, DeferInv, Draining, TypeOK
  <2>6. CountInv' /\ HookInv'
    BY <1>2, <1>3, <1>4, <2>1, <2>2, <2>3
       DEF CountInv, HookInv, FramesInv, TypeOK
  <2>7. KnownInv'
    <3>1. signal_count \in Slots
      BY <1>1, <1>3, <1>4, <2>2 DEF CountInv, Slots
    <3>2. /\ signals'[signal_count] = f.sig
          /\ \A i \in Slots : i < signal_count => signals'[i] = signals[i]
      BY <1>3, <3>1 DEF TypeOK
    <3>3. Known(f.sig) /\ \A s : Known(s)' <=> Known(s)
      BY <1>1, <1>3 DEF KnownInv, Known
    <3> QED
      BY <2>1, <2>2, <2>3, <3>1, <3>2, <3>3 DEF KnownInv
  <2> QED
    BY <2>4, <2>5, <2>6, <2>7
<1>9. CASE sig_postpone_count
  <2> USE <1>9 DEF sig_postpone_count, InFrame
  <2>1. frames' = <<move("hook")>> /\ move("hook") \in Frame
    BY <1>2, GotoFact DEF FramePcs
  <2>2. frames'[1] = move("hook") /\ f.pc = "count"
    BY <1>3, <2>1
  <2>3. move("hook").pc = "hook" /\ move("hook").sig = f.sig
          /\ move("hook").saved = {}
    BY <1>3 DEF Frame
  <2>4. TypeOK'
    BY <1>2, <1>3, <1>4, <2>1, <2>2, <2>3
       DEF TypeOK, Frame, DeferInv, CountInv, Slots
  <2>5. FramesInv' /\ PcInv' /\ DeferInv'
    BY <1>2, <1>3, <1>4, <2>1, <2>2, <2>3
       DEF FramesInv, PcInv, DeferInv, Draining, TypeOK
  <2>6. CountInv' /\ HookInv'
    <3>1. signal_count' = signal_count + 1 /\ pc' = pc /\ signal_count' > 0
      BY <1>4
    <3>2. frames' # <<>> /\ frames'[1].pc = "hook"
      BY <2>1, <2>2, <2>3
    <3>3. CountInv'
      BY <1>3, <1>4, <3>1, <3>2 DEF CountInv
    <3>4. HookInv'
      BY <3>2 DEF HookInv
    <3> QED
      BY <3>3, <3>4
  <2>7. KnownInv'
    BY <1>2, <1>3, <1>4, <2>1, <2>2, <2>3
       DEF KnownInv, Known, CountInv, TypeOK, Slots
  <2> QED
    BY <2>4, <2>5, <2>6, <2>7
<1>10. CASE sig_postpone_hook
  <2> USE <1>10 DEF sig_postpone_hook, InFrame
  <2>1. frames' = <<move("raise")>> /\ move("raise") \in Frame
    BY <1>2, GotoFact DEF FramePcs
  <2>2. frames'[1] = move("raise") /\ f.pc = "hook"
    BY <1>3, <2>1
  <2>3. move("raise").pc = "raise" /\ move("raise").sig = f.sig
          /\ move("raise").saved = {}
    BY <1>3 DEF Frame
  <2>4. TypeOK'
    BY <1>2, <1>3, <1>4, <2>1, <2>2, <2>3
       DEF TypeOK, Frame, DeferInv, CountInv, Slots
  <2>5. FramesInv' /\ PcInv' /\ DeferInv'
    BY <1>2, <1>3, <1>4, <2>1, <2>2, <2>3
       DEF FramesInv, PcInv, DeferInv, Draining, TypeOK
  <2>6. CountInv' /\ HookInv'
    BY <1>2, <1>3, <1>4, <2>1, <2>2, <2>3
       DEF CountInv, HookInv, FramesInv, TypeOK
  <2>7. KnownInv'
    BY <1>2, <1>3, <1>4, <2>1, <2>2, <2>3
       DEF KnownInv, Known, CountInv, TypeOK, Slots
  <2> QED
    BY <2>4, <2>5, <2>6, <2>7
<1>11. CASE sig_postpone_raise
  <2> USE <1>11 DEF sig_postpone_raise, InFrame
  <2>1. frames' = <<>> /\ blocked' = {}
    BY <1>2, <1>3, ReturnFact
  <2>2. f.pc = "raise"
    BY <1>3
  <2>3. UNCHANGED pending
    BY DEF FramesInv
  <2>4. TypeOK'
    BY <1>2, <1>3, <1>4, <2>1, <2>2, <2>3
       DEF TypeOK, Frame, DeferInv, CountInv, Slots
  <2>5. FramesInv' /\ PcInv' /\ DeferInv'
    BY <1>2, <1>3, <1>4, <2>1, <2>2, <2>3
       DEF FramesInv, PcInv, DeferInv, Draining, TypeOK
  <2>6. CountInv' /\ HookInv'
    BY <1>2, <1>3, <1>4, <2>1, <2>2, <2>3
       DEF CountInv, HookInv, FramesInv, TypeOK
  <2>7. KnownInv'
    BY <1>2, <1>3, <1>4, <2>1, <2>2, <2>3
       DEF KnownInv, Known, CountInv, TypeOK, Slots
  <2> QED
    BY <2>4, <2>5, <2>6, <2>7
<1> QED
  BY <1>5, <1>7, <1>8, <1>9, <1>10, <1>11 DEF sig_postpone

\* The kernel's steps, and kill, killpg and raise, keep the invariant.
LEMMA KernelIInv ==
    ASSUME IInv, NEW s \in Sigs, Arrive(s) \/ Deliver(s) \/ Praise(s)
    PROVE  IInv'
<1> USE SignalAssumption DEF IInv, kernel, queue, drain
<1>1. CASE Arrive(s) \/ Praise(s)
  <2>1. UNCHANGED <<blocked, disp, resethand, queue, handlers, frames, pc, ps,
                    drain>> /\ pending' \subseteq Sigs
    BY <1>1 DEF Arrive, Praise, Generate, TypeOK
  <2> QED
    BY <2>1 DEF TypeOK, FramesInv, PcInv, DeferInv, CountInv, HookInv,
                KnownInv, Known, Draining
<1>2. CASE Deliver(s)
  <2> USE <1>2
  <2>1. /\ frames = <<>> /\ blocked = {} /\ ~Draining
        /\ UNCHANGED <<queue, handlers, pc, ps, drain>>
        /\ pending' \subseteq Sigs /\ resethand' \subseteq Sigs
        /\ disp' \in [Sigs -> Dispositions]
        /\ \A t \in Sigs : disp'[t] = "sig_postpone" =>
                                 disp[t] = "sig_postpone"
    BY DeliverFact DEF Deliver, TypeOK, Dispositions, Macros
  <2>2. CASE disp[s] # "sig_postpone"
    <3>1. UNCHANGED <<frames, blocked>>
      BY <2>2, DeliverFact
    <3> QED
      BY <2>1, <3>1 DEF TypeOK, FramesInv, PcInv, DeferInv, CountInv, HookInv,
                        KnownInv, Known, Draining
  <2>3. CASE disp[s] = "sig_postpone"
    <3> DEFINE f == [pc |-> "enter", sig |-> s, saved |-> {}]
    <3>1. blocked' = Sigs /\ frames' = <<f>> /\ f \in Frame
      BY <2>3, DeliverFact DEF Frame, FramePcs
    <3>2. frames' # <<>> /\ frames'[1] = f /\ f.pc = "enter" /\ f.sig = s
            /\ f.saved = {}
      BY <3>1
    <3> HIDE DEF f
    <3>3. TypeOK'
      BY <2>1, <3>1 DEF TypeOK, Frame
    <3>4. FramesInv' /\ PcInv' /\ DeferInv'
      BY <2>1, <3>1, <3>2 DEF FramesInv, PcInv, DeferInv, Draining
    <3>5. CountInv' /\ HookInv'
      BY <2>1, <3>1, <3>2 DEF CountInv, HookInv, TypeOK
    <3>6. KnownInv'
      BY <2>1, <2>3, <3>1, <3>2 DEF KnownInv, Known
    <3> QED
      BY <3>3, <3>4, <3>5, <3>6
  <2> QED
    BY <2>2, <2>3
<1> QED
  BY <1>1, <1>2

\* Every step of Psignal keeps the invariant, in particular when a signal is
\* delivered between its sigaction and its lua_rawset.
LEMMA PsignalIInv ==
    ASSUME IInv, CallPsignal \/ Psignal_step
    PROVE  IInv'
<1> USE SignalAssumption DEF IInv, kernel, queue, drain
<1>1. CASE CallPsignal
  <2>1. PICK sig \in Sigs \cup {SIGKILL}, reset \in Resets :
             \E arg \in Macros \cup Funcs \cup {ps.ret} : Psignal(sig, arg, reset)
    BY <1>1 DEF CallPsignal
  <2>2. PICK arg \in Macros \cup Funcs \cup {ps.ret} : Psignal(sig, arg, reset)
    BY <2>1
  <2>3. arg \in LuaHandlers /\ reset \in BOOLEAN
    BY DEF TypeOK, PsCalls, LuaHandlers
  <2>4. /\ frames = <<>> /\ pc \in {"lua", "handler"} /\ pc' = "sigaction"
        /\ UNCHANGED <<kernel, queue, handlers, frames, drain>>
        /\ ps' \in PsCalls
    BY <2>2, <2>3 DEF Psignal, UserCode, At, PsCalls, Dispositions, Macros,
                      LuaHandlers
  <2> QED
    BY <2>4 DEF TypeOK, FramesInv, PcInv, DeferInv, CountInv, HookInv,
                KnownInv, Known, Draining, HookPcs, PsPcs
<1>2. CASE Psignal_refused
  <2>1. /\ frames = <<>> /\ pc = "sigaction"
        /\ pc' = IF inhook THEN "handler" ELSE "lua"
        /\ UNCHANGED <<kernel, queue, handlers, frames, ps, drain>>
    BY <1>2 DEF Psignal_refused, At, BackToLua
  <2> QED
    BY <2>1 DEF TypeOK, FramesInv, PcInv, DeferInv, CountInv, HookInv,
                KnownInv, Known, Draining, HookPcs, PsPcs
<1>3. CASE Psignal_sigaction
  <2> DEFINE new == HandlerArg(ps.arg)
  <2>1. /\ ps \in PsCalls /\ ps.sig \in Sigs /\ ps.arg \in LuaHandlers
        /\ new \in Dispositions
        /\ new = "sig_postpone" => ps.arg \in Funcs
    BY <1>3, HandlerArgFact DEF Psignal_sigaction, TypeOK, PsCalls
  <2>2. LuaHandler(ps.sig) \in LuaHandlers /\ disp[ps.sig] \in Dispositions
    BY <2>1 DEF LuaHandler, TypeOK, Dispositions, LuaHandlers, Macros
  <2>3. /\ frames = <<>> /\ pc = "sigaction"
        /\ pc' = IF new = "sig_postpone" THEN "rawset" ELSE "result"
        /\ disp' = [disp EXCEPT ![ps.sig] = new]
        /\ pending' \subseteq pending
        /\ resethand' \subseteq resethand \cup {ps.sig}
        /\ ps' = [ps EXCEPT !.old = disp[ps.sig], !.prev = LuaHandler(ps.sig)]
        /\ UNCHANGED <<blocked, queue, handlers, frames, drain>>
    BY <1>3 DEF Psignal_sigaction, At
  <2>4. ps' \in PsCalls /\ ps'.sig = ps.sig /\ ps'.arg = ps.arg
    BY <2>1, <2>2, <2>3 DEF PsCalls
  <2> HIDE DEF new
  <2>5. TypeOK'
    BY <2>1, <2>3, <2>4 DEF TypeOK, PsPcs
  <2>6. FramesInv' /\ PcInv' /\ DeferInv'
    BY <2>1, <2>3, <2>4 DEF FramesInv, PcInv, DeferInv, Draining, HookPcs
  <2>7. CountInv' /\ HookInv'
    BY <2>3 DEF CountInv, HookInv, TypeOK
  <2>8. KnownInv'
    BY <2>1, <2>3, <2>4 DEF KnownInv, Known, TypeOK
  <2> QED
    BY <2>5, <2>6, <2>7, <2>8
<1>4. CASE Psignal_rawset
  <2>1. /\ frames = <<>> /\ pc = "rawset" /\ pc' = "result"
        /\ ps.arg \in Funcs /\ ps.sig \in Sigs
        /\ handlers' = [handlers EXCEPT ![ps.sig] = ps.arg]
        /\ UNCHANGED <<kernel, queue, frames, ps, drain>>
    BY <1>4 DEF Psignal_rawset, At, PcInv
  <2>2. TypeOK'
    BY <2>1 DEF TypeOK, PsPcs
  <2>3. FramesInv' /\ PcInv' /\ DeferInv' /\ CountInv' /\ HookInv'
    BY <2>1 DEF FramesInv, PcInv, DeferInv, CountInv, HookInv, Draining, HookPcs
  <2>4. \A s : Known(s) => Known(s)'
    BY <2>1 DEF Known, TypeOK
  <2>5. KnownInv'
    BY <2>1, <2>4 DEF KnownInv
  <2> QED
    BY <2>2, <2>3, <2>5
<1>5. CASE Psignal_result
  <2> DEFINE ret == CASE ps.old = "sig_postpone" -> handlers[ps.sig]
                      [] ps.old = "foreign"      -> "wrap"
                      [] OTHER                   -> ps.old
  <2>1. /\ frames = <<>> /\ pc = "result" /\ ps.sig \in Sigs
        /\ ps' = [ps EXCEPT !.ret = ret]
        /\ pc' = IF inhook THEN "handler" ELSE "lua"
        /\ UNCHANGED <<kernel, queue, handlers, frames, drain>>
    BY <1>5 DEF Psignal_result, At, BackToLua, PcInv
  <2>2. ps \in PsCalls /\ ps.old \in Dispositions
    BY DEF TypeOK, PsCalls
  <2>3. ret \in LuaHandlers
    BY <2>1, <2>2 DEF TypeOK, Dispositions, LuaHandlers, Macros
  <2> HIDE DEF ret
  <2>4. ps' \in PsCalls
    BY <2>1, <2>2, <2>3 DEF PsCalls
  <2> QED
    BY <2>1, <2>4 DEF TypeOK, FramesInv, PcInv, DeferInv, CountInv, HookInv,
                      KnownInv, Known, Draining, HookPcs, PsPcs
<1> QED
  BY <1>1, <1>2, <1>3, <1>4, <1>5 DEF Psignal_step

\* Every step of the debug hook, and the end of a Lua handler however it
\* ends, keeps the invariant.
LEMMA DrainIInv ==
    ASSUME IInv, HookFires \/ sig_handle \/ \E o \in Outcomes : HandlerEnds(o)
    PROVE  IInv'
<1> USE SignalAssumption DEF IInv, At, kernel, queue, drain
<1>1. CASE HookFires
  BY <1>1 DEF HookFires, TypeOK, FramesInv, PcInv, DeferInv, CountInv,
              HookInv, KnownInv, Known, Draining, HookPcs
<1>2. CASE sig_handle_block
  BY <1>2 DEF sig_handle_block, TypeOK, FramesInv, PcInv, DeferInv, CountInv,
              HookInv, KnownInv, Known, Draining, HookPcs
<1>3. CASE sig_handle_unhook
  BY <1>3 DEF sig_handle_unhook, TypeOK, FramesInv, PcInv, DeferInv, CountInv,
              HookInv, KnownInv, Known, Draining, HookPcs
<1>4. CASE sig_handle_empty
  <2>1. /\ signal_count' = -1 /\ pc = "loop" /\ pc' = "reset" /\ inhook
        /\ frames = <<>>
        /\ UNCHANGED <<kernel, signals, defer_signal, signal_pending, hook,
                       handlers, frames, ps, drain>>
    BY <1>4 DEF sig_handle_empty, PcInv, HookPcs
  <2>2. TypeOK'
    BY <2>1 DEF TypeOK, HookPcs
  <2>3. FramesInv' /\ PcInv' /\ DeferInv' /\ CountInv' /\ HookInv'
    BY <2>1 DEF FramesInv, PcInv, DeferInv, CountInv, HookInv, Draining, HookPcs
  <2>4. KnownInv'
    BY <2>1 DEF KnownInv, Known, Slots
  <2> QED
    BY <2>2, <2>3, <2>4
<1>5. CASE sig_handle_next
  <2> USE <1>5 DEF sig_handle_next
  <2> DEFINE last == signal_count - 1
  <2>1. /\ frames = <<>> /\ pc = "loop" /\ inhook /\ blocked = Sigs
        /\ signal_count \in 1..SIGNAL_QUEUE_MAX
    BY DEF TypeOK, CountInv, PcInv, HookPcs, FramesInv, Draining
  <2>2. last \in Slots /\ signals[last] \in Sigs /\ signal_count' = last
          /\ last >= 0
    BY <2>1 DEF Slots, KnownInv, Known
  <2>3. /\ pc' \in {"handler", "lua", "loop"}
        /\ pc' = "lua" <=> inhook' = FALSE
        /\ inhook' \in BOOLEAN
        /\ top' \in {"table", "error", "error_nil"}
        /\ lost' \in BOOLEAN
    BY <2>1 DEF TypeOK
  <2>4. TypeOK'
    BY <2>1, <2>2, <2>3 DEF TypeOK, HookPcs
  <2>5. FramesInv' /\ PcInv' /\ DeferInv'
    BY <2>1, <2>3 DEF FramesInv, PcInv, DeferInv, Draining, HookPcs
  <2>6. CountInv' /\ HookInv'
    BY <2>1, <2>2, <2>3 DEF CountInv, HookInv
  <2>7. KnownInv'
    BY <2>1, <2>2, <2>3 DEF KnownInv, Known, Slots
  <2> QED
    BY <2>4, <2>5, <2>6, <2>7
<1>6. CASE sig_handle_reset
  BY <1>6 DEF sig_handle_reset, TypeOK, FramesInv, PcInv, DeferInv, CountInv,
              HookInv, KnownInv, Known, Draining, HookPcs, Slots
<1>7. CASE sig_handle_unblock
  <2>1. /\ signal_count = 0 /\ pc = "unblock" /\ pc' = "lua" /\ ~inhook'
        /\ frames = <<>> /\ blocked' = oldmask
        /\ UNCHANGED <<pending, disp, resethand, queue, handlers, frames, ps,
                       oldmask, signalno, top, lost>>
    BY <1>7 DEF sig_handle_unblock, CountInv
  <2>2. TypeOK'
    BY <1>7, <2>1 DEF TypeOK, sig_handle_unblock
  <2>3. FramesInv' /\ PcInv' /\ DeferInv' /\ CountInv' /\ HookInv'
    BY <2>1 DEF FramesInv, PcInv, DeferInv, CountInv, HookInv, Draining, HookPcs
  <2>4. KnownInv'
    BY <2>1 DEF KnownInv, Known, Slots
  <2> QED
    BY <2>2, <2>3, <2>4
<1>8. ASSUME NEW o \in Outcomes, HandlerEnds(o) PROVE IInv'
  BY <1>8 DEF HandlerEnds, AllOutcomes, TypeOK, FramesInv, PcInv, DeferInv,
              CountInv, HookInv, KnownInv, Known, Draining, HookPcs
<1> QED
  BY <1>1, <1>2, <1>3, <1>4, <1>5, <1>6, <1>7, <1>8 DEF sig_handle

\* The invariant is preserved by every step.
LEMMA NextIInv == IInv /\ [Next]_vars => IInv'
<1> SUFFICES ASSUME IInv, [Next]_vars PROVE IInv'
  OBVIOUS
<1>1. CASE UNCHANGED vars
  BY <1>1 DEF vars, kernel, queue, drain, IInv, TypeOK, FramesInv, PcInv,
              DeferInv, CountInv, HookInv, KnownInv, Known, Draining
<1>2. CASE Next
  BY <1>2, KernelIInv, PostponeIInv, PsignalIInv, DrainIInv DEF Next
<1> QED
  BY <1>1, <1>2

\* The invariant holds in every reachable state.
THEOREM Invariance == Spec => []IInv
BY InitIInv, NextIInv, PTL DEF Spec

\* Every variable keeps its type; in particular signal_count, which sig_handle
\* leaves at -1 for a moment, is never seen so by any other code.
THEOREM TypeCorrect == Spec => []TypeOK
<1>1. IInv => TypeOK
  BY DEF IInv
<1> QED
  BY <1>1, Invariance, PTL

\* sig_postpone is never re-entered, so no signal is ever set aside in
\* signal_pending.
THEOREM PostponeNotReentered == Spec => []NeverDeferred
<1>1. IInv => NeverDeferred
  <2> SUFFICES ASSUME IInv PROVE NeverDeferred
    OBVIOUS
  <2>1. frames = <<>> \/ \E f \in Frame : frames = <<f>>
    BY DEF IInv, FramesInv
  <2>2. Len(frames) <= 1
    BY <2>1
  <2> QED
    BY <2>2 DEF NeverDeferred, IInv, FramesInv
<1> QED
  BY <1>1, Invariance, PTL

\* sig_postpone never stores outside the array, whatever its size and
\* wherever the signal arrives.
THEOREM StoreInBounds == Spec => []WritesInBounds
<1>1. IInv => WritesInBounds
  <2> SUFFICES ASSUME IInv, InFrame("store") PROVE signal_count \in Slots
    BY DEF WritesInBounds
  <2>1. PICK f \in Frame : frames = <<f>>
    BY DEF IInv, FramesInv, InFrame
  <2>2. frames[1] = f /\ f.pc = "store" /\ ~Draining
    BY <2>1 DEF InFrame, Current, IInv, FramesInv
  <2>3. signal_count # -1
    BY <2>2 DEF IInv, CountInv, PcInv, HookPcs, Draining
  <2> QED
    BY <2>1, <2>2, <2>3, SignalAssumption DEF IInv, TypeOK, CountInv, Slots
<1> QED
  BY <1>1, Invariance, PTL

\* A queued signal is never left without the hook that empties the queue.
THEOREM NoLostWakeup == Spec => []QueueHooked
<1>1. IInv => QueueHooked
  BY SignalAssumption DEF IInv, HookInv, QueueHooked
<1> QED
  BY <1>1, Invariance, PTL

\* When sig_handle empties the queue, every signal in it has its function.
THEOREM QueuedHaveHandlers == Spec => []HandlerKnown
<1>1. IInv => HandlerKnown
  <2> SUFFICES ASSUME IInv, pc = "loop", NEW s \in Queued
               PROVE  handlers[s] # nil
    BY DEF HandlerKnown
  <2>1. PICK i \in 0..(signal_count - 1) : s = signals[i]
    BY DEF Queued
  <2>2. i \in Slots /\ i < signal_count
    BY <2>1, SignalAssumption DEF IInv, TypeOK, Slots
  <2> QED
    BY <2>1, <2>2 DEF IInv, KnownInv, Known
<1> QED
  BY <1>1, Invariance, PTL

-----------------------------------------------------------------------------
(* What holds when handlers fail with a string at worst, or not at all.    *)

\* The mask is empty outside sig_handle and sig_postpone, and sig_handle
\* remembers that it was.
MaskInv ==
    /\ top # "error_nil"
    /\ frames = <<>> /\ ~Draining => blocked = {}
    /\ Draining => oldmask = {}

\* If no handler raises a value that cannot be indexed, the program's own
\* code never runs with signals blocked.
THEOREM MaskIsRestored ==
    ASSUME "error_nil" \notin Outcomes
    PROVE  Spec => []MaskRestored
<1>1. Init => MaskInv
  BY DEF Init, MaskInv, Draining
<1>2. IInv /\ MaskInv /\ [Next]_vars => MaskInv'
  <2> SUFFICES ASSUME IInv, MaskInv, [Next]_vars PROVE MaskInv'
    OBVIOUS
  <2> USE SignalAssumption DEF kernel, queue, drain
  <2>1. CASE UNCHANGED vars
    BY <2>1 DEF vars, MaskInv, Draining
  <2>2. ASSUME NEW s \in Sigs, Arrive(s) \/ Praise(s) PROVE MaskInv'
    BY <2>2 DEF Arrive, Praise, MaskInv, Draining
  <2>3. ASSUME NEW s \in Sigs, Deliver(s) PROVE MaskInv'
    <3>1. UNCHANGED <<pc, drain>>
      BY <2>3 DEF Deliver
    <3>2. CASE disp[s] = "sig_postpone"
      BY <2>3, <3>1, <3>2, DeliverFact DEF IInv, MaskInv, Draining
    <3>3. CASE disp[s] # "sig_postpone"
      BY <2>3, <3>1, <3>3, DeliverFact DEF IInv, MaskInv, Draining
    <3> QED
      BY <3>2, <3>3
  <2>4. CASE sig_postpone
    <3>1. UNCHANGED <<pc, drain>> /\ frames # <<>>
      BY <2>4 DEF sig_postpone, sig_postpone_return,
           sig_postpone_enter, sig_postpone_store, sig_postpone_count,
           sig_postpone_hook, sig_postpone_raise, InFrame, FrameUnchanged
    <3>2. PICK f \in Frame : frames = <<f>>
      BY <3>1 DEF IInv, FramesInv
    <3>3. f.saved = {} /\ ~Draining
      BY <3>1, <3>2 DEF IInv, FramesInv
    <3>4. frames' = <<>> => blocked' = {}
      <4>1. Return \/ \E at \in FramePcs : Goto(at)
        BY <2>4 DEF sig_postpone, sig_postpone_return,
             sig_postpone_enter, sig_postpone_store, sig_postpone_count,
             sig_postpone_hook, sig_postpone_raise, FramePcs
      <4>2. CASE Return
        BY <3>2, <3>3, <4>2, ReturnFact
      <4>3. CASE \E at \in FramePcs : Goto(at)
        BY <3>2, <4>3, GotoFact
      <4> QED
        BY <4>1, <4>2, <4>3
    <3> QED
      BY <3>1, <3>3, <3>4 DEF MaskInv, Draining
  <2>5. CASE CallPsignal
    <3>1. /\ frames = <<>> /\ pc' = "sigaction"
          /\ pc \in {"lua", "handler"}
          /\ UNCHANGED <<kernel, frames, drain>>
      BY <2>5 DEF CallPsignal, Psignal, UserCode, At
    <3> QED
      BY <3>1 DEF MaskInv, Draining, IInv, PcInv, HookPcs
  <2>6. CASE Psignal_step
    <3>1. /\ pc \in PsPcs /\ pc' \in PsPcs \cup {"lua", "handler"}
          /\ UNCHANGED <<blocked, frames, drain>>
      BY <2>6 DEF Psignal_step, Psignal_refused, Psignal_sigaction,
           Psignal_rawset, Psignal_result, At, BackToLua, PsPcs
    <3> QED
      BY <3>1 DEF MaskInv, Draining, PsPcs
  <2>7. CASE HookFires \/ sig_handle_block
    BY <2>7 DEF HookFires, sig_handle_block, At, MaskInv, Draining, IInv,
                PcInv, HookPcs
  <2>8. CASE sig_handle_unhook \/ sig_handle_empty \/ sig_handle_reset
    BY <2>8 DEF sig_handle_unhook, sig_handle_empty, sig_handle_reset, At,
                MaskInv, Draining, IInv, PcInv, HookPcs
  <2>9. CASE sig_handle_next
    BY <2>9 DEF sig_handle_next, At, MaskInv, Draining, IInv, PcInv, HookPcs
  <2>10. CASE sig_handle_unblock
    BY <2>10 DEF sig_handle_unblock, At, MaskInv, Draining, IInv, PcInv,
                 HookPcs
  <2>11. ASSUME NEW o \in Outcomes, HandlerEnds(o) PROVE MaskInv'
    BY <2>11 DEF HandlerEnds, At, MaskInv, Draining, IInv, PcInv, HookPcs
  <2> QED
    BY <2>1, <2>2, <2>3, <2>4, <2>5, <2>6, <2>7, <2>8, <2>9, <2>10, <2>11
       DEF Next, sig_handle
<1>3. IInv /\ MaskInv => MaskRestored
  BY DEF IInv, PcInv, MaskInv, MaskRestored, At, Draining
<1> QED
  BY <1>1, <1>2, <1>3, Invariance, PTL DEF Spec

\* No handler has failed, and the one that is running is that of a signal.
Handling == inhook /\ pc \in {"handler"} \cup PsPcs

CallInv ==
    /\ top = "table" /\ ~lost
    /\ Handling => signalno \in Sigs

\* If no handler fails, the table of handlers stays where sig_handle looks
\* for it, and every signal it takes from the queue has its handler called.
LEMMA CallStep ==
    ASSUME Outcomes = {"ok"}, IInv, CallInv, [Next]_vars
    PROVE  CallInv'
<1>1. CASE sig_handle_next
  <2>1. signal_count \in 1..SIGNAL_QUEUE_MAX /\ pc = "loop"
    BY <1>1, SignalAssumption
       DEF sig_handle_next, At, IInv, TypeOK, CountInv
  <2>2. Known(signals[signal_count - 1])
    BY <2>1, SignalAssumption DEF IInv, KnownInv, Slots
  <2> QED
    BY <1>1, <2>1, <2>2 DEF sig_handle_next, Known, CallInv
<1>2. ASSUME NEW o \in Outcomes, HandlerEnds(o) PROVE CallInv'
  BY <1>2 DEF HandlerEnds, CallInv, Handling, PsPcs
<1>3. CASE sig_handle_unhook
  BY <1>3 DEF sig_handle_unhook, CallInv, Handling, PsPcs
<1>4. ASSUME UNCHANGED <<top, lost, signalno>>, Handling' => Handling
      PROVE  CallInv'
  BY <1>4 DEF CallInv
<1>5. CASE UNCHANGED vars
  BY <1>4, <1>5 DEF vars, drain, Handling
<1>6. CASE CallPsignal
  <2>1. Handling' => Handling
    BY <1>6 DEF CallPsignal, Psignal, UserCode, At, drain, IInv, PcInv,
         Handling
  <2> QED
    BY <1>4, <1>6, <2>1 DEF CallPsignal, Psignal, drain
<1>7. CASE Psignal_step
  <2>1. UNCHANGED drain /\ pc \in PsPcs
    BY <1>7 DEF Psignal_step, Psignal_refused, Psignal_sigaction,
         Psignal_rawset, Psignal_result, At, PsPcs
  <2> QED
    BY <1>4, <2>1 DEF drain, Handling
<1>8. ASSUME NEW s \in Sigs, Arrive(s) \/ Deliver(s) \/ Praise(s)
      PROVE  CallInv'
  BY <1>4, <1>8 DEF Arrive, Deliver, Praise, drain, Handling
<1>9. CASE sig_postpone
  BY <1>4, <1>9 DEF sig_postpone, sig_postpone_return,
       sig_postpone_enter, sig_postpone_store, sig_postpone_count,
       sig_postpone_hook, sig_postpone_raise, FrameUnchanged, drain,
       Handling
<1>10. CASE HookFires \/ sig_handle_block \/ sig_handle_empty
              \/ sig_handle_reset \/ sig_handle_unblock
  <2>1. UNCHANGED <<top, lost, signalno>>
    BY <1>10 DEF HookFires, sig_handle_block, sig_handle_empty,
         sig_handle_reset, sig_handle_unblock, drain
  <2>2. ~Handling'
    BY <1>10 DEF HookFires, sig_handle_block, sig_handle_empty,
         sig_handle_reset, sig_handle_unblock, drain, Handling, PsPcs
  <2> QED
    BY <1>4, <2>1, <2>2
<1> QED
  BY <1>1, <1>2, <1>3, <1>5, <1>6, <1>7, <1>8, <1>9, <1>10
     DEF Next, sig_handle

LEMMA InitCallInv == Init => CallInv
BY DEF Init, CallInv, Handling

\* If no handler fails, every signal that leaves the queue has its handler
\* called.
THEOREM NoSignalLost ==
    ASSUME Outcomes = {"ok"}
    PROVE  Spec => []NoneLost
<1>1. IInv /\ CallInv /\ [Next]_vars => CallInv'
  BY CallStep
<1>2. CallInv => NoneLost
  BY DEF CallInv, NoneLost
<1> QED
  BY <1>1, <1>2, InitCallInv, Invariance, PTL DEF Spec

-----------------------------------------------------------------------------
(* The refinement of SignalQueue.  Three steps of signal.c are steps of    *)
(* the abstract stack; every other step leaves the stack and the running   *)
(* handler as they are.                                                    *)

\* The first n slots of an array as a sequence, and what one slot more and
\* one slot less make of it.
FirstSlots(f, n) == [i \in 1..n |-> f[i - 1]]

LEMMA FirstSlotsType ==
    ASSUME NEW S, NEW f, NEW n \in Nat, \A i \in 1..n : f[i - 1] \in S
    PROVE  FirstSlots(f, n) \in Seq(S) /\ Len(FirstSlots(f, n)) = n
BY DEF FirstSlots

LEMMA OneSlotMore ==
    ASSUME NEW S, NEW f, NEW n \in Nat, \A i \in 1..(n + 1) : f[i - 1] \in S
    PROVE  FirstSlots(f, n + 1) = Append(FirstSlots(f, n), f[n])
<1> DEFINE s == FirstSlots(f, n)
           t == FirstSlots(f, n + 1)
<1>1. s \in Seq(S) /\ Len(s) = n
  BY FirstSlotsType
<1>2. f[n] \in S
  <2>1. n + 1 \in 1..(n + 1) /\ (n + 1) - 1 = n
    OBVIOUS
  <2> QED
    BY <2>1
<1>3. t \in Seq(S) /\ Len(t) = n + 1
  BY DEF FirstSlots
<1>4. \A i \in 1..n : s[i] = f[i - 1]
  BY DEF FirstSlots
<1>5. \A i \in 1..(n + 1) : t[i] = f[i - 1]
  BY DEF FirstSlots
<1> HIDE DEF s, t
<1>6. \A i \in 1..(n + 1) : t[i] = Append(s, f[n])[i]
  BY <1>1, <1>2, <1>4, <1>5
<1>7. Append(s, f[n]) \in Seq(S) /\ Len(Append(s, f[n])) = n + 1
  BY <1>1, <1>2
<1>8. t = Append(s, f[n])
  BY <1>3, <1>6, <1>7, SeqEqual
<1> QED
  BY <1>8 DEF s, t

LEMMA OneSlotLess ==
    ASSUME NEW S, NEW f, NEW n \in Nat, n > 0,
           \A i \in 1..n : f[i - 1] \in S
    PROVE  FirstSlots(f, n - 1) = SubSeq(FirstSlots(f, n), 1, n - 1)
<1> DEFINE s == FirstSlots(f, n)
           t == FirstSlots(f, n - 1)
<1>1. s \in Seq(S) /\ Len(s) = n
  BY FirstSlotsType
<1>2. t \in Seq(S) /\ Len(t) = n - 1
  BY DEF FirstSlots
<1>3. \A i \in 1..n : s[i] = f[i - 1]
  BY DEF FirstSlots
<1>4. \A i \in 1..(n - 1) : t[i] = f[i - 1]
  BY DEF FirstSlots
<1> HIDE DEF s, t
<1>5. /\ SubSeq(s, 1, n - 1) \in Seq(S)
      /\ Len(SubSeq(s, 1, n - 1)) = n - 1
      /\ \A i \in 1..(n - 1) : SubSeq(s, 1, n - 1)[i] = s[i]
  BY <1>1
<1>6. t = SubSeq(s, 1, n - 1)
  BY <1>2, <1>3, <1>4, <1>5, SeqEqual
<1> QED
  BY <1>6 DEF s, t

\* signal_count++ in sig_postpone makes the stored signal part of the stack:
\* it is Catch.
LEMMA CountRefines ==
    ASSUME IInv, sig_postpone_count
    PROVE  \E s \in Sigs : Abstract!Catch(s)
<1> USE SignalAssumption
<1>1. frames # <<>>
  BY DEF sig_postpone_count, InFrame
<1>2. PICK f \in Frame : frames = <<f>>
  BY <1>1 DEF IInv, FramesInv
<1>3. frames[1] = f /\ Current = f /\ f.pc = "count" /\ ~Draining
  BY <1>1, <1>2 DEF sig_postpone_count, InFrame, Current, IInv, FramesInv
<1>4. signal_count \in 0..(SIGNAL_QUEUE_MAX - 1)
  <2>1. signal_count # -1
    BY <1>3 DEF IInv, CountInv, PcInv, HookPcs, Draining
  <2> QED
    BY <1>1, <1>3, <2>1 DEF IInv, CountInv, TypeOK
<1> DEFINE s == signals[signal_count]
<1>5. s \in Sigs
  BY <1>1, <1>3 DEF IInv, KnownInv, Known
<1>6. Calling = NoSig /\ Calling' = NoSig
  <2>1. UNCHANGED <<pc, inhook>>
    BY DEF sig_postpone_count, FrameUnchanged, drain
  <2> QED
    BY <1>3, <2>1 DEF Calling, Draining, PsPcs
<1>7. Stack \in Seq(Sigs) /\ Len(Stack) = signal_count
  <2>1. \A i \in 1..signal_count : signals[i - 1] \in Sigs
    BY <1>4 DEF IInv, KnownInv, Known, Slots
  <2> QED
    BY <1>4, <2>1 DEF Stack
<1>8. Stack' = Append(Stack, s)
  <2>1. signal_count' = signal_count + 1 /\ signals' = signals
    BY DEF sig_postpone_count
  <2>2. Stack = FirstSlots(signals, signal_count)
    BY DEF Stack, FirstSlots
  <2>3. Stack' = FirstSlots(signals, signal_count + 1)
    BY <2>1 DEF Stack, FirstSlots
  <2>4. \A i \in 1..(signal_count + 1) : signals[i - 1] \in Sigs
    BY <1>4, <1>5 DEF IInv, KnownInv, Known, Slots
  <2>5. signal_count \in Nat
    BY <1>4
  <2>6. FirstSlots(signals, signal_count + 1)
          = Append(FirstSlots(signals, signal_count), signals[signal_count])
    BY <2>4, <2>5, OneSlotMore
  <2> QED
    BY <2>2, <2>3, <2>6
<1> QED
  BY <1>4, <1>5, <1>6, <1>7, <1>8 DEF Abstract!Catch

\* An iteration of the loop of sig_handle takes the last signal of the stack
\* and calls its handler: it is Call.
LEMMA NextRefines ==
    ASSUME IInv, CallInv, sig_handle_next
    PROVE  Abstract!Call
<1> USE SignalAssumption
<1>1. signal_count \in 1..SIGNAL_QUEUE_MAX /\ pc = "loop"
  BY DEF sig_handle_next, At, IInv, TypeOK, CountInv
<1>2. \A i \in 1..signal_count : signals[i - 1] \in Sigs
  BY <1>1 DEF IInv, KnownInv, Known, Slots
<1>3. Known(signals[signal_count - 1])
  BY <1>1 DEF IInv, KnownInv, Slots
<1>4. Stack \in Seq(Sigs) /\ Len(Stack) = signal_count
  BY <1>1, <1>2 DEF Stack
<1>5. Stack # <<>> /\ Stack[Len(Stack)] = signals[signal_count - 1]
  BY <1>1, <1>4 DEF Stack
<1>6. Calling = NoSig
  BY <1>1 DEF Calling, PsPcs
<1>7. Calling' = signals[signal_count - 1]
  BY <1>1, <1>3 DEF sig_handle_next, CallInv, Known, Calling
<1>8. Stack' = SubSeq(Stack, 1, Len(Stack) - 1)
  <2>1. signal_count' = signal_count - 1 /\ signals' = signals
    BY DEF sig_handle_next
  <2>2. Stack = FirstSlots(signals, signal_count)
    BY DEF Stack, FirstSlots
  <2>3. Stack' = FirstSlots(signals, signal_count - 1)
    BY <2>1 DEF Stack, FirstSlots
  <2>4. signal_count \in Nat /\ signal_count > 0
    BY <1>1
  <2>5. FirstSlots(signals, signal_count - 1)
          = SubSeq(FirstSlots(signals, signal_count), 1, signal_count - 1)
    BY <1>2, <2>4, OneSlotLess
  <2> QED
    BY <1>4, <2>2, <2>3, <2>5
<1> QED
  BY <1>5, <1>6, <1>7, <1>8 DEF Abstract!Call

\* The end of the Lua handler is Return.
LEMMA EndsRefines ==
    ASSUME IInv, CallInv, NEW o \in Outcomes, HandlerEnds(o)
    PROVE  Abstract!Return
<1>1. Calling # NoSig
  BY SignalAssumption DEF HandlerEnds, At, IInv, PcInv, HookPcs, CallInv,
       Handling, Calling
<1>2. Calling' = NoSig
  BY DEF HandlerEnds, Calling, PsPcs
<1>3. UNCHANGED Stack
  BY DEF HandlerEnds, queue, Stack
<1> QED
  BY <1>1, <1>2, <1>3 DEF Abstract!Return

\* The last test of the loop and the assignment after it move signal_count
\* between 0 and -1: the stack is empty in both.
LEMMA EmptyRefines ==
    ASSUME IInv, sig_handle_empty \/ sig_handle_reset
    PROVE  UNCHANGED <<Stack, Calling>>
<1>1. signal_count \in {0, -1} /\ signal_count' \in {0, -1}
  BY DEF sig_handle_empty, sig_handle_reset, At, IInv, CountInv
<1>2. Stack = <<>> /\ Stack' = <<>>
  BY <1>1 DEF Stack
<1>3. Calling = NoSig /\ Calling' = NoSig
  BY DEF sig_handle_empty, sig_handle_reset, At, Calling, PsPcs
<1> QED
  BY <1>2, <1>3

\* Every other step leaves the stack and the running handler alone.
LEMMA OtherRefines ==
    ASSUME IInv, CallInv, [Next]_vars,
           ~sig_postpone_count, ~sig_handle_next, ~sig_handle_empty,
           ~sig_handle_reset, \A o \in Outcomes : ~HandlerEnds(o)
    PROVE  UNCHANGED <<Stack, Calling>>
<1>1. ASSUME UNCHANGED <<signal_count, Calling>>,
             \A i \in 1..signal_count : signals'[i - 1] = signals[i - 1]
      PROVE  UNCHANGED <<Stack, Calling>>
  BY <1>1 DEF Stack
<1>2. ASSUME UNCHANGED <<signal_count, signals, inhook, pc, signalno>>
      PROVE  UNCHANGED <<Stack, Calling>>
  BY <1>2 DEF Stack, Calling
<1>3. CASE UNCHANGED vars
  BY <1>2, <1>3 DEF vars, queue, drain
<1>4. ASSUME NEW s \in Sigs, Arrive(s) \/ Deliver(s) \/ Praise(s)
      PROVE  UNCHANGED <<Stack, Calling>>
  BY <1>2, <1>4 DEF Arrive, Deliver, Praise, queue, drain
<1>5. CASE sig_postpone_store
  <2>1. UNCHANGED <<signal_count, inhook, pc, signalno>>
    BY <1>5 DEF sig_postpone_store, FrameUnchanged, drain
  <2>2. signals' = [signals EXCEPT ![signal_count] = Current.sig]
    BY <1>5 DEF sig_postpone_store
  <2>3. \A i \in 1..signal_count : signals'[i - 1] = signals[i - 1]
    BY <2>2, SignalAssumption DEF IInv, TypeOK, Slots
  <2> QED
    BY <1>1, <2>1, <2>3 DEF Calling
<1>6. CASE sig_postpone /\ ~sig_postpone_store
  BY <1>2, <1>6 DEF sig_postpone, sig_postpone_return, sig_postpone_enter,
       sig_postpone_hook, sig_postpone_raise, FrameUnchanged, queue, drain
<1>7. CASE CallPsignal
  <2>1. UNCHANGED <<signal_count, signals, inhook, signalno>>
        /\ pc' = "sigaction" /\ pc \in {"lua", "handler"}
    BY <1>7 DEF CallPsignal, Psignal, UserCode, At, queue, drain
  <2>2. UNCHANGED Calling
    BY <2>1 DEF Calling, IInv, PcInv, HookPcs, PsPcs
  <2> QED
    BY <1>1, <2>1, <2>2
<1>8. CASE Psignal_step
  <2>1. /\ UNCHANGED <<signal_count, signals, inhook, signalno>>
        /\ pc \in PsPcs
        /\ pc' \in PsPcs \/ BackToLua
    BY <1>8 DEF Psignal_step, Psignal_refused, Psignal_sigaction,
         Psignal_rawset, Psignal_result, At, PsPcs, queue, drain
  <2>2. UNCHANGED Calling
    BY <2>1 DEF Calling, BackToLua
  <2> QED
    BY <1>1, <2>1, <2>2
<1>9. CASE HookFires \/ sig_handle_block \/ sig_handle_unhook
             \/ sig_handle_unblock
  <2>1. UNCHANGED <<signal_count, signals>>
    BY <1>9 DEF HookFires, sig_handle_block, sig_handle_unhook,
         sig_handle_unblock, queue
  <2>2. Calling = NoSig /\ Calling' = NoSig
    BY <1>9 DEF HookFires, sig_handle_block, sig_handle_unhook,
         sig_handle_unblock, At, Calling, PsPcs
  <2> QED
    BY <1>1, <2>1, <2>2
<1> QED
  BY <1>3, <1>4, <1>5, <1>6, <1>7, <1>8, <1>9
     DEF Next, sig_postpone, sig_handle

\* If no handler fails, signal.c implements the stack of SignalQueue: every
\* signal it catches and has room for is handed over exactly once, the
\* latest first, and no handler interrupts another.
THEOREM RefinesQueue ==
    ASSUME Outcomes = {"ok"}
    PROVE  Spec => ImplementsQueue
<1>1. Init => Abstract!Init
  BY SignalAssumption DEF Init, Abstract!Init, Stack, Calling
<1>2. IInv /\ CallInv /\ [Next]_vars
        => [Abstract!Next]_<<Stack, Calling>>
  <2> SUFFICES ASSUME IInv, CallInv, [Next]_vars
               PROVE  Abstract!Next \/ UNCHANGED <<Stack, Calling>>
    OBVIOUS
  <2>1. CASE sig_postpone_count
    BY <2>1, CountRefines DEF Abstract!Next
  <2>2. CASE sig_handle_next
    BY <2>2, NextRefines DEF Abstract!Next
  <2>3. CASE \E o \in Outcomes : HandlerEnds(o)
    BY <2>3, EndsRefines DEF Abstract!Next
  <2>4. CASE sig_handle_empty \/ sig_handle_reset
    BY <2>4, EmptyRefines
  <2> QED
    BY <2>1, <2>2, <2>3, <2>4, OtherRefines
<1>3. IInv /\ CallInv /\ [Next]_vars => CallInv'
  BY CallStep
<1> QED
  BY <1>1, <1>2, <1>3, InitCallInv, Invariance, PTL
     DEF Spec, ImplementsQueue, Abstract!Spec
=============================================================================
