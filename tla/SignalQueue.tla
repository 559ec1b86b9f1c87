----------------------------- MODULE SignalQueue -----------------------------
(***************************************************************************)
(* What posix.signal promises to a program whose handlers do not fail: the *)
(* signals it catches form a bounded stack; one that finds the stack full  *)
(* is dropped; the others are handed one at a time, each exactly once, the *)
(* latest first, to a Lua handler that no other handler interrupts.        *)
(***************************************************************************)
EXTENDS Integers, Sequences

CONSTANTS Sigs, Max, NoSig

VARIABLES
    stack,      \* signals caught and not yet handed over
    calling     \* the signal whose Lua handler is running, or NoSig

Init == stack = <<>> /\ calling = NoSig

Catch(s) ==
    /\ calling = NoSig
    /\ Len(stack) < Max
    /\ stack' = Append(stack, s)
    /\ UNCHANGED calling

Call ==
    /\ calling = NoSig
    /\ stack # <<>>
    /\ calling' = stack[Len(stack)]
    /\ stack' = SubSeq(stack, 1, Len(stack) - 1)

Return ==
    /\ calling # NoSig
    /\ calling' = NoSig
    /\ UNCHANGED stack

Next == (\E s \in Sigs : Catch(s)) \/ Call \/ Return

Spec == Init /\ [][Next]_<<stack, calling>>

=============================================================================
