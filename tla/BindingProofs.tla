--------------------------- MODULE BindingProofs ---------------------------
(***************************************************************************)
(* Theorems about Binding: whatever functions there are, if each has its   *)
(* steps in the order that OrderAssumption states, none keeps what it has  *)
(* taken and none raises an error after it changed the system; and if they *)
(* also have the order that ReportAssumption states, failures are reported *)
(* as failures, with their number, and successes as successes.             *)
(***************************************************************************)
EXTENDS Binding, TLAPS

\* What the system calls return has its type.
LEMMA OutcomeType ==
    ASSUME NEW s \in Sys, NEW o \in Outcomes(s), errno \in Errnos \cup {0}
    PROVE  o.val \in Int /\ o.fail \in Errnos \cup Codes \cup {0}
             /\ (s # "code" => o.fail \in Errnos \cup {0})
BY BindingAssumption DEF Outcomes, Sys, Ok, Fail, WideMax

\* A function is a record with a sequence of steps.
LEMMA FnType ==
    ASSUME NEW f \in Fns
    PROVE  /\ f.code \in Seq(Steps) /\ Len(f.code) \in Nat
           /\ DOMAIN f.code = 1..Len(f.code) /\ f.sys \in Sys
BY BindingAssumption

\* The types, as an induction hypothesis.
LEMMA TypeStep == TypeOK /\ [Next]_vars => TypeOK'
<1> SUFFICES ASSUME TypeOK, [Next]_vars PROVE TypeOK'
  OBVIOUS
<1> USE DEF TypeOK, Go, Leave, Is, Raise, Value, pusherror
<1>0. fn.code \in Seq(Steps) /\ Len(fn.code) \in Nat /\ fn.sys \in Sys
  BY FnType
<1>1. ASSUME NEW f \in Fns, Begin(f) PROVE TypeOK'
  <2>1. f.code \in Seq(Steps) /\ Len(f.code) \in Nat
    BY FnType
  <2>2. fn' = f /\ pc' = 1 /\ 1 \in 0..(Len(f.code) + 1)
    BY <1>1, <2>1 DEF Begin
  <2>3. val' = 0 /\ held' = 0 /\ ret' = nil /\ failed' = 0 /\ errno' = errno
    BY <1>1 DEF Begin
  <2>4. done' = FALSE /\ asked' = FALSE
    BY <1>1 DEF Begin
  <2>5. fn' \in Fns /\ pc' \in 0..(Len(fn'.code) + 1)
    BY <2>1, <2>2
  <2>6. errno' \in Errnos \cup {0} /\ failed' \in Errnos \cup Codes \cup {0} /\ val' \in Int
          /\ held' \in Nat /\ ret' = nil
    BY <2>3
  <2>7. done' \in BOOLEAN /\ asked' \in BOOLEAN
    BY <2>4
  <2>8. QED
    BY <2>5, <2>6, <2>7
<1>2. CASE args
  BY <1>0, <1>2 DEF args
<1>3. CASE zero \/ hint
  BY <1>0, <1>3 DEF zero, hint
<1>4. CASE alloc
  BY <1>0, <1>4 DEF alloc
<1>5. CASE conv
  BY <1>0, <1>5 DEF conv
<1>6. CASE islink
  BY <1>0, <1>6 DEF islink
<1>7. CASE slices
  BY <1>0, <1>7, BindingAssumption DEF slices
<1>8. CASE sys
  <2>1. CASE failed # 0 /\ UNCHANGED <<errno, val, held, failed, done, asked>>
    BY <1>0, <1>8, <2>1 DEF sys
  <2>2. CASE failed = 0
    <3>1. PICK o \in Outcomes(fn.sys) :
             /\ val' = o.val /\ failed' = o.fail
             /\ errno' \in IF o.fail # 0 /\ fn.sys # "code"
                             THEN {IF fn.sys = "errnum" THEN errno ELSE o.fail}
                           ELSE IF fn.sys \in {"entry", "errno"} THEN {errno}
                           ELSE Errnos \cup {errno}
             /\ held' = IF Is("make") /\ o.fail = 0 THEN held + 1 ELSE held
      BY <1>8, <2>2 DEF sys
    <3>2. /\ o.val \in Int /\ o.fail \in Errnos \cup Codes \cup {0}
          /\ fn.sys # "code" => o.fail \in Errnos \cup {0}
      BY <1>0, OutcomeType
    <3>3. errno' \in Errnos \cup {0} /\ held' \in Nat
      BY <3>1, <3>2
    <3>4. done' \in BOOLEAN /\ asked' \in BOOLEAN /\ fn' = fn /\ ret' = ret
            /\ pc' \in 0..(Len(fn.code) + 1)
      BY <1>0, <1>8, <2>2 DEF sys
    <3>5. QED
      BY <3>1, <3>2, <3>3, <3>4
  <2>3. QED
    BY <1>8, <2>1, <2>2 DEF sys
<1>9. CASE set
  BY <1>0, <1>9 DEF set
<1>10. CASE free
  BY <1>0, <1>10 DEF free
<1>11. CASE push
  <2>1. ret'.tag \in {"value", "error", "raise"}
    <3>1. fn.push \in Pushes
      BY BindingAssumption
    <3>2. \A i : pushresult(i).tag \in {"value", "error"}
      BY DEF pushresult
    <3>3. QED
      BY <1>11, <3>1, <3>2 DEF push, Pushes
  <2>2. pc' = 0 /\ fn' = fn /\ UNCHANGED <<errno, val, held, failed, done, asked>>
    BY <1>11 DEF push
  <2>3. pc' \in 0..(Len(fn'.code) + 1)
    BY <1>0, <2>2
  <2>4. QED
    BY <2>1, <2>2, <2>3
<1>12. CASE return
  BY <1>0, <1>12 DEF return
<1>13. CASE UNCHANGED vars
  BY <1>13 DEF vars
<1>14. CASE close
  BY <1>0, <1>14 DEF close
<1>15. QED
  BY <1>1, <1>2, <1>3, <1>4, <1>5, <1>6, <1>7, <1>8, <1>9, <1>10, <1>11,
     <1>12, <1>13, <1>14 DEF Next

\* Every variable keeps its type, for any functions and any widths.
THEOREM TypeCorrect == Spec => []TypeOK
<1>1. Init => TypeOK
  <2> SUFFICES ASSUME Init PROVE TypeOK
    OBVIOUS
  <2>1. fn \in Fns /\ Len(fn.code) \in Nat
    BY FnType DEF Init
  <2>2. pc \in 0..(Len(fn.code) + 1) /\ val \in Int /\ held \in Nat
    BY <2>1 DEF Init
  <2>3. done = FALSE /\ asked = FALSE /\ ret = nil /\ failed = 0
          /\ errno \in Errnos \cup {0}
    BY DEF Init
  <2>4. QED
    BY <2>1, <2>2, <2>3 DEF TypeOK
<1>2. QED
  BY <1>1, TypeStep, PTL DEF Spec

-----------------------------------------------------------------------------
(* What is held, and what has been done, from the place in the function.   *)

\* Something is held only between a step that takes it and the next free.
HeldInv ==
    held # 0 =>
        /\ pc # 0
        /\ \E i \in Takes(fn) : /\ i < pc
                                /\ \A k \in Gives(fn) : i < k => pc <= k

\* The system was changed only by a step that has been passed.
DoneInv == pc # 0 /\ done => \E i \in Changes(fn) : i < pc

IInv == HeldInv /\ DoneInv /\ RaiseHasNoEffect

\* The steps of a function are numbered from 1.
LEMMA Positions ==
    ASSUME NEW f \in Fns
    PROVE  Takes(f) \subseteq Nat /\ Changes(f) \subseteq Nat
             /\ Gives(f) \subseteq Nat
BY FnType DEF Takes, Changes, Gives, At

\* Where a function can be left, it holds nothing.
LEMMA ExitHolds ==
    ASSUME TypeOK, HeldInv, pc \in Exits(fn)
    PROVE  held = 0
<1> SUFFICES ASSUME held # 0 PROVE FALSE
  OBVIOUS
<1>1. PICK i \in Takes(fn) :
         i < pc /\ \A k \in Gives(fn) : i < k => pc <= k
  BY DEF HeldInv
<1>2. PICK k \in Gives(fn) : i < k /\ k < pc
  BY <1>1, OrderAssumption DEF Ordered, TypeOK
<1>3. k \in Nat /\ pc \in Nat
  BY Positions DEF TypeOK
<1>4. QED
  BY <1>1, <1>2, <1>3

\* A step that is not free, and changes nothing that is held, keeps HeldInv.
LEMMA HeldGo ==
    ASSUME TypeOK, HeldInv, pc # 0, pc' = pc + 1, fn' = fn, held' = held,
           pc \notin Gives(fn)
    PROVE  HeldInv'
<1> SUFFICES ASSUME held' # 0
             PROVE  /\ pc' # 0
                    /\ \E i \in Takes(fn') :
                         /\ i < pc'
                         /\ \A k \in Gives(fn') : i < k => pc' <= k
  BY DEF HeldInv
<1>0. pc \in Nat
  BY DEF TypeOK
<1>1. PICK i \in Takes(fn) :
         i < pc /\ \A k \in Gives(fn) : i < k => pc <= k
  BY DEF HeldInv
<1>2. i \in Nat /\ Gives(fn) \subseteq Nat
  BY Positions DEF TypeOK
<1>3. i < pc'
  BY <1>0, <1>1, <1>2
<1>4. ASSUME NEW k \in Gives(fn), i < k PROVE pc' <= k
  <2>1. pc <= k /\ k # pc /\ k \in Nat
    BY <1>1, <1>2, <1>4
  <2>2. QED
    BY <1>0, <2>1
<1>5. pc' # 0
  BY <1>0
<1>6. QED
  BY <1>3, <1>4, <1>5

\* A step that takes something keeps HeldInv.
LEMMA HeldTake ==
    ASSUME TypeOK, pc \in Takes(fn), pc' = pc + 1, fn' = fn
    PROVE  HeldInv'
<1>0. pc \in Nat /\ Gives(fn) \subseteq Nat
  BY Positions DEF TypeOK
<1>1. pc < pc' /\ pc' # 0
  BY <1>0
<1>2. \A k \in Gives(fn) : pc < k => pc' <= k
  BY <1>0
<1>3. QED
  BY <1>1, <1>2 DEF HeldInv

\* A step that goes on without a change of done keeps DoneInv.
LEMMA DoneGo ==
    ASSUME TypeOK, DoneInv, pc # 0, pc' = pc + 1, fn' = fn, done' = done
    PROVE  DoneInv'
<1> SUFFICES ASSUME done PROVE \E i \in Changes(fn') : i < pc'
  BY DEF DoneInv
<1>1. PICK i \in Changes(fn) : i < pc
  BY DEF DoneInv
<1>2. i \in Nat /\ pc \in Nat
  BY Positions DEF TypeOK
<1>3. i < pc'
  BY <1>1, <1>2
<1>4. QED
  BY <1>3

\* A step at which the system is changed keeps DoneInv.
LEMMA DoneChange ==
    ASSUME TypeOK, pc \in Changes(fn), pc' = pc + 1, fn' = fn
    PROVE  DoneInv'
<1>1. pc \in Nat
  BY DEF TypeOK
<1>2. pc < pc'
  BY <1>1
<1>3. QED
  BY <1>2 DEF DoneInv

\* A running function has returned nothing yet.
LEMMA Running ==
    ASSUME pc' # 0
    PROVE  RaiseHasNoEffect'
BY DEF RaiseHasNoEffect, Returned

\* A function that leaves with nothing held keeps HeldInv and DoneInv.
LEMMA Left ==
    ASSUME pc' = 0, held' = 0
    PROVE  HeldInv' /\ DoneInv'
BY DEF HeldInv, DoneInv

\* The place of a step, and what kind of place it is.
LEMMA Place ==
    ASSUME TypeOK, NEW step, Is(step)
    PROVE  /\ pc # 0 /\ pc \in Nat /\ pc + 1 # 0 /\ pc \in At(fn, step)
           /\ step \in Leaves => pc \in Exits(fn)
           /\ step \notin {"free", "close"} => pc \notin Gives(fn)
<1>1. pc \in 1..Len(fn.code) /\ DOMAIN fn.code = 1..Len(fn.code)
  BY FnType DEF TypeOK, Is
<1>2. QED
  BY <1>1 DEF Is, At, Exits, Gives

\* The invariant of one step of a function.
LEMMA InvStep == TypeOK /\ IInv /\ [Next]_vars => IInv'
<1> SUFFICES ASSUME TypeOK, IInv, [Next]_vars PROVE IInv'
  OBVIOUS
<1> USE DEF IInv
<1>1. ASSUME NEW f \in Fns, Begin(f) PROVE IInv'
  <2>1. pc' = 1 /\ held' = 0
    BY <1>1 DEF Begin
  <2>2. done' = FALSE
    BY <1>1 DEF Begin
  <2>3. HeldInv' /\ DoneInv'
    BY <2>1, <2>2 DEF HeldInv, DoneInv
  <2>4. QED
    BY <2>1, <2>3, Running
<1>2. CASE args
  <2>1. pc # 0 /\ pc + 1 # 0 /\ pc \in At(fn, "args") /\ held = 0 /\ held' = held
          /\ pc \notin Gives(fn)
    BY <1>2, Place, ExitHolds DEF args, Leaves
  <2>2. done' = done /\ errno' = errno
    BY <1>2 DEF args
  <2>3. CASE Go
    BY <2>1, <2>2, <2>3, HeldGo, DoneGo, Running DEF Go
  <2>4. CASE Leave(Raise)
    <3>1. pc' = 0 /\ ret' = Raise /\ fn' = fn
      BY <2>4 DEF Leave
    <3>2. ASSUME done PROVE fn.name = "set_errno"
      <4>1. PICK i \in Changes(fn) : i < pc
        BY <2>1, <3>2 DEF DoneInv
      <4>2. QED
        BY <2>1, <4>1, OrderAssumption DEF Ordered, TypeOK
    <3>3. RaiseHasNoEffect'
      BY <2>2, <3>1, <3>2 DEF RaiseHasNoEffect
    <3>4. QED
      BY <2>1, <3>1, <3>3, Left
  <2>5. QED
    BY <1>2, <2>3, <2>4 DEF args
<1>3. CASE zero \/ hint
  <2>1. pc # 0 /\ pc + 1 # 0 /\ pc' = pc + 1 /\ fn' = fn /\ held' = held
          /\ pc \notin Gives(fn)
    BY <1>3, Place DEF zero, hint, Go
  <2>2. done' = done
    BY <1>3 DEF zero, hint
  <2>3. QED
    BY <2>1, <2>2, HeldGo, DoneGo, Running
<1>4. CASE alloc
  <2>1. pc # 0 /\ pc + 1 # 0 /\ pc \in Takes(fn) /\ held = 0
    BY <1>4, Place, ExitHolds DEF alloc, Leaves, Takes
  <2>2. done' = done
    BY <1>4 DEF alloc
  <2>3. CASE Go
    BY <2>1, <2>2, <2>3, HeldTake, DoneGo, Running DEF Go
  <2>4. CASE held' = held /\ Leave([tag |-> "error", n |-> errno'])
    <3>1. pc' = 0 /\ ret' = [tag |-> "error", n |-> errno']
      BY <2>4 DEF Leave
    <3>2. RaiseHasNoEffect'
      BY <3>1 DEF RaiseHasNoEffect
    <3>3. QED
      BY <2>1, <2>4, <3>1, <3>2, Left
  <2>5. QED
    BY <1>4, <2>3, <2>4 DEF alloc
<1>5. CASE conv
  <2>1. pc # 0 /\ pc + 1 # 0 /\ held = 0 /\ held' = held /\ pc \notin Gives(fn)
    BY <1>5, Place, ExitHolds DEF conv, Leaves
  <2>2. done' = done /\ errno' = errno
    BY <1>5 DEF conv
  <2>3. CASE Go
    BY <2>1, <2>2, <2>3, HeldGo, DoneGo, Running DEF Go
  <2>4. CASE Leave(pusherror)
    <3>1. pc' = 0 /\ ret' = [tag |-> "error", n |-> errno]
      BY <2>4 DEF Leave, pusherror
    <3>2. RaiseHasNoEffect'
      BY <2>2, <3>1 DEF RaiseHasNoEffect
    <3>3. QED
      BY <2>1, <3>1, <3>2, Left
  <2>5. QED
    BY <1>5, <2>3, <2>4 DEF conv
<1>6. CASE islink
  <2>1. pc # 0 /\ pc + 1 # 0 /\ pc \in At(fn, "islink") /\ held = 0 /\ held' = held
          /\ pc \notin Gives(fn)
    BY <1>6, Place, ExitHolds DEF islink, Leaves
  <2>2. done' = done /\ errno' = errno
    BY <1>6 DEF islink
  <2>3. CASE Go
    BY <2>1, <2>2, <2>3, HeldGo, DoneGo, Running DEF Go
  <2>4. ASSUME NEW e, Leave([tag |-> "error", n |-> e]) PROVE IInv'
    <3>1. pc' = 0 /\ ret' = [tag |-> "error", n |-> e] /\ fn' = fn
      BY <2>4 DEF Leave
    <3>2. RaiseHasNoEffect'
      BY <3>1 DEF RaiseHasNoEffect
    <3>3. QED
      BY <2>1, <3>1, <3>2, Left
  <2>5. QED
    BY <1>6, <2>3, <2>4 DEF islink, pusherror
<1>7. CASE slices
  <2>1. pc # 0 /\ pc + 1 # 0 /\ held = 0 /\ held' = held /\ pc \notin Gives(fn)
    BY <1>7, Place, ExitHolds DEF slices, Leaves
  <2>2. done' = done
    BY <1>7 DEF slices
  <2>3. CASE Go
    BY <2>1, <2>2, <2>3, HeldGo, DoneGo, Running DEF Go
  <2>4. CASE Leave(Value(0))
    <3>1. pc' = 0 /\ ret' = [tag |-> "value", n |-> 0]
      BY <2>4 DEF Leave, Value
    <3>2. RaiseHasNoEffect'
      BY <3>1 DEF RaiseHasNoEffect
    <3>3. QED
      BY <2>1, <3>1, <3>2, Left
  <2>5. CASE Leave([tag |-> "error", n |-> EINVAL]) /\ errno' = EINVAL
    <3>1. pc' = 0 /\ ret' = [tag |-> "error", n |-> EINVAL]
      BY <2>5 DEF Leave
    <3>2. RaiseHasNoEffect'
      BY <2>5, <3>1 DEF RaiseHasNoEffect
    <3>3. QED
      BY <2>1, <3>1, <3>2, Left
  <2>6. QED
    BY <1>7, <2>3, <2>4, <2>5 DEF slices
<1>8. CASE sys
  <2>1. pc # 0 /\ pc + 1 # 0 /\ pc' = pc + 1 /\ fn' = fn /\ pc \notin Gives(fn)
    BY <1>8, Place DEF sys, Go
  <2>2. CASE failed # 0 /\ UNCHANGED <<errno, val, held, failed, done, asked>>
    BY <2>1, <2>2, HeldGo, DoneGo, Running
  <2>3. CASE failed = 0
    <3>1. PICK o \in Outcomes(fn.sys) :
             held' = IF Is("make") /\ o.fail = 0 THEN held + 1 ELSE held
      BY <1>8, <2>3 DEF sys
    <3>2. done' = (done \/ ~Is("peek"))
      BY <1>8, <2>3 DEF sys
    <3>3. HeldInv'
      <4>1. CASE Is("make") /\ o.fail = 0
        BY <2>1, <4>1, Place, HeldTake DEF Takes
      <4>2. CASE ~(Is("make") /\ o.fail = 0)
        BY <2>1, <3>1, <4>2, HeldGo
      <4>3. QED
        BY <4>1, <4>2
    <3>4. DoneInv'
      <4>1. CASE Is("peek")
        <5>1. done' = done
          BY <3>2, <4>1 DEF TypeOK
        <5>2. QED
          BY <2>1, <5>1, DoneGo
      <4>2. CASE ~Is("peek")
        <5>1. pc \in Changes(fn)
          BY <1>8, <4>2, Place DEF sys, Changes
        <5>2. QED
          BY <2>1, <5>1, DoneChange
      <4>3. QED
        BY <4>1, <4>2
    <3>5. QED
      BY <2>1, <3>3, <3>4, Running
  <2>4. QED
    BY <1>8, <2>2, <2>3 DEF sys
<1>9. CASE set
  <2>1. pc # 0 /\ pc + 1 # 0 /\ pc' = pc + 1 /\ fn' = fn /\ held' = held
          /\ pc \notin Gives(fn) /\ pc \in Changes(fn)
    BY <1>9, Place DEF set, Go, Changes
  <2>2. QED
    BY <2>1, HeldGo, DoneChange, Running
<1>10. CASE free
  <2>1. pc # 0 /\ pc + 1 # 0 /\ pc' = pc + 1 /\ fn' = fn /\ held' = 0
    BY <1>10, Place DEF free, Go
  <2>2. done' = done
    BY <1>10 DEF free
  <2>3. HeldInv'
    BY <2>1 DEF HeldInv
  <2>4. QED
    BY <2>1, <2>2, <2>3, DoneGo, Running
<1>11. CASE push
  <2>1. held = 0 /\ held' = held /\ pc' = 0 /\ fn' = fn
    BY <1>11, Place, ExitHolds DEF push, Leaves, Leave
  <2>2. ret'.tag \in {"value", "error"}
    <3>1. fn.push \in Pushes
      BY BindingAssumption DEF TypeOK
    <3>2. \A i : pushresult(i).tag \in {"value", "error"}
      BY DEF pushresult, pusherror, Value
    <3>3. \A i : Value(i).tag = "value"
      BY DEF Value
    <3>4. QED
      BY <1>11, <3>1, <3>2, <3>3 DEF push, Leave, Pushes, pusherror
  <2>3. RaiseHasNoEffect'
    BY <2>2 DEF RaiseHasNoEffect
  <2>4. QED
    BY <2>1, <2>3, Left
<1>12. CASE return
  <2>1. pc = Len(fn.code) + 1
    BY <1>12, FnType DEF return, TypeOK
  <2>2. held = 0 /\ held' = held /\ pc' = 0
    BY <1>12, <2>1, ExitHolds DEF return, Leave, Exits
  <2>3. ret' = [tag |-> "value", n |-> 0]
    BY <1>12 DEF return, Leave, Value
  <2>4. RaiseHasNoEffect'
    BY <2>3 DEF RaiseHasNoEffect
  <2>5. QED
    BY <2>2, <2>4, Left
<1>13. CASE UNCHANGED vars
  BY <1>13 DEF vars, HeldInv, DoneInv, RaiseHasNoEffect, Returned
<1>14. CASE close
  <2>1. pc # 0 /\ pc + 1 # 0 /\ pc' = pc + 1 /\ fn' = fn /\ held' = 0
    BY <1>14, Place DEF close, Go
  <2>2. done' = done
    BY <1>14 DEF close
  <2>3. HeldInv'
    BY <2>1 DEF HeldInv
  <2>4. QED
    BY <2>1, <2>2, <2>3, DoneGo, Running
<1>15. QED
  BY <1>1, <1>2, <1>3, <1>4, <1>5, <1>6, <1>7, <1>8, <1>9, <1>10, <1>11,
     <1>12, <1>13, <1>14 DEF Next

\* The invariant holds from the beginning on.
LEMMA InvHolds == Spec => [](TypeOK /\ IInv)
<1>1. Init => HeldInv /\ DoneInv /\ RaiseHasNoEffect
  BY DEF Init, HeldInv, DoneInv, RaiseHasNoEffect, Returned
<1>2. Init => IInv
  BY <1>1 DEF IInv
<1>3. QED
  BY <1>2, InvStep, TypeCorrect, PTL DEF Spec

\* Whatever the functions are, if each has its steps in the order that
\* OrderAssumption states, none keeps a buffer on any path.
THEOREM NoneKeepsBuffers == Spec => []NothingHeld
<1>1. IInv => NothingHeld
  BY DEF IInv, HeldInv, NothingHeld, Returned
<1>2. QED
  BY <1>1, InvHolds, PTL

\* An error about the arguments is raised before the system is changed.
THEOREM ArgumentsFirst == Spec => []RaiseHasNoEffect
<1>1. IInv => RaiseHasNoEffect
  BY DEF IInv
<1>2. QED
  BY <1>1, InvHolds, PTL

-----------------------------------------------------------------------------
(* The bytes write passes on.                                              *)

\* The first and the last byte that were asked for.
First == IF slice.ask.offset = nil THEN 1 ELSE slice.ask.offset + 1
Last  == IF slice.ask.nbytes = nil THEN BufLen
         ELSE First + slice.ask.nbytes - 1

\* The bytes are right from the step that chooses them on, and a call that
\* has none although it was asked for some has returned an error.
SliceInv ==
    slice # nil =>
        /\ slice.out \subseteq 1..BufLen
        /\ slice.out = {} \/ slice.out = First..Last
        /\ slice.out = {} =>
             /\ pc = 0
             /\ ret = IF Last = First - 1 THEN Value(0)
                      ELSE [tag |-> "error", n |-> EINVAL]

\* The choice of the bytes keeps SliceInv.
LEMMA SliceChosen == TypeOK /\ slices => SliceInv'
<1> SUFFICES ASSUME TypeOK, slices PROVE SliceInv'
  OBVIOUS
<1>1. PICK nbytes \in Args, offset \in Args :
         LET off == IF offset = nil THEN 0 ELSE offset
             n   == IF nbytes # nil THEN nbytes ELSE BufLen - off
             ask == [nbytes |-> nbytes, offset |-> offset]
         IN IF n = 0
              THEN Leave(Value(0)) /\ slice' = [ask |-> ask, out |-> {}]
                   /\ UNCHANGED errno
            ELSE IF Inside(off, n)
              THEN Go /\ slice' = [ask |-> ask, out |-> (off + 1)..(off + n)]
                   /\ UNCHANGED errno
            ELSE Leave([tag |-> "error", n |-> EINVAL]) /\ errno' = EINVAL
                 /\ slice' = [ask |-> ask, out |-> {}]
  BY DEF slices
<1> DEFINE off == IF offset = nil THEN 0 ELSE offset
           n   == IF nbytes # nil THEN nbytes ELSE BufLen - off
           ask == [nbytes |-> nbytes, offset |-> offset]
<1>2. BufLen \in Nat /\ nil \notin Int
  BY BindingAssumption
<1>3. (nbytes # nil => nbytes \in Int) /\ (offset # nil => offset \in Int)
  BY <1>2 DEF Args
<1>4. off \in Int /\ n \in Int
  BY <1>2, <1>3
<1>5. slice' # nil /\ slice'.ask = ask => First' = off + 1 /\ Last' = off + n
  BY <1>2, <1>3, <1>4 DEF First, Last
<1>6. CASE n = 0
  <2>1. slice' = [ask |-> ask, out |-> {}] /\ Leave(Value(0))
    BY <1>1, <1>6
  <2>2. slice' # nil => Last' = First' - 1
    BY <1>4, <1>5, <1>6, <2>1
  <2>3. slice'.out = {} /\ pc' = 0 /\ ret' = Value(0)
    BY <2>1 DEF Leave
  <2>4. QED
    BY <2>2, <2>3 DEF SliceInv, Value
<1>7. CASE n # 0 /\ Inside(off, n)
  <2>1. slice' = [ask |-> ask, out |-> (off + 1)..(off + n)]
    BY <1>1, <1>7
  <2>2. off >= 0 /\ n > 0 /\ off + n <= BufLen
    BY <1>7 DEF Inside
  <2>3. (off + 1)..(off + n) \subseteq 1..BufLen /\ off + 1 \in (off + 1)..(off + n)
    BY <1>2, <1>4, <2>2
  <2>4. slice' # nil => slice'.out = First'..Last'
    BY <1>5, <2>1
  <2>5. slice'.out \subseteq 1..BufLen /\ slice'.out # {}
    BY <2>1, <2>3
  <2>6. QED
    BY <2>4, <2>5 DEF SliceInv
<1>8. CASE n # 0 /\ ~Inside(off, n)
  <2>1. slice' = [ask |-> ask, out |-> {}] /\ Leave([tag |-> "error", n |-> EINVAL])
    BY <1>1, <1>8
  <2>2. /\ slice'.out = {} /\ pc' = 0
        /\ ret' = [tag |-> "error", n |-> EINVAL]
    BY <2>1 DEF Leave
  <2>3. n # 0 /\ slice'.ask = ask
    BY <1>8, <2>1
  <2>4. ASSUME slice' # nil PROVE Last' # First' - 1
    <3>1. First' = off + 1 /\ Last' = off + n
      BY <1>5, <2>3, <2>4
    <3> HIDE DEF off, n
    <3> QED BY <1>4, <2>3, <3>1
  <2>5. QED
    BY <2>2, <2>4 DEF SliceInv, Value
<1>9. QED
  BY <1>6, <1>7, <1>8

\* A step that leaves the slice alone keeps SliceInv: a call that was refused
\* takes no other step.
LEMMA SliceKept ==
    ASSUME SliceInv, UNCHANGED slice, pc # 0
    PROVE  SliceInv'
<1>1. slice # nil => First' = First /\ Last' = Last
  BY DEF First, Last
<1>2. QED
  BY <1>1 DEF SliceInv

\* write passes on exactly the bytes it was asked for, returns 0 for none and
\* refuses any other number with EINVAL, for strings of every length.
THEOREM WriteSliceExact == Spec => []WriteSlice
<1>1. Init => SliceInv
  BY DEF Init, SliceInv
<1>2. TypeOK /\ SliceInv /\ [Next]_vars => SliceInv'
  <2> SUFFICES ASSUME TypeOK, SliceInv, [Next]_vars PROVE SliceInv'
    OBVIOUS
  <2>1. ASSUME NEW f \in Fns, Begin(f) PROVE SliceInv'
    BY <2>1 DEF Begin, SliceInv
  <2>2. CASE slices
    BY <2>2, SliceChosen
  <2>3. CASE args \/ hint \/ zero \/ alloc \/ conv \/ islink \/ sys \/ set \/ free
            \/ close \/ push
    <3>1. pc # 0 /\ UNCHANGED slice
      BY <2>3 DEF args, hint, zero, alloc, conv, islink, sys, set, free, close,
               push, Is
    <3>2. QED
      BY <3>1, SliceKept
  <2>4. CASE return
    <3>1. pc > Len(fn.code) /\ UNCHANGED slice
      BY <2>4 DEF return
    <3>2. pc # 0
      BY <3>1, FnType DEF TypeOK
    <3>3. QED
      BY <3>1, <3>2, SliceKept
  <2>5. CASE UNCHANGED vars
    BY <2>5 DEF vars, SliceInv, First, Last
  <2>6. QED
    BY <2>1, <2>2, <2>3, <2>4, <2>5 DEF Next
<1>3. SliceInv => WriteSlice
  BY DEF SliceInv, WriteSlice, First, Last, Returned
<1>4. QED
  BY <1>1, <1>2, <1>3, TypeCorrect, PTL DEF Spec

-----------------------------------------------------------------------------
(* What is reported of the system call.                                    *)

\* What val and errno are once a call has returned.  The calls that fail
\* with -1, with a null pointer and with an error number.
MinusOne == {"zero", "fd", "wide", "signed", "conf", "epoch", "fails"}
Null     == {"bool", "ptr", "entry"}
NoFail   == {"sure", "int", "void", "errno"}

\* The functions that call nothing between the call that failed and the
\* report.
Keeps(f) == f.push # "saved" /\ At(f, "alloc") = {}

Shown ==
    /\ failed # 0 =>
         /\ fn.sys \in MinusOne => val = -1
         /\ fn.sys \in Null => val = 0
         /\ fn.sys \in {"errnum", "code"} => val = failed
         /\ fn.sys \notin NoFail
         /\ fn.sys \notin {"errnum", "code"} /\ Keeps(fn) => errno = failed
    /\ failed = 0 =>
         /\ fn.sys \in {"zero", "fd", "wide"} => val # -1
         /\ fn.sys \in {"bool", "ptr"} => val = 1
         /\ fn.sys = "entry" => val = 1 \/ (val = 0 /\ errno = 0)
         /\ fn.sys \in {"errnum", "code"} => val = 0
         /\ fn.sys # "fails"

\* From the first call on: the value is pushed before the end is reached,
\* and until then only steps of AfterCall are taken.
CallInv ==
    /\ failed # 0 => asked
    /\ pc # 0 /\ asked =>
         /\ \E j \in At(fn, "push") : pc <= j
         /\ \A j \in DOMAIN fn.code : pc <= j => fn.code[j] \in AfterCall
         /\ Shown
         /\ failed # 0 /\ Keeps(fn) => held = 0

\* errno is 0 after the step that sets it to 0.
ZeroInv == pc > 1 /\ fn.code[pc - 1] = "zero" => errno = 0

ReportInv == ZeroInv /\ CallInv /\ FailureReported /\ SuccessReported

\* A small number is its own remainder.
LEMMA ModSmall ==
    ASSUME NEW a \in Nat, NEW b \in Nat \ {0}, a < b
    PROVE  a % b = a
OBVIOUS

\* The conversion to int keeps -1, 0 and 1, and so pushresult does not
\* change what it tests for.
LEMMA SmallInts == toint(-1) = -1 /\ toint(0) = 0 /\ toint(1) = 1
<1> DEFINE b == 2 * (IntMax + 1)
<1>1. IntMax \in Nat \ {0}
  BY BindingAssumption
<1>2. (-1) + IntMax + 1 = IntMax /\ 1 + IntMax + 1 = IntMax + 2
        /\ 0 + IntMax + 1 = IntMax + 1
  BY <1>1
<1>3. b \in Nat \ {0} /\ IntMax < b /\ IntMax + 1 < b /\ IntMax + 2 < b
  BY <1>1
<1>4. IntMax % b = IntMax /\ (IntMax + 1) % b = IntMax + 1
        /\ (IntMax + 2) % b = IntMax + 2
  BY <1>1, <1>3, ModSmall
<1> QED
  BY <1>1, <1>2, <1>4 DEF toint

\* A step that passes on, and leaves the call's outcome as it is.
LEMMA ReportGo ==
    ASSUME TypeOK, CallInv, pc # 0, pc' = pc + 1, fn' = fn,
           pc \notin At(fn, "push"),
           UNCHANGED <<val, failed, asked>>,
           held' \in {held, 0},
           asked /\ Shown => Shown'
    PROVE  CallInv'
<1>1. failed' # 0 => asked'
  BY DEF CallInv
<1> SUFFICES ASSUME asked
             PROVE  /\ \E j \in At(fn, "push") : pc + 1 <= j
                    /\ \A j \in DOMAIN fn.code :
                         pc + 1 <= j => fn.code[j] \in AfterCall
                    /\ Shown
  <2>1. failed' # 0 /\ Keeps(fn') => held' = 0
    BY DEF CallInv
  <2> QED
    BY <1>1, <2>1 DEF CallInv
<1>2. pc \in Nat /\ DOMAIN fn.code \subseteq Nat
  BY FnType DEF TypeOK
<1>3. PICK j \in At(fn, "push") : pc <= j
  BY DEF CallInv
<1>4. j \in Nat /\ j # pc
  BY <1>2, <1>3 DEF At
<1>5. pc + 1 <= j
  BY <1>2, <1>3, <1>4
<1>6. \A k \in DOMAIN fn.code : pc + 1 <= k => pc <= k
  BY <1>2
<1> QED
  BY <1>3, <1>5, <1>6 DEF CallInv

\* A running function has reported nothing.
LEMMA NotYet ==
    ASSUME pc' # 0
    PROVE  FailureReported' /\ SuccessReported'
BY DEF FailureReported, SuccessReported, Returned

\* After a step errno is 0 only if the step was zero, or has kept it.
LEMMA ZeroGo ==
    ASSUME TypeOK, NEW step, Is(step), step # "zero", pc' = pc + 1, fn' = fn
    PROVE  ZeroInv'
<1>1. pc \in Nat /\ pc' - 1 = pc
  BY DEF TypeOK
<1> QED
  BY <1>1 DEF ZeroInv, Is

\* The steps that are not allowed after a call come before any.
LEMMA NotAsked ==
    ASSUME TypeOK, CallInv, NEW step, Is(step), step \notin AfterCall
    PROVE  ~asked /\ failed = 0
<1>1. pc \in DOMAIN fn.code /\ pc # 0 /\ pc <= pc
  BY FnType DEF TypeOK, Is
<1> QED
  BY <1>1 DEF CallInv, Is

\* What a call leaves is what Shown says.
LEMMA CallShown ==
    ASSUME TypeOK, sys, failed = 0,
           fn.sys = "entry" => errno = 0
    PROVE  Shown'
<1>1. PICK o \in Outcomes(fn.sys) :
         /\ val' = o.val /\ failed' = o.fail
         /\ errno' \in IF o.fail # 0 /\ fn.sys # "code"
                         THEN {IF fn.sys = "errnum" THEN errno ELSE o.fail}
                       ELSE IF fn.sys \in {"entry", "errno"} THEN {errno}
                       ELSE Errnos \cup {errno}
  BY DEF sys
<1>2. fn' = fn /\ fn.sys \in Sys
  BY FnType DEF sys, Go, TypeOK
<1>3. /\ o.fail # 0 =>
           /\ fn.sys \in MinusOne => o.val = -1
           /\ fn.sys \in Null => o.val = 0
           /\ fn.sys \in {"errnum", "code"} => o.val = o.fail
           /\ fn.sys \notin NoFail
      /\ o.fail = 0 =>
           /\ fn.sys \in {"zero", "fd", "wide"} => o.val # -1
           /\ fn.sys \in {"bool", "ptr"} => o.val = 1
           /\ fn.sys = "entry" => o.val = 1 \/ o.val = 0
           /\ fn.sys \in {"errnum", "code"} => o.val = 0
           /\ fn.sys # "fails"
  BY <1>2, BindingAssumption
     DEF Outcomes, Sys, Ok, Fail, WideMax, MinusOne, Null, NoFail
<1> QED
  BY <1>1, <1>2, <1>3 DEF Shown

\* What push reports of the call is the call's own outcome.
LEMMA PushReports ==
    ASSUME TypeOK, CallInv, push
    PROVE  FailureReported' /\ SuccessReported'
<1>1. pc # 0 /\ pc' = 0 /\ fn' = fn /\ UNCHANGED <<val, failed, asked>>
  BY DEF push, Is, Leave
<1>2. fn.push \in Pushes /\ Fits(fn)
  BY BindingAssumption, ReportAssumption DEF TypeOK, Reports
<1>3. SUFFICES ASSUME asked PROVE FailureReported' /\ SuccessReported'
  BY <1>1 DEF FailureReported, SuccessReported, CallInv
<1>4. Shown
  BY <1>1, <1>3 DEF CallInv
<1>5. CASE failed # 0
  <2>1. SUFFICES ASSUME fn.push \notin {"value", "positive", "ignored"}
                 PROVE  /\ ret'.tag = "error"
                        /\ fn.push # "errnum" /\ At(fn, "alloc") = {} =>
                             ret'.n = failed
    BY <1>1, <1>5 DEF FailureReported, SuccessReported
  <2>2. fn.push = "saved" => ret' = [tag |-> "error", n |-> failed]
    BY <1>5 DEF push, Leave
  <2>3. fn.push = "status" => ret' = [tag |-> "error", n |-> failed]
    BY <1>2, <1>4, <1>5 DEF push, Leave, Fits, Shown
  <2>4. fn.push \notin {"saved", "status"} => ret' = pusherror
    <3>1. fn.push \in {"result", "test", "null", "bool", "errnum", "entry"}
            => pushresult(-1) = pusherror
      BY SmallInts DEF pushresult
    <3>2. CASE fn.push \in {"result", "test"}
      <4>1. val = -1
        BY <1>2, <1>4, <1>5, <3>2 DEF Fits, Shown, MinusOne, NoFail
      <4> QED
        BY <3>1, <3>2, <4>1 DEF push, Leave
    <3>3. CASE fn.push \in {"null", "bool", "entry"}
      <4>1. val = 0
        BY <1>2, <1>4, <1>5, <3>3 DEF Fits, Shown, Null
      <4>2. fn.push = "entry" => errno # 0
        <5>1. SUFFICES ASSUME fn.push = "entry" PROVE errno # 0
          OBVIOUS
        <5>2. fn.sys \in {"ptr", "entry"} /\ At(fn, "alloc") = {}
          BY <1>2, <5>1, ReportAssumption DEF Fits, Reports, TypeOK
        <5>3. errno = failed
          BY <1>4, <1>5, <5>1, <5>2 DEF Shown, Keeps
        <5> QED
          BY <1>5, <5>3
      <4> QED
        BY <3>1, <3>3, <4>1, <4>2 DEF push, Leave
    <3>4. CASE fn.push = "errnum"
      <4>1. val # 0
        BY <1>2, <1>4, <1>5, <3>4 DEF Fits, Shown
      <4> QED
        BY <3>1, <3>4, <4>1 DEF push, Leave
    <3> QED
      BY <1>2, <2>1, <3>2, <3>3, <3>4 DEF Pushes
  <2>5. fn.push \notin {"saved", "errnum", "status"} /\ At(fn, "alloc") = {}
          => errno = failed
    BY <1>2, <1>4, <1>5, <2>1 DEF Pushes, Fits, Shown, Keeps
  <2> QED
    BY <2>2, <2>3, <2>4, <2>5 DEF pusherror
<1>6. CASE failed = 0
  <2>1. SUFFICES ASSUME fn.push \notin {"positive", "ignored"},
                        fn.push = "result" => toint(val) = val /\ val # -1
                 PROVE  ret' = Value(val)
    BY <1>1, <1>6 DEF FailureReported, SuccessReported
  <2> QED
    BY <1>2, <1>4, <1>6, <2>1, SmallInts
       DEF push, Leave, Pushes, Fits, Shown, pushresult
<1> QED
  BY <1>5, <1>6

\* Every step keeps what is known of the call, and what is reported agrees
\* with it.
LEMMA ReportStep == TypeOK /\ IInv /\ ReportInv /\ [Next]_vars => ReportInv'
<1> SUFFICES ASSUME TypeOK, IInv, ReportInv, [Next]_vars PROVE ReportInv'
  OBVIOUS
<1> USE DEF ReportInv
<1>0. pc \in Nat /\ (pc # 0 => pc + 1 # 0)
  BY DEF TypeOK
<1>1. ASSUME NEW f \in Fns, Begin(f) PROVE ReportInv'
  <2>1. pc' = 1 /\ failed' = 0 /\ asked' = FALSE
    BY <1>1 DEF Begin
  <2>2. ZeroInv' /\ CallInv'
    BY <2>1 DEF ZeroInv, CallInv
  <2> QED
    BY <2>1, <2>2, NotYet
<1>2. CASE args
  <2>1. Is("args") /\ pc # 0 /\ pc \notin At(fn, "push")
          /\ UNCHANGED <<errno, val, held, failed, asked>>
    BY <1>2 DEF args, Is, At
  <2>2. CASE Go
    BY <1>0, <2>1, <2>2, ZeroGo, NotYet, ReportGo DEF Go, Shown
  <2>3. CASE Leave(Raise)
    <3>1. pc' = 0 /\ ret'.tag = "raise"
      BY <2>3 DEF Leave, Raise
    <3> QED
      BY <2>1, <3>1 DEF ZeroInv, CallInv, FailureReported, SuccessReported
  <2> QED
    BY <1>2, <2>2, <2>3 DEF args
<1>3. CASE zero
  <2>1. Is("zero") /\ pc # 0 /\ UNCHANGED <<failed, asked>> /\ Go /\ errno' = 0
    BY <1>3 DEF zero, Is
  <2>2. ~asked /\ failed = 0
    BY <2>1, NotAsked DEF AfterCall
  <2>3. ZeroInv' /\ CallInv'
    BY <2>1, <2>2 DEF ZeroInv, CallInv
  <2> QED
    BY <1>0, <2>1, <2>3, NotYet DEF Go
<1>4. CASE hint \/ alloc \/ slices \/ conv
  <2>1. PICK step \in {"hint", "alloc", "slice", "conv"} : Is(step)
    BY <1>4 DEF hint, alloc, slices, conv
  <2>2. ~asked /\ failed = 0
    BY <2>1, NotAsked DEF AfterCall
  <2>3. pc # 0 /\ UNCHANGED <<failed, asked>>
    BY <1>4, <2>1 DEF hint, alloc, slices, conv, Is
  <2>4. CallInv'
    BY <2>2, <2>3 DEF CallInv
  <2>5. CASE Go
    BY <1>0, <2>1, <2>4, <2>5, ZeroGo, NotYet DEF Go
  <2>6. CASE pc' = 0
    BY <2>2, <2>3, <2>4, <2>6 DEF ZeroInv, FailureReported, SuccessReported
  <2> QED
    BY <1>4, <2>5, <2>6 DEF hint, alloc, slices, conv, Leave
<1>5. CASE islink
  <2>1. Is("islink") /\ pc # 0 /\ pc \in At(fn, "islink")
          /\ UNCHANGED <<errno, val, held, failed, asked>>
          /\ pc \notin At(fn, "push")
    BY <1>5, Place DEF islink, At, Is
  <2>2. CASE Go
    BY <1>0, <2>1, <2>2, ZeroGo, NotYet, ReportGo DEF Go, Shown
  <2>3. CASE pc' = 0
    <3>1. fn.name = "readlink" /\ fn.push # "saved"
      BY <2>1, OrderAssumption DEF Ordered, TypeOK
    <3>2. fn' = fn
      BY <1>5 DEF islink, Go, Leave
    <3>3. SuccessReported' /\ ZeroInv' /\ CallInv'
      BY <2>1, <2>3, <3>1, <3>2 DEF SuccessReported, ZeroInv, CallInv
    <3>4. failed # 0 => ret' = pusherror
      BY <1>0, <1>5, <2>1, <2>3 DEF islink, Leave
    <3>5. /\ failed # 0
          /\ fn.push \notin {"errnum", "value", "positive", "ignored"}
          /\ At(fn, "alloc") = {}
          => ret'.n = failed
      <4>1. fn.push \in Pushes /\ Fits(fn)
        BY BindingAssumption, ReportAssumption DEF TypeOK, Reports
      <4>2. fn.push = "test"
        BY <2>1, OrderAssumption DEF Ordered, TypeOK
      <4> QED
        BY <2>1, <3>1, <3>4, <4>1, <4>2
           DEF CallInv, Shown, Pushes, Fits, Keeps, pusherror
    <3>6. FailureReported'
      BY <2>1, <3>2, <3>4, <3>5 DEF FailureReported, pusherror
    <3> QED
      BY <3>3, <3>6
  <2> QED
    BY <1>5, <2>2, <2>3 DEF islink, Leave
<1>6. CASE sys
  <2>1. PICK step \in {"peek", "sys", "make"} : Is(step)
    BY <1>6 DEF sys
  <2>2. Go /\ pc # 0 /\ pc \notin At(fn, "push") /\ pc \in Asks(fn)
    BY <1>6, <2>1, Place DEF sys, Is, At, Asks
  <2>3. ZeroInv' /\ FailureReported' /\ SuccessReported'
    BY <1>0, <2>1, <2>2, ZeroGo, NotYet DEF Go
  <2>4. CASE failed # 0
    BY <1>6, <2>2, <2>3, <2>4, ReportGo DEF sys, Go, Shown
  <2>5. CASE failed = 0
    <3>1. Reports(fn)
      BY ReportAssumption DEF TypeOK
    <3>2. fn.sys = "entry" => errno = 0
      BY <2>2, <3>1 DEF Reports, ZeroInv
    <3>3. Shown' /\ asked'
      BY <1>6, <2>5, <3>2, CallShown DEF sys
    <3>4. DOMAIN fn.code \subseteq Nat
      BY FnType DEF TypeOK
    <3>5. PICK j \in At(fn, "push") : pc < j
      BY <2>2, <3>1 DEF Reports
    <3>6. pc + 1 <= j
      BY <1>0, <3>4, <3>5 DEF At
    <3>7. \A k \in DOMAIN fn.code : pc + 1 <= k => fn.code[k] \in AfterCall
      BY <1>0, <2>2, <3>1, <3>4 DEF Reports
    <3>8. failed' # 0 /\ Keeps(fn) => held' = 0
      <4> SUFFICES ASSUME failed' # 0, Keeps(fn)
                   PROVE  held' = 0
        OBVIOUS
      <4>1. PICK o \in Outcomes(fn.sys) :
               /\ failed' = o.fail
               /\ held' = IF Is("make") /\ o.fail = 0 THEN held + 1 ELSE held
        BY <1>6, <2>5 DEF sys
      <4>2. held' = held
        BY <4>1
      <4>3. ASSUME held # 0 PROVE FALSE
        <5>1. PICK i \in Takes(fn) : i < pc
          BY <4>3 DEF IInv, HeldInv
        <5>2. i \in At(fn, "make")
          BY <5>1 DEF Takes, Keeps
        <5> QED
          BY <2>2, <3>1, <5>1, <5>2 DEF Reports, Keeps
      <4> QED
        BY <4>2, <4>3
    <3> QED
      BY <2>2, <2>3, <3>3, <3>5, <3>6, <3>7, <3>8 DEF CallInv, Go
  <2> QED
    BY <2>4, <2>5
<1>7. CASE set
  <2>1. Is("set") /\ pc # 0 /\ UNCHANGED <<failed, asked>> /\ Go
    BY <1>7 DEF set, Is
  <2>2. ~asked /\ failed = 0
    BY <2>1, NotAsked DEF AfterCall
  <2>3. CallInv'
    BY <2>1, <2>2 DEF CallInv
  <2> QED
    BY <1>0, <2>1, <2>3, ZeroGo, NotYet DEF Go
<1>8. CASE free
  <2>1. Is("free") /\ pc # 0 /\ pc \notin At(fn, "push")
          /\ UNCHANGED <<val, failed, asked>> /\ Go
          /\ held' = 0 /\ (held = 0 => errno' = errno)
    BY <1>8 DEF free, Is, At
  <2>2. fn.sys # "entry"
    BY <2>1, Place, ReportAssumption DEF Reports, TypeOK
  <2>3. asked /\ failed # 0 /\ Keeps(fn) => held = 0
    BY <2>1 DEF CallInv
  <2>4. asked /\ Shown => Shown'
    BY <2>1, <2>2, <2>3 DEF Go, Shown
  <2> QED
    BY <1>0, <2>1, <2>4, ZeroGo, NotYet, ReportGo DEF Go
<1>9. CASE close
  <2>1. Is("close") /\ pc # 0 /\ pc \notin At(fn, "push")
          /\ UNCHANGED <<val, failed, asked>> /\ Go
          /\ (failed = 0 => errno' = errno) /\ held' = 0
    BY <1>9 DEF close, Is, At
  <2>2. fn.push = "saved"
    BY <2>1, Place, ReportAssumption DEF Reports, TypeOK
  <2> QED
    BY <1>0, <2>1, <2>2, ZeroGo, NotYet, ReportGo DEF Go, Shown, Keeps
<1>10. CASE push
  <2>1. pc' = 0 /\ UNCHANGED <<failed, asked>>
    BY <1>10 DEF push, Leave
  <2>2. ZeroInv' /\ CallInv'
    BY <2>1 DEF ZeroInv, CallInv
  <2> QED
    BY <1>10, <2>2, PushReports
<1>11. CASE return
  <2>1. pc # 0 /\ ~asked
    <3>1. pc > Len(fn.code) /\ Len(fn.code) \in Nat
            /\ DOMAIN fn.code = 1..Len(fn.code)
      BY <1>11, FnType DEF return, TypeOK
    <3>2. \A j \in At(fn, "push") : ~(pc <= j)
      BY <1>0, <3>1 DEF At
    <3> QED
      BY <1>0, <3>1, <3>2 DEF CallInv
  <2>2. pc' = 0 /\ UNCHANGED <<failed, asked>>
    BY <1>11 DEF return, Leave
  <2> QED
    BY <2>1, <2>2 DEF ZeroInv, CallInv, FailureReported, SuccessReported
<1>12. CASE UNCHANGED vars
  BY <1>12 DEF vars, ZeroInv, CallInv, Shown, FailureReported,
       SuccessReported, Returned
<1> QED
  BY <1>1, <1>2, <1>3, <1>4, <1>5, <1>6, <1>7, <1>8, <1>9, <1>10, <1>11,
     <1>12 DEF Next

LEMMA ReportHolds == Spec => []ReportInv
<1>1. Init => ReportInv
  BY DEF Init, ReportInv, ZeroInv, CallInv, FailureReported,
         SuccessReported, Returned
<1> QED
  BY <1>1, ReportStep, InvHolds, PTL DEF Spec

\* If each function has its steps in order and tests what its call returns,
\* a call that failed is never reported as a success, and the number that is
\* reported is that of the call, whatever happened before and since, unless the
\* allocator was asked to free a buffer in between.
THEOREM FailuresReported == Spec => []FailureReported
<1>1. ReportInv => FailureReported
  BY DEF ReportInv
<1> QED
  BY <1>1, ReportHolds, PTL

\* A call that succeeded is reported with its own value; a lookup that finds
\* nothing is not taken for a failure, whatever errno was before.
THEOREM SuccessesReported == Spec => []SuccessReported
<1>1. ReportInv => SuccessReported
  BY DEF ReportInv
<1> QED
  BY <1>1, ReportHolds, PTL

=============================================================================
