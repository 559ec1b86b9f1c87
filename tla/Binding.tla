------------------------------ MODULE Binding ------------------------------
(***************************************************************************)
(* How a function of a C submodule runs: it checks its arguments, takes    *)
(* buffers, calls the system, gives the buffers back and pushes its        *)
(* results.  Each function is a record of Calls.tla: its steps in the      *)
(* order of the source, what its system call may return, and how the       *)
(* result is pushed.  errno is one variable of the process, so a function  *)
(* meets the value that the ones before it left.                           *)
(*                                                                         *)
(* An int has IntMax + 1 negative and IntMax + 1 other values; a Lua       *)
(* integer is wider.  Lua's own allocations do not fail.                   *)
(***************************************************************************)
EXTENDS Integers, Sequences

CONSTANTS
    Fns,       \* the functions: records of Calls.tla
    Errnos,    \* error numbers
    Codes,     \* what getaddrinfo and glob return when they fail
    EINVAL,
    IntMax,    \* the greatest int
    BufLen,    \* length of the string given to write
    nil

Steps  == {"args", "hint", "zero", "alloc", "conv", "islink", "slice", "peek", "sys",
           "make", "set", "free", "close", "push"}
Sys    == {"zero", "fd", "wide", "signed", "conf", "bool", "errnum", "code",
           "epoch", "sure", "int", "void", "errno", "ptr", "entry", "fails",
           "exits"}
Pushes == {"result", "test", "null", "value", "bool", "errnum", "status",
           "entry", "positive", "ignored", "saved"}

Fn(name, code, sys, push) ==
    [name |-> name, code |-> code, sys |-> sys, push |-> push]

At(f, step) == {i \in DOMAIN f.code : f.code[i] = step}

\* Steps that raise an error, or leave the function at once.
Leaves == {"args", "alloc", "conv", "islink", "slice", "push"}

ASSUME BindingAssumption ==
    /\ Errnos \subseteq Nat \ {0} /\ EINVAL \in Errnos
    /\ Codes \subseteq Int \ {0}
    /\ IntMax \in Nat \ {0} /\ BufLen \in Nat
    /\ nil \notin Int
    /\ nil \notin Fns
    /\ \A f \in Fns :
         /\ f.code \in Seq(Steps) /\ f.sys \in Sys /\ f.push \in Pushes
         /\ f.code # <<>>

\* The places where a function can be left, its end among them.
Exits(f) == {j \in DOMAIN f.code : f.code[j] \in Leaves} \cup {Len(f.code) + 1}

\* The steps that take something, those that give it back, and those that
\* change the system.
Takes(f)   == At(f, "alloc") \cup At(f, "make")
Gives(f)   == At(f, "free") \cup At(f, "close")
Changes(f) == At(f, "sys") \cup At(f, "make") \cup At(f, "set")

\* The order of the steps: what was taken is given back before the function
\* can be left, and arguments are checked before the system is changed.
\* posix.errno.set_errno assigns errno and then counts its arguments.
Ordered(f) ==
    /\ \A i \in Takes(f), j \in Exits(f) :
         i < j => \E k \in Gives(f) : i < k /\ k < j
    /\ \A i \in Changes(f), j \in At(f, "args") : i < j => f.name = "set_errno"
    /\ At(f, "islink") # {} => f.name = "readlink" /\ f.push = "test"
    /\ f.push = "saved" => f.name = "openpty"

ASSUME OrderAssumption == \A f \in Fns : Ordered(f)

\* The steps that call the system, and the steps that may come after one.
Asks(f)   == At(f, "peek") \cup At(f, "sys") \cup At(f, "make")
AfterCall == {"args", "islink", "peek", "sys", "make", "free", "close", "push"}

\* The test that the result is pushed with suits what the call returns.
Fits(f) ==
    /\ f.push = "result" =>
         f.sys \in {"zero", "fd", "wide", "signed", "int", "fails"}
    /\ f.push = "test"   => f.sys \in {"zero", "fd", "wide", "fails"}
    /\ f.push = "null"   => f.sys = "ptr"
    /\ f.push = "bool"   => f.sys = "bool"
    /\ f.push = "errnum" => f.sys = "errnum"
    /\ f.sys = "code"    => f.push = "status"
    /\ f.push = "status" => f.sys = "code"
    /\ f.push = "entry"  => f.sys \in {"ptr", "entry"}

\* From a call on, a function does nothing that sets errno but give back what
\* it took, and it ends by pushing the result.  Only openpty calls close, and
\* calls the system again after it got something.  A lookup that may leave
\* errno alone has errno set to 0 just before, and takes and frees nothing.
Reports(f) ==
    /\ \A i \in Asks(f), j \in DOMAIN f.code : i < j => f.code[j] \in AfterCall
    /\ \A i \in Asks(f) : \E j \in At(f, "push") : i < j
    /\ At(f, "close") # {} => f.push = "saved"
    /\ \A i \in At(f, "make"), j \in Asks(f) : i < j => f.push = "saved"
    /\ f.push = "entry" \/ f.sys = "entry" =>
         At(f, "free") = {} /\ At(f, "alloc") = {}
    /\ f.sys = "entry" => \A i \in Asks(f) : i > 1 /\ f.code[i - 1] = "zero"
    /\ Fits(f)

ASSUME ReportAssumption == \A f \in Fns : Reports(f)

VARIABLES
    errno,
    fn,       \* the function that runs, or the last one
    pc,       \* its next step; 0 when no function runs
    val,      \* what the system call returned
    held,     \* buffers taken and not given back
    ret,      \* what the function returned or raised
    slice,    \* the bytes write was asked for, and those it passed on
    failed,   \* history: the error number of a system call that failed, or 0
    done,     \* history: the system was asked to change something
    asked     \* history: a system call has returned

vars == <<errno, fn, pc, val, held, ret, slice, failed, done, asked>>

-----------------------------------------------------------------------------
(* Helpers of _helpers.c.                                                  *)

\* The conversion of a wider integer to int.
toint(n) == ((n + IntMax + 1) % (2 * (IntMax + 1))) - (IntMax + 1)

Value(n)  == [tag |-> "value", n |-> n]
pusherror == [tag |-> "error", n |-> errno]
Raise     == [tag |-> "raise", n |-> 0]

\* Mistake: -1 is taken for a value.
pushresult_below(i) == IF toint(i) < -1 THEN pusherror ELSE Value(toint(i))

\* The parameter of pushresult is an int.
pushresult(i) == IF toint(i) = -1 THEN pusherror ELSE Value(toint(i))

-----------------------------------------------------------------------------
(* What the system calls return.                                           *)

Ok(n)      == [val |-> n, fail |-> 0]
Fail(n)    == {[val |-> n, fail |-> e] : e \in Errnos}
WideMax    == 2 * IntMax + 1

Outcomes(sys) ==
    CASE sys = "zero"   -> {Ok(0)} \cup Fail(-1)
      [] sys = "fd"     -> {Ok(0), Ok(IntMax)} \cup Fail(-1)
      [] sys = "wide"   -> {Ok(0), Ok(IntMax), Ok(WideMax)} \cup Fail(-1)
      [] sys = "signed" -> {Ok(0), Ok(-1), Ok(-2)} \cup Fail(-1)
      [] sys = "conf"   -> {Ok(-1), Ok(WideMax)} \cup Fail(-1)
      [] sys = "bool"   -> {Ok(1)} \cup Fail(0)
      [] sys = "errnum" -> {Ok(0)} \cup {[val |-> e, fail |-> e] : e \in Errnos}
      [] sys = "code"   -> {Ok(0)} \cup {[val |-> c, fail |-> c] : c \in Codes}
      [] sys = "epoch"  -> {Ok(-2), Ok(WideMax)} \cup Fail(-1)
      [] sys = "sure"   -> {Ok(0), Ok(WideMax)}
      [] sys = "int"    -> {Ok(0), Ok(IntMax)}
      [] sys = "void"   -> {Ok(0)}
      [] sys = "errno"  -> {Ok(errno)}
      [] sys = "ptr"    -> {Ok(1)} \cup Fail(0)
      [] sys = "entry"  -> {Ok(1), Ok(0)} \cup Fail(0)
      [] sys = "fails"  -> Fail(-1)
      [] sys = "exits"  -> {}

-----------------------------------------------------------------------------
(* Steps.                                                                  *)

Is(step) == pc # 0 /\ pc <= Len(fn.code) /\ fn.code[pc] = step

Go == pc' = pc + 1 /\ UNCHANGED <<fn, ret>>

Leave(result) == pc' = 0 /\ ret' = result /\ UNCHANGED fn

Begin(f) ==
    /\ pc = 0
    /\ fn' = f /\ pc' = 1
    /\ val' = 0 /\ held' = 0 /\ ret' = nil /\ slice' = nil
    /\ failed' = 0 /\ done' = FALSE /\ asked' = FALSE
    /\ UNCHANGED errno

\* checknargs, checkint, checkfieldtype...: an argument is refused or not.
args ==
    /\ Is("args")
    /\ Go \/ Leave(Raise)
    /\ UNCHANGED <<errno, val, held, slice, failed, done, asked>>

\* getcwd asks pathconf how long a path may be, before it counts its
\* arguments, and does without an answer.
hint ==
    /\ Is("hint") /\ Go
    /\ errno' \in Errnos \cup {errno}
    /\ UNCHANGED <<val, held, slice, failed, done, asked>>

\* Mistake: errno is not set to 0.
zero_none ==
    /\ Is("zero") /\ Go
    /\ UNCHANGED <<errno, val, held, slice, failed, done, asked>>

zero ==
    /\ Is("zero") /\ Go
    /\ errno' = 0
    /\ UNCHANGED <<val, held, slice, failed, done, asked>>

\* lalloc, which may or may not set errno when it fails.
alloc ==
    /\ Is("alloc")
    /\ \/ Go /\ held' = held + 1 /\ UNCHANGED errno
       \/ /\ errno' \in Errnos \cup {errno}
          /\ Leave([tag |-> "error", n |-> errno'])
          /\ UNCHANGED held
    /\ UNCHANGED <<val, slice, failed, done, asked>>

\* sockaddr_from_lua, or a command that msgctl does not know: an error that
\* is reported with the errno that was there.
conv ==
    /\ Is("conv")
    /\ Go \/ Leave(pusherror)
    /\ UNCHANGED <<errno, val, held, slice, failed, done, asked>>

\* readlink, of a file that is no link: errno is not set.
islink ==
    /\ Is("islink")
    /\ IF failed # 0 THEN Leave(pusherror)
       ELSE Go \/ Leave([tag |-> "error", n |-> EINVAL])
    /\ UNCHANGED <<errno, val, held, slice, failed, done, asked>>

\* write(fd, buf, nbytes, offset), the bytes that are asked for.
Args == {nil} \cup (-2..(BufLen + 1))

\* Mistake: the end of the string is not checked.
Inside_unchecked(off, n) == off >= 0 /\ n > 0

Inside(off, n) == off >= 0 /\ n > 0 /\ off + n <= BufLen

slices ==
    /\ Is("slice")
    /\ \E nbytes \in Args, offset \in Args :
         LET off == IF offset = nil THEN 0 ELSE offset
             n   == IF nbytes # nil THEN nbytes ELSE BufLen - off
             ask == [nbytes |-> nbytes, offset |-> offset]
         IN IF n = 0
              THEN Leave(Value(0)) /\ slice' = [ask |-> ask, out |-> {}]
                   /\ UNCHANGED errno
            ELSE IF Inside(off, n)
              THEN Go /\ slice' = [ask |-> ask, out |-> (off + 1)..(off + n)]
                   /\ UNCHANGED errno
            ELSE Leave([tag |-> "error", n |-> EINVAL]) /\ errno' = EINVAL
                 /\ slice' = [ask |-> ask, out |-> {}]
    /\ UNCHANGED <<val, held, failed, done, asked>>

\* The system is called: to look something up (peek), to change something
\* (sys), or for memory that it allocates (make).  A call that succeeds may
\* leave any errno; a lookup that finds nothing leaves it alone.
sys ==
    /\ Is("peek") \/ Is("sys") \/ Is("make")
    /\ \/ /\ failed # 0      \* an earlier call failed
          /\ UNCHANGED <<errno, val, held, failed, done, asked>>
       \/ /\ failed = 0
          /\ \E o \in Outcomes(fn.sys) :
               /\ val' = o.val /\ failed' = o.fail
               /\ errno' \in IF o.fail # 0 /\ fn.sys # "code"
                               THEN {IF fn.sys = "errnum" THEN errno ELSE o.fail}
                             ELSE IF fn.sys \in {"entry", "errno"} THEN {errno}
                             ELSE Errnos \cup {errno}
               /\ held' = IF Is("make") /\ o.fail = 0 THEN held + 1 ELSE held
          /\ done' = (done \/ ~Is("peek"))
          /\ asked' = TRUE
    /\ Go /\ UNCHANGED slice

\* posix.errno.set_errno
set ==
    /\ Is("set") /\ Go
    /\ errno' \in Errnos \cup {0}
    /\ done' = TRUE
    /\ UNCHANGED <<val, held, slice, failed, asked>>

\* Mistake: the buffer is kept.
free_none ==
    /\ Is("free") /\ Go
    /\ UNCHANGED <<errno, val, held, slice, failed, done, asked>>

\* lalloc to size 0, free, freeaddrinfo, globfree, which may set errno.
\* Nothing is freed after realpath, glob or getaddrinfo failed: the failure is
\* reported at once, and the call is taken to have left nothing.
free ==
    /\ Is("free") /\ Go
    /\ held' = 0
    /\ errno' \in IF held # 0 THEN Errnos \cup {errno} ELSE {errno}
    /\ UNCHANGED <<val, slice, failed, done, asked>>

\* openpty: the master is closed when a later call failed, and close may set
\* errno; else the program is given it.
close ==
    /\ Is("close") /\ Go
    /\ held' = 0
    /\ errno' \in IF held # 0 /\ failed # 0 THEN Errnos \cup {errno} ELSE {errno}
    /\ UNCHANGED <<val, slice, failed, done, asked>>

\* Mistake: an argument is fetched as the result is pushed.
push_checks ==
    /\ Is("push") /\ Leave(Raise)
    /\ UNCHANGED <<errno, val, held, slice, failed, done, asked>>

push ==
    /\ Is("push")
    /\ Leave(CASE fn.push = "result"   -> pushresult(val)
               [] fn.push = "test"     -> IF val = -1 THEN pusherror ELSE Value(val)
               [] fn.push = "null"     -> IF val = 0 THEN pusherror ELSE Value(val)
               [] fn.push = "value"    -> Value(val)
               [] fn.push = "bool"     -> pushresult(IF val = 0 THEN -1 ELSE 1)
               [] fn.push = "errnum"   -> pushresult(IF val = 0 THEN 0 ELSE -1)
               [] fn.push = "status"   -> IF val = 0 THEN Value(0)
                                          ELSE [tag |-> "error", n |-> val]
               [] fn.push = "entry"    -> IF val = 0 /\ errno # 0 THEN pusherror
                                          ELSE Value(val)
               [] fn.push = "positive" -> Value(IF val < 0 THEN nil ELSE val)
               [] fn.push = "ignored"  -> Value(0)
               [] fn.push = "saved"    -> IF failed = 0 THEN Value(val)
                                          ELSE [tag |-> "error", n |-> failed])
    /\ UNCHANGED <<errno, val, held, slice, failed, done, asked>>

\* A function whose last step raised nothing returns.
return ==
    /\ pc > Len(fn.code)
    /\ Leave(Value(0))
    /\ UNCHANGED <<errno, val, held, slice, failed, done, asked>>

-----------------------------------------------------------------------------
Init ==
    /\ errno \in Errnos \cup {0}
    /\ fn \in Fns /\ pc = 0
    /\ val = 0 /\ held = 0 /\ ret = nil /\ slice = nil
    /\ failed = 0 /\ done = FALSE /\ asked = FALSE

Next ==
    \/ \E f \in Fns : Begin(f)
    \/ args \/ hint \/ zero \/ alloc \/ conv \/ islink \/ slices \/ sys \/ set
    \/ free \/ close \/ push \/ return

Spec == Init /\ [][Next]_vars

-----------------------------------------------------------------------------
(* Properties.                                                             *)

TypeOK ==
    /\ errno \in Errnos \cup {0}
    /\ fn \in Fns /\ pc \in 0..(Len(fn.code) + 1)
    /\ val \in Int /\ held \in Nat
    /\ failed \in Errnos \cup Codes \cup {0} /\ done \in BOOLEAN /\ asked \in BOOLEAN
    /\ ret = nil \/ ret.tag \in {"value", "error", "raise"}

Returned == pc = 0 /\ ret # nil

\* What a function took it has given back when it returns, reports an error
\* or raises one, on every path.
NothingHeld == Returned => held = 0

\* A call that failed is never taken for a success, and the number that is
\* returned is the one it left in errno, whatever happened between, or the one
\* that getaddrinfo or glob returned.  Functions that push a value without a
\* test do not promise this; posix_fadvise looks in errno, which the call does
\* not set; where a buffer is freed before errno is read, the number is what
\* the allocator leaves there.
FailureReported ==
    Returned /\ failed # 0 /\ ret.tag # "raise"
        /\ fn.push \notin {"value", "positive", "ignored"} =>
        /\ ret.tag = "error"
        /\ fn.push # "errnum" /\ At(fn, "alloc") = {} => ret.n = failed

\* A system call that succeeded is reported with its own value: when it fits
\* an int and is not -1, where the function pushes an int.
SuccessReported ==
    Returned /\ asked /\ failed = 0 /\ ret.tag # "raise"
        /\ fn.push \notin {"positive", "ignored"} /\ fn.name # "readlink"
        /\ (fn.push = "result" => toint(val) = val /\ val # -1) =>
      ret = Value(val)

\* An error about the arguments is raised before the system is changed.
RaiseHasNoEffect ==
    Returned /\ ret.tag = "raise" /\ fn.name # "set_errno" => ~done

\* write passes on exactly the bytes it was asked for, all from the offset
\* on when no number is given; it returns 0 for none, and refuses any other
\* number of them, negative ones too, with EINVAL.
WriteSlice ==
    Returned /\ slice # nil =>
        LET first == IF slice.ask.offset = nil THEN 1 ELSE slice.ask.offset + 1
            last  == IF slice.ask.nbytes = nil THEN BufLen
                     ELSE first + slice.ask.nbytes - 1
        IN /\ slice.out \subseteq 1..BufLen
           /\ slice.out = {} \/ slice.out = first..last
           /\ slice.out = {} =>
                ret = IF last = first - 1 THEN Value(0)
                      ELSE [tag |-> "error", n |-> EINVAL]

=============================================================================
