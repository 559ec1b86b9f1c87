------------------------------- MODULE TimeVal -------------------------------
(***************************************************************************)
(* timeradd, timersub and timercmp (lib/posix/init.lua): arithmetic on     *)
(* timeval tables, whose fields are tv_sec and tv_usec, or sec and usec    *)
(* in the older form that these functions also return.                     *)
(*                                                                         *)
(* The program adds or subtracts two times, and may go on from the result. *)
(***************************************************************************)
EXTENDS Integers

CONSTANTS
    MILLION,    \* microseconds in a second
    MaxSec,     \* seconds of the times the program starts from
    MaxCalls,   \* calls of a behaviour
    nil         \* a field the table does not have

ASSUME TimeValAssumption ==
    /\ MILLION \in Nat \ {0} /\ MaxSec \in Nat /\ MaxCalls \in Nat
    /\ nil \notin Int

\* What gettimeofday gives, or a table that leaves out a field.
TimeVals == [tv_sec : 0..MaxSec \cup {nil},
             tv_usec : 0..(MILLION - 1) \cup {nil},
             sec : {nil}, usec : {nil}]

VARIABLES
    x, y,         \* the arguments
    op,           \* the function running
    sec, usec,    \* its locals
    pc,
    result,       \* what it returned
    calls,        \* calls made so far
    start, net    \* history: the first x, and how often y was added to it

vars == <<x, y, op, sec, usec, pc, result, calls, start, net>>

Legacy(s, u) == [tv_sec |-> nil, tv_usec |-> nil, sec |-> s, usec |-> u]

\* tonumber(v) or 0
Num(v) == IF v = nil THEN 0 ELSE v

\* The form is chosen by either tv_ field; the other form is then ignored.
IsTimeVal(t) == t.tv_sec # nil \/ t.tv_usec # nil
Sec(t)  == IF IsTimeVal(t) THEN Num(t.tv_sec)  ELSE Num(t.sec)
Usec(t) == IF IsTimeVal(t) THEN Num(t.tv_usec) ELSE Num(t.usec)

Value(s, u) == s * MILLION + u

-----------------------------------------------------------------------------
Ptimeradd ==
    /\ pc = "lua" /\ calls < MaxCalls
    /\ op' = "add" /\ pc' = "adjust"
    /\ sec' = Sec(x) + Sec(y)
    /\ usec' = Usec(x) + Usec(y)
    /\ calls' = calls + 1 /\ net' = net + 1
    /\ UNCHANGED <<x, y, result, start>>

\* Mistake: the seconds are not counted.
Ptimeradd_carry_lost ==
    /\ pc = "adjust" /\ op = "add" /\ usec > MILLION
    /\ usec' = usec - MILLION
    /\ UNCHANGED <<x, y, op, sec, pc, result, calls, start, net>>

\* while usec > 1000000
Ptimeradd_carry ==
    /\ pc = "adjust" /\ op = "add" /\ usec > MILLION
    /\ sec' = sec + 1
    /\ usec' = usec - MILLION
    /\ UNCHANGED <<x, y, op, pc, result, calls, start, net>>

Ptimersub ==
    /\ pc = "lua" /\ calls < MaxCalls
    /\ op' = "sub" /\ pc' = "adjust"
    /\ sec' = Sec(x) - Sec(y)
    /\ usec' = Usec(x) - Usec(y)
    /\ calls' = calls + 1 /\ net' = net - 1
    /\ UNCHANGED <<x, y, result, start>>

\* while usec < 0
Ptimersub_borrow ==
    /\ pc = "adjust" /\ op = "sub" /\ usec < 0
    /\ sec' = sec - 1
    /\ usec' = usec + MILLION
    /\ UNCHANGED <<x, y, op, pc, result, calls, start, net>>

\* Mistake: timersub returns a time with negative microseconds.
Return_early ==
    /\ pc = "adjust"
    /\ op = "add" => usec <= MILLION
    /\ result' = Legacy(sec, usec)
    /\ pc' = "returned"
    /\ UNCHANGED <<x, y, op, sec, usec, calls, start, net>>

Return ==
    /\ pc = "adjust"
    /\ IF op = "add" THEN usec <= MILLION ELSE usec >= 0
    /\ result' = Legacy(sec, usec)
    /\ pc' = "returned"
    /\ UNCHANGED <<x, y, op, sec, usec, calls, start, net>>

\* The program goes on from the result.
Chain ==
    /\ pc = "returned"
    /\ x' = result
    /\ pc' = "lua"
    /\ UNCHANGED <<y, op, sec, usec, result, calls, start, net>>

\* timercmp, which looks for each field in either form.
Field(tv, old) == IF tv # nil THEN tv ELSE Num(old)

\* Mistake: the microseconds decide first.
Ptimercmp_usec(a, b) ==
    IF Field(a.tv_usec, a.usec) # Field(b.tv_usec, b.usec)
      THEN Field(a.tv_usec, a.usec) - Field(b.tv_usec, b.usec)
      ELSE Field(a.tv_sec, a.sec) - Field(b.tv_sec, b.sec)

Ptimercmp(a, b) ==
    LET asec == Field(a.tv_sec, a.sec)
        bsec == Field(b.tv_sec, b.sec)
    IN IF asec # bsec THEN asec - bsec
       ELSE Field(a.tv_usec, a.usec) - Field(b.tv_usec, b.usec)

-----------------------------------------------------------------------------
Init ==
    /\ x \in TimeVals /\ y \in TimeVals /\ start = x
    /\ op = "add" /\ sec = 0 /\ usec = 0 /\ pc = "lua" /\ calls = 0
    /\ result = Legacy(0, 0) /\ net = 0

Next == \/ Ptimeradd \/ Ptimeradd_carry \/ Ptimersub \/ Ptimersub_borrow
        \/ Return \/ Chain

Spec == Init /\ [][Next]_vars

-----------------------------------------------------------------------------
(* Properties.                                                             *)

Tables == [tv_sec : Int \cup {nil}, tv_usec : Int \cup {nil},
           sec : Int \cup {nil}, usec : Int \cup {nil}]

TypeOK ==
    /\ x \in Tables /\ y \in TimeVals /\ start \in TimeVals
    /\ result \in Tables
    /\ op \in {"add", "sub"} /\ pc \in {"lua", "adjust", "returned"}
    /\ sec \in Int /\ usec \in Int /\ net \in Int
    /\ calls \in 0..MaxCalls

Amount(t) == Value(Sec(t), Usec(t))

\* No time is gained or lost, in either form and over any chain of calls: the
\* result is the first time plus y as often as it was added.
ChainExact ==
    pc = "returned" => Amount(result) = Amount(start) + net * Amount(y)

\* timersub undoes timeradd exactly, carries and borrows included: timercmp
\* finds no difference.
SubRestores ==
    pc = "returned" /\ op = "sub" /\ net = 0 => Ptimercmp(result, start) = 0

\* "0 if x and y are equal, >0 if x is newer, <0 if y is newer", for times
\* that are adjusted.
CompareExact ==
    Usec(x) \in 0..(MILLION - 1) =>
        /\ Ptimercmp(x, y) = 0 <=> Amount(x) = Amount(y)
        /\ Ptimercmp(x, y) > 0 <=> Amount(x) > Amount(y)

=============================================================================
