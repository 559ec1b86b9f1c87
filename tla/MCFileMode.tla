----------------------------- MODULE MCFileMode -----------------------------
(* A small instance of FileMode for TLC.                                   *)
EXTENDS FileMode

LongStr(s)  == [long |-> s]
OctalStr(s) == [octal |-> s]
ClauseStr(s) == [clauses |-> s]
C(who, op, what) == [who |-> who, op |-> op, what |-> what]

\* rwxr-x---, a set-uid mode, an s that is misplaced, an S;
\* 4711; o=x, a=r, a+x,g+w,u-w, u+s; u+w,+x,g+r,o+r, whose third clause is
\* lost with the second; and +x, which is refused.
MCModeStrs ==
    {LongStr(<<"r", "w", "x", "r", "-", "x", "-", "-", "-">>),
     LongStr(<<"r", "w", "s", "r", "-", "x", "-", "w", "-">>),
     LongStr(<<"r", "s", "x", "r", "-", "x", "-", "-", "-">>),
     LongStr(<<"r", "w", "S", "r", "-", "x", "-", "-", "-">>),
     OctalStr(<<4, 7, 1, 1>>),
     ClauseStr(<<C({"o"}, "=", {"x"})>>),
     ClauseStr(<<C({"a"}, "=", {"r"})>>),
     ClauseStr(<<C({"a"}, "+", {"x"}), C({"g"}, "+", {"w"}),
                 C({"u"}, "-", {"w"})>>),
     ClauseStr(<<C({"u"}, "+", {"s"})>>),
     ClauseStr(<<C({"u"}, "+", {"w"}), C({}, "+", {"x"}),
                 C({"g"}, "+", {"r"}), C({"o"}, "+", {"r"})>>),
     ClauseStr(<<C({}, "+", {"x"})>>)}

MCFileModes == {nil, {8, 7, 5, 2}, {11, 8, 7, 6, 3}}

=============================================================================
