----------------------------- MODULE MCMarshal -----------------------------
(* A small instance of Marshal for TLC.                                    *)
EXTENDS Marshal

\* The least value of a type, one in the middle and the greatest.
Ends(type) ==
    <<Least(type), (Least(type) + Greatest(type) + 1) \div 2, Greatest(type)>>

\* The fields are all at the same end of their type, but for one.
AtEnds(k) ==
    {[f \in DOMAIN k.fields |-> Ends(k.fields[f].type)[IF f = g THEN b ELSE a]] :
        g \in DOMAIN k.fields, a \in 1..3, b \in 1..3}

\* The speeds of a terminal are those of its flags.
MCStructs(k) ==
    IF k # termios THEN AtEnds(k)
    ELSE {[s EXCEPT !.ispeed = speed(s.cflag), !.ospeed = speed(s.cflag)] :
            s \in AtEnds(k)}

MCEdits == {bad, -1, 0, 2, Greatest("long")}

MCLocks == [l_type : {nil, bad} \cup (0..Greatest("short")),
            l_start : {nil, -1, 0, Greatest("long")}]

=============================================================================
