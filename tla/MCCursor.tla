------------------------------ MODULE MCCursor ------------------------------
(* A small instance of Cursor for TLC.                                     *)
EXTENDS Cursor, TLC

\* prog -ab -c file, and prog -d file -a: an operand ends the options.
MCArgvs == {<< <<"a", "b">>, <<"c">>, <<>> >>, << <<"d">>, <<>>, <<"a">> >>}

\* The iterators of getopt share nothing with the others, and no property is
\* about both: states in which both are at work are not explored further.
OnePart ==
    \/ \A g \in Loops : argv[g] = nil
    \/ /\ open = {} /\ \A i \in Iters : iter[i] = "none"
       /\ \A db \in Dbs : cursor[db] = 0 /\ whole[db] = nil

Symmetry == Permutations(Iters) \cup Permutations(Streams) \cup Permutations(Loops)

=============================================================================
