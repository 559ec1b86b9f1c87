------------------------------ MODULE FileMode ------------------------------
(***************************************************************************)
(* The functions of lib/posix/compat.lua that take a mode as a string:     *)
(* chmod, creat, open, mkdir, mkfifo, msgget and umask.                    *)
(*                                                                         *)
(* A mode is the set of its bits.  A mode string is a record: nine         *)
(* characters, octal digits, or clauses such as u+w, already split by the  *)
(* patterns of mode_munch.  The process has a file creation mask; there is *)
(* one path, where a file may be.                                          *)
(***************************************************************************)
EXTENDS Integers, Sequences

CONSTANTS
    ModeStrs,     \* mode strings the program uses
    FileModes,    \* modes a file at the path may have at first
    nil

\* Bit 8 is S_IRUSR, bit 0 S_IXOTH; then S_ISVTX, S_ISGID, S_ISUID.
S_ISUID == 11
S_ISGID == 10
S_IRWXU == {8, 7, 6}
S_IRWXG == {5, 4, 3}
S_IRWXO == {2, 1, 0}
RWXALL  == S_IRWXU \cup S_IRWXG \cup S_IRWXO
S_IXUSR == 6
S_IXGRP == 3
Word    == 0..31

Chars   == {"-", "r", "s", "w", "x"}
Clause  == [who : SUBSET {"u", "g", "o", "a"}, op : {"+", "-", "="},
            what : SUBSET {"r", "s", "w", "x"}]

\* The kind of a mode string is the name of its only field.
Is(kind, str) == DOMAIN str = {kind}

ASSUME FileModeAssumption ==
    /\ \A m \in ModeStrs :
         \/ m \in [long : [1..9 -> Chars \cup {"S"}]]
         \/ m \in [octal : Seq(0..7) \ {<<>>}]
         \/ m \in [clauses : Seq(Clause) \ {<<>>}]
    /\ \A m \in FileModes : m = nil \/ m \subseteq 0..11
    /\ nil \notin ModeStrs
    /\ nil \notin [1..9 -> Chars \cup {"S"}]
    /\ nil \notin [long : [1..9 -> Chars \cup {"S"}]]
    /\ \A m \in SUBSET (0..11) : m # nil

VARIABLES
    umask,      \* the process's file creation mask
    file,       \* the mode of the file at the path, or nil
    pc,
    call,       \* the function running, or the last one, and its mode string
    mode,       \* its local, empty when no function runs
    ret,        \* what it returned: nil after an error was raised, -1 for
                \* an error of the system call
    before      \* history: the mask when the last call of umask began

vars == <<umask, file, pc, call, mode, ret, before>>

-----------------------------------------------------------------------------
(* Mode strings.                                                           *)

MODE_MAP == [i \in 1..9 |-> [c |-> <<"r", "w", "x">>[((i - 1) % 3) + 1],
                             b |-> 9 - i]]

pushmode(m) ==
    [i \in 1..9 |->
        CASE i = 3 /\ S_ISUID \in m -> IF S_IXUSR \in m THEN "s" ELSE "S"
          [] i = 6 /\ S_ISGID \in m -> IF S_IXGRP \in m THEN "s" ELSE "S"
          [] OTHER -> IF MODE_MAP[i].b \in m THEN MODE_MAP[i].c ELSE "-"]

\* Mistake: the columns are counted from 0.
rwxrwxrwx_shifted(s) ==
    {MODE_MAP[i].b - 1 : i \in {j \in 1..9 : s[j] = MODE_MAP[j].c}}

rwxrwxrwx(s) ==
    IF \E i \in (1..9) \ {3, 6} : s[i] = "s" THEN nil
    ELSE {MODE_MAP[i].b : i \in {j \in 1..9 : s[j] = MODE_MAP[j].c}}
         \cup (IF s[3] = "s" THEN {S_ISUID, S_IXUSR} ELSE {})
         \cup (IF s[6] = "s" THEN {S_ISGID, S_IXGRP} ELSE {})

\* mode * 8 + digit, for each digit in turn.
octal_mode(s) ==
    LET shift[n \in 0..Len(s)] ==
            IF n = 0 THEN {}
            ELSE {b + 3 : b \in shift[n - 1]}
                 \cup {b \in 0..2 : (s[n] \div 2^b) % 2 = 1}
    IN shift[Len(s)]

Bits(who) ==
    (IF who \cap {"u", "a"} # {} THEN {S_ISUID} \cup S_IRWXU ELSE {})
    \cup (IF who \cap {"g", "a"} # {} THEN {S_ISGID} \cup S_IRWXG ELSE {})
    \cup (IF who \cap {"o", "a"} # {} THEN S_IRWXO ELSE {})

Bobs(what) ==
    (IF "r" \in what THEN {8, 5, 2} ELSE {})
    \cup (IF "w" \in what THEN {7, 4, 1} ELSE {})
    \cup (IF "x" \in what THEN {6, 3, 0} ELSE {})
    \cup (IF "s" \in what THEN {S_ISUID, S_ISGID} ELSE {})

\* Mistake: = clears the bits of every class.
ApplyClause_all(m, c) ==
    LET both == Bits(c.who) \cap Bobs(c.what) IN
    CASE c.op = "+" -> m \cup both
      [] c.op = "-" -> m \ both
      [] c.op = "=" -> both

ApplyClause(m, c) ==
    LET both == Bits(c.who) \cap Bobs(c.what) IN
    CASE c.op = "+" -> m \cup both
      [] c.op = "-" -> m \ both
      [] c.op = "=" -> (m \ Bits(c.who)) \cup both

\* The clauses that gsub does not see as such.  One without a class does not
\* match; its permissions, if it has any, match as the class of a change that
\* ends with the class of the next clause, which is lost with it.
Lost(cs) ==
    LET lost[n \in 0..Len(cs)] ==
            n # 0 /\ \/ cs[n].who = {}
                     \/ n # 1 /\ lost[n - 1] /\ cs[n - 1].what # {}
    IN lost

\* A clause that names no permission does not match either.
MunchClause(m, c, lost) ==
    IF ~lost /\ c.what # {} THEN ApplyClause(m, c) ELSE m

\* The mode after each of the clauses.
Munched(m, cs) ==
    LET munched[n \in 0..Len(cs)] ==
            IF n = 0 THEN m
            ELSE MunchClause(munched[n - 1], cs[n], Lost(cs)[n])
    IN munched

\* The first clause must name who and what, for the string to be accepted.
mode_munch(m, str) ==
    CASE str = nil -> nil
      [] Is("long", str) ->
           IF \A i \in 1..9 : str.long[i] \in Chars
             THEN rwxrwxrwx(str.long) ELSE nil
      [] Is("octal", str) -> octal_mode(str.octal)
      [] Is("clauses", str) ->
           IF str.clauses[1].who # {} /\ str.clauses[1].what # {}
             THEN Munched(m, str.clauses)[Len(str.clauses)] ELSE nil

-----------------------------------------------------------------------------
(* umask(2), which keeps the permission bits of its argument.              *)

Mask(bits) == bits \cap RWXALL

bnot(m) == Word \ m

Begin(op, str, at) ==
    /\ pc = "lua"
    /\ call' = [op |-> op, str |-> str]
    /\ pc' = at
    /\ ret' = nil

\* argerror: the call is left.
Error == pc' = "lua" /\ mode' = {} /\ UNCHANGED <<umask, file, call, ret>>

umask_call(str) ==
    /\ Begin("umask", str, "umask0")
    /\ before' = umask
    /\ UNCHANGED <<umask, file, mode>>

\* local mode = umask(0)
umask_read ==
    /\ pc = "umask0"
    /\ mode' = umask
    /\ umask' = {}
    /\ pc' = "restore"
    /\ UNCHANGED <<file, call, ret, before>>

\* Mistake: the mask is not put back.
umask_restore_none ==
    /\ pc = "restore"
    /\ mode' = bnot(mode) \cap RWXALL
    /\ pc' = IF call.str = nil THEN "push" ELSE "munch"
    /\ UNCHANGED <<umask, file, call, ret, before>>

umask_restore ==
    /\ pc = "restore"
    /\ umask' = Mask(mode)
    /\ mode' = bnot(mode) \cap RWXALL
    /\ pc' = IF call.str = nil THEN "push" ELSE "munch"
    /\ UNCHANGED <<file, call, ret, before>>

umask_munch ==
    LET bits == mode_munch(mode, call.str) IN
    /\ pc = "munch" /\ call.op = "umask"
    /\ \/ bits = nil /\ Error
       \/ /\ bits # nil
          /\ mode' = bits \cap RWXALL
          /\ umask' = Mask(bnot(bits \cap RWXALL))
          /\ pc' = "push"
          /\ UNCHANGED <<file, call, ret>>
    /\ UNCHANGED before

umask_push ==
    /\ pc = "push"
    /\ ret' = pushmode(mode)
    /\ pc' = "lua" /\ mode' = {}
    /\ UNCHANGED <<umask, file, call, before>>

-----------------------------------------------------------------------------
(* The functions that act on a file.                                       *)

\* local mode = (stat(path) or {}).st_mode
chmod_stat(str) ==
    /\ Begin("chmod", str, "munch")
    /\ mode' = IF file = nil THEN {} ELSE file
    /\ UNCHANGED <<umask, file, before>>

chmod_munch ==
    LET bits == mode_munch(mode, call.str) IN
    /\ pc = "munch" /\ call.op = "chmod"
    /\ \/ bits = nil /\ Error
       \/ /\ bits # nil
          /\ file' = IF file = nil THEN nil ELSE bits \cap RWXALL
          /\ ret' = IF file = nil THEN -1 ELSE 0
          /\ pc' = "lua" /\ mode' = {}
          /\ UNCHANGED <<umask, call>>
    /\ UNCHANGED before

\* A file made with the permissions that are asked for and not masked; a
\* file that is there keeps its own.
Made(bits) == IF file = nil THEN bits \ umask ELSE file

\* creat, and open with O_CREAT; open(2) may fail.
creat(str) ==
    LET bits == mode_munch({}, str) IN
    /\ pc = "lua"
    /\ call' = [op |-> "creat", str |-> str]
    /\ \/ bits = nil /\ ret' = nil /\ UNCHANGED file
       \/ bits # nil /\ ret' = -1 /\ UNCHANGED file
       \/ bits # nil /\ ret' = 0 /\ file' = Made(bits \cap RWXALL)
    /\ UNCHANGED <<umask, pc, mode, before>>

\* mkdir and mkfifo.
mkdir ==
    /\ pc = "lua"
    /\ call' = [op |-> "mkdir", str |-> nil]
    /\ ret' = IF file = nil THEN 0 ELSE -1
    /\ file' = Made(RWXALL)
    /\ UNCHANGED <<umask, pc, mode, before>>

\* msgget, up to the call of the binding.
msgget(str) ==
    /\ pc = "lua"
    /\ call' = [op |-> "msgget", str |-> str]
    /\ ret' = IF mode_munch({}, str) = nil THEN nil ELSE 0
    /\ UNCHANGED <<umask, file, pc, mode, before>>

\* The program removes the file.
remove ==
    /\ pc = "lua" /\ file # nil
    /\ file' = nil
    /\ UNCHANGED <<umask, pc, call, mode, ret, before>>

-----------------------------------------------------------------------------
Init ==
    /\ umask \in {{4, 1}, {4, 2, 1, 0}}
    /\ file \in FileModes
    /\ pc = "lua" /\ call = [op |-> "mkdir", str |-> nil] /\ mode = {}
    /\ ret = nil
    /\ before = umask

Next ==
    \/ \E str \in ModeStrs :
          umask_call(str) \/ chmod_stat(str) \/ creat(str) \/ msgget(str)
    \/ umask_call(nil) \/ msgget(nil)
    \/ pc = "lua" /\ call.op = "umask" /\ ret # nil
          /\ umask_call([long |-> ret])
    \/ umask_read \/ umask_restore \/ umask_munch \/ umask_push
    \/ chmod_munch \/ mkdir \/ remove

Spec == Init /\ [][Next]_vars

-----------------------------------------------------------------------------
(* Properties.                                                             *)

\* "It returns current umask", the tests say: the string umask returns
\* describes the mask that the call left in force, and reading it back gives
\* the same permissions, so that umask(umask()) changes nothing.  For a query
\* that mask is also the previous one.  (The comment on umask, "@treturn string
\* previous umask", says so of every call; of one that changes the mask the
\* code does what the tests say.)
ReturnDescribesMask ==
    pc = "lua" /\ call.op = "umask" /\ ret # nil =>
        /\ mode_munch({}, [long |-> ret]) = RWXALL \ umask
        /\ call.str = nil => mode_munch({}, [long |-> ret]) = RWXALL \ before

\* A call of umask with no string, or with one that is not accepted, leaves
\* the mask as it was.
QueryKeepsMask ==
    pc = "lua" /\ call.op = "umask" /\ (call.str = nil \/ ret = nil) =>
        umask = before

\* The bits that the classes of a clause stand for.
Named(str) == UNION {Bits(str.clauses[i].who) : i \in DOMAIN str.clauses}

\* chmod with clauses leaves the permissions of every class it does not name
\* as they are.
ChmodKeepsOthers ==
    [][call.op = "chmod" /\ pc = "munch" /\ pc' = "lua" /\ file # nil
            /\ Is("clauses", call.str) =>
         (file' \cap RWXALL) \ Named(call.str)
             = (file \cap RWXALL) \ Named(call.str)]_vars

=============================================================================
