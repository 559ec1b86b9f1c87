------------------------------- MODULE Cursor -------------------------------
(***************************************************************************)
(* Iterators over state of the C library: directory streams (dirent.c),    *)
(* the group and the user database (grp.c, pwd.c) and getopt (unistd.c).   *)
(*                                                                         *)
(* A stream that closedir has given back may be given out again by the     *)
(* next opendir.  errno is one variable of the process.  A command line is *)
(* a sequence of words; a word is the sequence of its option letters, and  *)
(* is empty for an operand.                                                *)
(***************************************************************************)
EXTENDS Integers, Sequences, FiniteSets, SequencesExt

CONSTANTS
    Iters,    \* iterators that files returns
    Streams,  \* directory streams the process may have open
    DirLen,   \* entries of a directory
    DbLen,    \* entries of a database
    Errnos,   \* error numbers
    Loops,    \* iterators that getopt returns
    Letters,  \* option letters
    Argvs,    \* command lines
    nil

Dbs == {"grp", "pwd"}

ASSUME CursorAssumption ==
    /\ IsFiniteSet(Streams)
    /\ DirLen \in Nat /\ DbLen \in Nat /\ Errnos \subseteq Nat \ {0}
    /\ nil \notin Streams \cup Loops \cup Letters
    /\ \A words \in Argvs : words \in Seq(Seq(Letters))

VARIABLES
    errno,
    iter,    \* each files iterator: "none", "live", or "dropped" by the program
    p,       \* the stream in its userdata, or nil for NULL
    got,     \* history: how many entries it has yielded
    tmp,     \* the stream dir is reading, or nil
    open,    \* the streams that are open
    pos,     \* how many entries were read from each stream
    cursor,  \* how many entries of each database were read
    loop,    \* history: the entries the program was given since it last began
    whole,   \* history: the entries of the last loop that ended with errno 0
    optind,  \* of getopt(3)
    place,   \* of getopt(3): the rest of the word it is in
    argv,    \* the command line of each getopt iterator, or nil
    owner,   \* history: the iterator whose loop nobody disturbed, or nil
    out,     \* history: the options it has yielded
    want,    \* history: the options it was asked for
    over     \* history: its loop has ended

dirvars == <<iter, p, got, tmp, open, pos>>
dbvars  == <<cursor, loop, whole>>
optvars == <<optind, place, argv, owner, out, want, over>>
vars    == <<errno, dirvars, dbvars, optvars>>

-----------------------------------------------------------------------------
(* Directory streams.                                                      *)

opendir(s) == /\ s \notin open
              /\ open' = open \cup {s} /\ pos' = [pos EXCEPT ![s] = 0]

closedir(s) == open' = open \ {s} /\ pos' = [pos EXCEPT ![s] = 0]

\* The directory cannot be opened: an argument error.  The userdata that
\* files has made has no finaliser yet.
opendir_fails ==
    /\ errno' \in Errnos
    /\ UNCHANGED <<dirvars, dbvars, optvars>>

Pfiles(i) ==
    /\ tmp = nil /\ iter[i] = "none"
    /\ \/ opendir_fails
       \/ \E s \in Streams :
            /\ opendir(s)
            /\ iter' = [iter EXCEPT ![i] = "live"]
            /\ p' = [p EXCEPT ![i] = s]
            /\ got' = [got EXCEPT ![i] = 0]
            /\ UNCHANGED <<errno, tmp, dbvars, optvars>>

\* Mistake: the first entry is skipped.
aux_files_skip(i) ==
    /\ tmp = nil /\ iter[i] = "live" /\ p[i] # nil /\ pos[p[i]] < DirLen
    /\ pos' = [pos EXCEPT ![p[i]] = DirLen]
    /\ got' = [got EXCEPT ![i] = @ + 1]
    /\ UNCHANGED <<errno, iter, p, tmp, open, dbvars, optvars>>

\* Mistake: the pointer to the closed stream is kept.
aux_files_keep(i) ==
    /\ tmp = nil /\ iter[i] = "live" /\ p[i] # nil
    /\ IF pos[p[i]] < DirLen
         THEN /\ pos' = [pos EXCEPT ![p[i]] = @ + 1]
              /\ got' = [got EXCEPT ![i] = @ + 1]
              /\ UNCHANGED <<errno, p, open>>
         ELSE closedir(p[i]) /\ UNCHANGED <<errno, got, p>>
    /\ UNCHANGED <<iter, tmp, dbvars, optvars>>

\* A read that fails (and sets errno) ends the loop as the end does.
aux_files(i) ==
    /\ tmp = nil /\ iter[i] = "live"
    /\ \/ p[i] = nil /\ UNCHANGED <<errno, p, got, open, pos>>
       \/ /\ p[i] # nil /\ pos[p[i]] < DirLen
          /\ pos' = [pos EXCEPT ![p[i]] = @ + 1]
          /\ got' = [got EXCEPT ![i] = @ + 1]
          /\ UNCHANGED <<errno, p, open>>
       \/ /\ p[i] # nil
          /\ errno' \in IF pos[p[i]] = DirLen THEN {errno} ELSE Errnos
          /\ closedir(p[i]) /\ p' = [p EXCEPT ![i] = nil]
          /\ UNCHANGED got
    /\ UNCHANGED <<iter, tmp, dbvars, optvars>>

\* The program lets go of an iterator, finished or not.
Drop(i) ==
    /\ tmp = nil /\ iter[i] = "live"
    /\ iter' = [iter EXCEPT ![i] = "dropped"]
    /\ UNCHANGED <<errno, p, got, tmp, open, pos, dbvars, optvars>>

\* The collector runs at any time, also while dir is at work.
dir_gc(i) ==
    /\ iter[i] = "dropped"
    /\ IF p[i] # nil THEN closedir(p[i]) ELSE UNCHANGED <<open, pos>>
    /\ iter' = [iter EXCEPT ![i] = "none"]
    /\ p' = [p EXCEPT ![i] = nil] /\ got' = [got EXCEPT ![i] = 0]
    /\ UNCHANGED <<errno, tmp, dbvars, optvars>>

\* dir reads until readdir returns NULL, for whatever reason.
Pdir ==
    \/ tmp = nil /\ opendir_fails
    \/ /\ tmp = nil
       /\ \E s \in Streams : opendir(s) /\ tmp' = s
       /\ UNCHANGED <<errno, iter, p, got, dbvars, optvars>>
    \/ /\ tmp # nil
       /\ errno' \in Errnos \cup {errno}
       /\ closedir(tmp) /\ tmp' = nil
       /\ UNCHANGED <<iter, p, got, dbvars, optvars>>

-----------------------------------------------------------------------------
(* The group and the user database.                                        *)

\* endgrent and setgrent put the cursor back to the first entry.
rewind(db) ==
    /\ tmp = nil
    /\ cursor' = [cursor EXCEPT ![db] = 0]
    /\ loop' = [loop EXCEPT ![db] = <<>>]
    /\ UNCHANGED <<errno, whole, dirvars, optvars>>

Pendgrent == rewind("grp")
Psetgrent == rewind("grp")
Pendpwent == rewind("pwd")
Psetpwent == rewind("pwd")

\* getgrent(3) has an entry, and may change errno all the same.
entry(db) ==
    /\ cursor[db] < DbLen
    /\ cursor' = [cursor EXCEPT ![db] = @ + 1]
    /\ loop' = [loop EXCEPT ![db] = Append(@, cursor'[db])]
    /\ errno' \in Errnos \cup {errno}
    /\ UNCHANGED whole

\* It fails.
failure(db) == errno' \in Errnos /\ UNCHANGED dbvars

\* It is at the end and errno is 0: the wrapper calls endgrent.
atend(db) ==
    /\ cursor[db] = DbLen /\ errno = 0
    /\ cursor' = [cursor EXCEPT ![db] = 0]
    /\ whole' = [whole EXCEPT ![db] = loop[db]]
    /\ loop' = [loop EXCEPT ![db] = <<>>]
    /\ UNCHANGED errno

\* It is at the end, and errno is left over from an earlier call: the cursor
\* stays where it is.
stale(db) == cursor[db] = DbLen /\ errno # 0 /\ UNCHANGED <<errno, dbvars>>

\* Mistake: the end does not put the cursor back.
Pgetgrent_noend ==
    /\ tmp = nil
    /\ \/ entry("grp") \/ failure("grp")
       \/ /\ cursor["grp"] = DbLen /\ errno = 0
          /\ whole' = [whole EXCEPT !["grp"] = loop["grp"]]
          /\ loop' = [loop EXCEPT !["grp"] = <<>>]
          /\ UNCHANGED <<errno, cursor>>
    /\ UNCHANGED <<dirvars, optvars>>

\* getgrent does not set errno to 0 before it calls, as getgrnam does.
Pgetgrent ==
    /\ tmp = nil
    /\ entry("grp") \/ failure("grp") \/ atend("grp") \/ stale("grp")
    /\ UNCHANGED <<dirvars, optvars>>

Pgetpwent ==
    /\ tmp = nil
    /\ entry("pwd") \/ failure("pwd") \/ atend("pwd") \/ stale("pwd")
    /\ UNCHANGED <<dirvars, optvars>>

\* posix.errno.set_errno(0)
set_errno ==
    /\ tmp = nil
    /\ errno' = 0
    /\ UNCHANGED <<dirvars, dbvars, optvars>>

-----------------------------------------------------------------------------
(* getopt.                                                                 *)

\* The options from a word on, up to the first operand.
Options(words, first) ==
    LET ops  == {k \in first..Len(words) : words[k] = <<>>}
        last == IF ops = {} THEN Len(words)
                ELSE (CHOOSE k \in ops : \A j \in ops : k <= j) - 1
    IN FlattenSeq(SubSeq(words, first, last))

\* A list whose elements are not strings is refused when opterr and optind
\* are set already.
Pgetopt(g, words, first, good) ==
    /\ tmp = nil
    /\ optind' = IF first = nil THEN 1 ELSE first
    /\ argv' = IF good THEN [argv EXCEPT ![g] = words] ELSE argv
    /\ owner' = IF good /\ (place = <<>> \/ optind' = 0) THEN g ELSE nil
    /\ want' = IF owner' = nil THEN <<>>
               ELSE Options(words, IF optind' = 0 THEN 1 ELSE optind')
    /\ out' = <<>> /\ over' = FALSE
    /\ UNCHANGED <<errno, place, dirvars, dbvars>>

\* getopt(3): in the word it is in, or else in the one at optind.  It does
\* not look whether that word is of the command line it is given now.  An
\* optind of 0 makes it begin anew.
getopt(words) ==
    LET ind  == IF optind = 0 THEN 1 ELSE optind
        rest == IF optind # 0 /\ place # <<>> THEN place
                ELSE IF ind <= Len(words) THEN words[ind] ELSE <<>>
    IN [r      |-> IF rest = <<>> THEN nil ELSE Head(rest),
        optind |-> IF Len(rest) = 1 THEN ind + 1 ELSE ind,
        place  |-> IF rest = <<>> THEN <<>> ELSE Tail(rest)]

\* Mistake: the position is taken from a copy that is never updated.
iter_getopt_same(g) ==
    /\ tmp = nil /\ argv[g] # nil
    /\ LET o == getopt(argv[g]) IN
       /\ out' = IF owner = g /\ o.r # nil /\ Len(out) <= Len(want)
                   THEN Append(out, o.r) ELSE <<>>
       /\ owner' = IF owner = g THEN g ELSE nil
       /\ want' = IF owner = g THEN want ELSE <<>>
    /\ UNCHANGED <<errno, optind, place, argv, over, dirvars, dbvars>>

\* argv is never set to NULL, so a loop that has ended calls getopt again.
iter_getopt(g) ==
    /\ tmp = nil /\ argv[g] # nil
    /\ LET o == getopt(argv[g])
           mine == owner = g
       IN /\ optind' = o.optind /\ place' = o.place
          /\ owner' = IF mine THEN g ELSE nil
          /\ out' = IF ~mine THEN <<>>
                    ELSE IF o.r = nil THEN out ELSE Append(out, o.r)
          /\ want' = IF mine THEN want ELSE <<>>
          /\ over' = (mine /\ o.r = nil)
    /\ UNCHANGED <<errno, argv, dirvars, dbvars>>

-----------------------------------------------------------------------------
Init ==
    /\ errno \in Errnos \cup {0}
    /\ iter = [i \in Iters |-> "none"] /\ p = [i \in Iters |-> nil]
    /\ got = [i \in Iters |-> 0] /\ tmp = nil
    /\ open = {} /\ pos = [s \in Streams |-> 0]
    /\ cursor = [db \in Dbs |-> 0] /\ loop = [db \in Dbs |-> <<>>]
    /\ whole = [db \in Dbs |-> nil]
    /\ optind = 1 /\ place = <<>> /\ argv = [g \in Loops |-> nil]
    /\ owner = nil /\ out = <<>> /\ want = <<>> /\ over = FALSE

DirNext == Pdir \/ \E i \in Iters : Pfiles(i) \/ aux_files(i) \/ Drop(i) \/ dir_gc(i)

DbNext == \/ Pendgrent \/ Psetgrent \/ Pgetgrent
          \/ Pendpwent \/ Psetpwent \/ Pgetpwent
          \/ set_errno

OptNext ==
    \E g \in Loops :
       \/ iter_getopt(g)
       \/ \E words \in Argvs, first \in {nil, 0, 1, 2}, good \in BOOLEAN :
            Pgetopt(g, words, first, good)

Next == DirNext \/ DbNext \/ OptNext

Spec == Init /\ [][Next]_vars

-----------------------------------------------------------------------------
(* Properties.                                                             *)

\* The open streams are those of the iterators that have not reached the end
\* and of dir, each has one owner, and no iterator points to a stream that
\* was closed: no stream is lost, closed twice or read after it was closed,
\* whenever the collector runs and whatever stream opendir gives out again.
StreamsOwned ==
    /\ open = {p[i] : i \in {j \in Iters : p[j] # nil}} \cup ({tmp} \ {nil})
    /\ \A i \in Iters : p[i] = tmp => tmp = nil
    /\ \A i, j \in Iters : p[i] = p[j] /\ p[i] # nil => i = j

\* An iterator of files yields the entries in order, each once: it has
\* yielded what was read from its stream, which no one else reads.
FilesInOrder == \A i \in Iters : p[i] # nil => got[i] = pos[p[i]]

\* When getgrent or getpwent returns nil and errno is 0, the program has
\* been given every entry in order: the loop was not cut short by a failure,
\* and the loop before it put the cursor back.
LoopWhole == \A db \in Dbs : whole[db] # nil => whole[db] = [k \in 1..DbLen |-> k]

\* A getopt loop that was begun when no other was inside a word, and that no
\* other call of getopt or step of another loop came into, yields its own
\* options in order, from the word it was told to begin at, and all of them
\* when it ends.
OwnOptions ==
    owner # nil => IsPrefix(out, want) /\ (over => out = want)

=============================================================================
