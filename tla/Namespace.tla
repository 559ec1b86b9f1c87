----------------------------- MODULE Namespace -----------------------------
(***************************************************************************)
(* lib/posix/init.lua builds the table that require 'posix' returns: its   *)
(* own functions, the names of every submodule, the deprecated and the     *)
(* compatible versions over them, and at last the submodules themselves,   *)
(* made callable where a function had their name.                          *)
(*                                                                         *)
(* A value is a pair: <<"member", who defined it>> or <<"table", name of   *)
(* the submodule>>.                                                        *)
(***************************************************************************)
EXTENDS Exports

CONSTANT Platforms   \* sets of features

ASSUME NamespaceAssumption == Platforms \subseteq SUBSET Features

\* The functions of init.lua itself.
own == {"pclose", "euidaccess", "execx", "glob", "openpty", "popen",
        "popen_pipeline", "spawn", "timeradd", "timercmp", "timersub"}

\* deprecated.lua leaves a wrapper out only for these features.
deprecated(built) ==
    {"bind", "connect", "exec", "execp", "fnmatch", "getgroup", "getpasswd",
     "getpid", "getrlimit", "gettimeofday", "gmtime", "hostid", "isgraph",
     "isprint", "localtime", "mktime", "nanosleep", "openlog", "pathconf",
     "setrlimit", "stat", "statvfs", "strftime", "strptime", "sysconf",
     "times", "uname"} \cup
    (IF "POSIX_TIMERS" \in built THEN {"clock_getres", "clock_gettime"} ELSE {})
    \cup (IF "HAVE_POSIX_FADVISE" \in built THEN {"fadvise"} ELSE {})

compat == {"chmod", "creat", "mkdir", "mkfifo", "msgget", "open",
           "setlogmask", "umask"}

\* The submodules below sys, and the name each has there.
sysname ==
    "sys.msg" :> "msg" @@ "sys.resource" :> "resource" @@
    "sys.socket" :> "socket" @@ "sys.stat" :> "stat" @@
    "sys.statvfs" :> "statvfs" @@ "sys.time" :> "time" @@
    "sys.times" :> "times" @@ "sys.utsname" :> "utsname" @@
    "sys.wait" :> "wait"

VARIABLES
    built,     \* the features of the platform
    phase,
    i,         \* the next submodule of names
    M,         \* the table
    calls,     \* what __call of a submodule's table calls
    systable

vars == <<built, phase, i, M, calls, systable>>

Member(who) == <<"member", who>>
Table(name) == <<"table", name>>
None        == <<"none", "">>

\* f, and over it who's members.
Over(f, ks, value) ==
    [k \in DOMAIN f \cup ks |-> IF k \in ks THEN value ELSE f[k]]

-----------------------------------------------------------------------------
\* Mistake: the version strings are copied too.
wanted_all(ks) == ks \ {"glob"}

wanted(ks) == ks \ {"version", "glob"}

\* One submodule is copied; assert raises an error on a name that is there.
merge ==
    /\ phase = "merge" /\ i <= Len(names)
    /\ LET ks == wanted(Exports(names[i], built)) IN
       IF ks \cap DOMAIN M # {}
         THEN phase' = "failed" /\ UNCHANGED <<i, M>>
         ELSE /\ M' = Over(M, ks, Member(names[i]))
              /\ i' = i + 1
              /\ phase' = IF i = Len(names) THEN "deprecated" ELSE phase
    /\ UNCHANGED <<built, calls, systable>>

\* Mistake: what is there already is kept.
inject_deprecated_under ==
    /\ phase = "deprecated" /\ phase' = "compat"
    /\ M' = Over(M, deprecated(built) \ DOMAIN M, Member("deprecated"))
    /\ UNCHANGED <<built, i, calls, systable>>

inject_deprecated ==
    /\ phase = "deprecated" /\ phase' = "compat"
    /\ M' = Over(M, deprecated(built), Member("deprecated"))
    /\ UNCHANGED <<built, i, calls, systable>>

inject_compat ==
    /\ phase = "compat" /\ phase' = "tables"
    /\ M' = Over(M, compat, Member("compat"))
    /\ i' = 1
    /\ UNCHANGED <<built, calls, systable>>

functable(name) == IF name \in DOMAIN M THEN M[name] ELSE None

place(name) ==
    IF name \in DOMAIN sysname
      THEN systable' = Over(systable, {sysname[name]}, Table(name)) /\ UNCHANGED M
      ELSE M' = Over(M, {name}, Table(name)) /\ UNCHANGED systable

preload ==
    /\ phase = "tables" /\ i <= Len(names)
    /\ calls' = [calls EXCEPT ![names[i]] = functable(names[i])]
    /\ place(names[i])
    /\ i' = i + 1
    /\ phase' = IF i = Len(names) THEN "last" ELSE phase
    /\ UNCHANGED built

last ==
    /\ phase = "last" /\ phase' = "done"
    /\ M' = Over(Over(M, {"sys"}, Table("sys")), {"version"}, Member("version"))
    /\ UNCHANGED <<built, i, calls, systable>>

-----------------------------------------------------------------------------
Init ==
    /\ built \in Platforms
    /\ phase = "merge" /\ i = 1
    /\ M = [k \in own |-> Member("init")]
    /\ calls = [name \in Submodules |-> None]
    /\ systable = [k \in {} |-> None]

Next == merge \/ inject_deprecated \/ inject_compat \/ preload \/ last

Spec == Init /\ [][Next]_vars

-----------------------------------------------------------------------------
(* Properties.                                                             *)

\* What posix.k(...) runs.
Called(k) == IF M[k][1] = "table" /\ M[k][2] \in Submodules
               THEN calls[M[k][2]] ELSE M[k]

\* No two submodules export the same name, and none exports one that
\* init.lua defines, on any platform: require 'posix' does not fail.
NoClash == phase # "failed"

\* Old programs keep the function they know: posix.k runs the version of
\* compat.lua if it has one, else that of deprecated.lua, else that of
\* init.lua, else the one of the submodule, also where posix.k is now the
\* table of the submodule of that name; glob is the one of init.lua.
LegacyCalled ==
    phase = "done" =>
        /\ \A k \in compat : Called(k) = Member("compat")
        /\ \A k \in deprecated(built) \ compat : Called(k) = Member("deprecated")
        /\ \A k \in own \ (deprecated(built) \cup compat) :
             Called(k) = Member("init")
        /\ \A name \in Submodules :
             \A k \in Exports(name, built)
                      \ (own \cup deprecated(built) \cup compat \cup {"version"}) :
               Called(k) = Member(name)

=============================================================================
