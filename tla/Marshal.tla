------------------------------ MODULE Marshal ------------------------------
(***************************************************************************)
(* Tables and structs.  A function such as tcgetattr, getrlimit or         *)
(* getsockname gives a struct as a table; a function such as tcsetattr,    *)
(* setrlimit or bind takes one, perhaps after the program has edited it.   *)
(*                                                                         *)
(* A kind of struct has fields that are given and taken, fields that the   *)
(* table does not have, and names that are only given, or only allowed.    *)
(* The integers keep their widths, which are small here: short, int and    *)
(* long have ShortBits, IntBits and LongBits bits, and a Lua integer is as *)
(* wide as a long.  An address, a path or the name of a time zone is a     *)
(* number that stands for it.                                              *)
(***************************************************************************)
EXTENDS Integers

CONSTANTS
    ShortBits, IntBits, LongBits,
    SpeedBits,  \* width of the speed in the control flags of a terminal
    MaxEdits,   \* edits of a table
    Structs(_), \* structs of a kind that the system may give
    Edits,      \* values the program puts into a table
    Locks,      \* tables the program makes for a lock
    bad,        \* a value that is no number
    nil

ASSUME MarshalAssumption ==
    /\ ShortBits \in Nat \ {0} /\ IntBits \in Nat \ {0}
    /\ LongBits \in Nat \ {0}
    /\ ShortBits <= IntBits /\ IntBits <= LongBits
    /\ SpeedBits \in 0..IntBits
    /\ MaxEdits \in Nat
    /\ bad \notin Int /\ nil \notin Int /\ Edits \subseteq Int \cup {bad}

\* Powers of two, as far as they are used.
ASSUME PowersOfTwo ==
    /\ \A w \in 0..LongBits : 2^w \in Nat \ {0}
    /\ \A w \in 1..LongBits : 2^w = 2 * 2^(w - 1)
    /\ \A v, w \in 0..LongBits : v <= w => 2^w = 2^v * 2^(w - v)

-----------------------------------------------------------------------------
(* Integers of C.                                                          *)

Signed(n, w)   == ((n + 2^(w - 1)) % 2^w) - 2^(w - 1)
Unsigned(n, w) == n % 2^w

\* An integer that is assigned to a variable of a type.
To(type, n) ==
    CASE type = "short"  -> Signed(n, ShortBits)
      [] type = "ushort" -> Unsigned(n, ShortBits)
      [] type = "int"    -> Signed(n, IntBits)
      [] type = "uint"   -> Unsigned(n, IntBits)
      [] type = "long"   -> Signed(n, LongBits)
      [] type = "ulong"  -> Unsigned(n, LongBits)

\* The least and the greatest value of a type.
Least(type) ==
    CASE type = "short" -> -2^(ShortBits - 1)
      [] type = "int"   -> -2^(IntBits - 1)
      [] type = "long"  -> -2^(LongBits - 1)
      [] OTHER          -> 0

Greatest(type) ==
    CASE type = "short"  -> 2^(ShortBits - 1) - 1
      [] type = "ushort" -> 2^ShortBits - 1
      [] type = "int"    -> 2^(IntBits - 1) - 1
      [] type = "uint"   -> 2^IntBits - 1
      [] type = "long"   -> 2^(LongBits - 1) - 1
      [] type = "ulong"  -> 2^LongBits - 1

-----------------------------------------------------------------------------
(* The kinds.                                                              *)

\* The field has this type in the struct, and comes from the table through
\* an int or a Lua integer; a table without it is refused (check) or the
\* field is 0 (opt).
opt(type, through)   == [type |-> type, through |-> through, need |-> FALSE]
check(type, through) == [type |-> type, through |-> through, need |-> TRUE]

\* The field is in the struct and not in the table.  What a function gives to
\* the system has 0 there, where the code clears the struct, or what was on
\* the stack.
cleared(type) == [type |-> type, through |-> "zero", need |-> FALSE]
stale(type)   == [type |-> type, through |-> "stack", need |-> FALSE]

\* shown: names that are given and not taken; allowed: names that are not
\* taken and do no harm; strict: any other name is refused.
Kind(fields, shown, allowed, strict) ==
    [fields |-> fields, shown |-> shown, allowed |-> allowed,
     strict |-> strict]

\* The fields a table has, and those that are cleared.
Named(k)   == {f \in DOMAIN k.fields : k.fields[f].through \notin {"zero", "stack"}}
Cleared(k) == {f \in DOMAIN k.fields : k.fields[f].through = "zero"}

timespec ==
    Kind([tv_sec |-> opt("long", "long"), tv_nsec |-> opt("long", "long")],
         {}, {}, TRUE)

\* tm_gmtoff is a long that holds an int: less than a day.
tm ==
    Kind([tm_sec |-> opt("int", "int"), tm_min |-> opt("int", "int"),
          tm_hour |-> opt("int", "int"), tm_mday |-> opt("int", "int"),
          tm_mon |-> opt("int", "int"), tm_year |-> opt("int", "int"),
          tm_wday |-> opt("int", "int"), tm_yday |-> opt("int", "int"),
          tm_isdst |-> opt("int", "int"), tm_gmtoff |-> opt("int", "int"),
          tm_zone |-> opt("long", "long")],
         {}, {}, TRUE)

winsize ==
    Kind([ws_row |-> opt("ushort", "int"), ws_col |-> opt("ushort", "int"),
          ws_xpixel |-> opt("ushort", "int"), ws_ypixel |-> opt("ushort", "int")],
         {}, {}, TRUE)

\* Mistake: a flag word goes through a short.
termios_short ==
    Kind([iflag |-> opt("uint", "short"), oflag |-> opt("uint", "int"),
          cflag |-> opt("uint", "int"), lflag |-> opt("uint", "int"),
          ispeed |-> opt("uint", "int"), ospeed |-> opt("uint", "int"),
          cc |-> check("ushort", "int"), line |-> stale("ushort")],
         {}, {}, FALSE)

\* The control characters are one field; the table of them is needed.  The
\* speeds are in the lowest bits of cflag, too.
termios ==
    Kind([iflag |-> opt("uint", "int"), oflag |-> opt("uint", "int"),
          cflag |-> opt("uint", "int"), lflag |-> opt("uint", "int"),
          ispeed |-> opt("uint", "int"), ospeed |-> opt("uint", "int"),
          cc |-> check("ushort", "int"), line |-> stale("ushort")],
         {}, {}, FALSE)

\* RLIM_INFINITY is the greatest rlim_t, and -1 in Lua.
rlimit ==
    Kind([rlim_cur |-> check("ulong", "long"), rlim_max |-> check("ulong", "long")],
         {}, {}, TRUE)

\* IPC_STAT gives names that IPC_SET does not allow.  The fields of msg_perm
\* are among the others here.
msqid ==
    Kind([msg_qbytes |-> check("ulong", "long"), uid |-> check("uint", "long"),
          gid |-> check("uint", "long"), mode |-> check("ushort", "int")],
         {"msg_qnum", "msg_lspid", "msg_lrpid", "msg_stime", "msg_rtime",
          "msg_ctime", "cuid", "cgid"},
         {}, TRUE)

sockaddr_in ==
    Kind([port |-> check("ushort", "int"), addr |-> check("uint", "long")],
         {"family"}, {"family", "socktype", "canonname", "protocol"}, TRUE)

sockaddr_in6 ==
    Kind([port |-> check("ushort", "int"), addr |-> check("uint", "long"),
          flowinfo |-> opt("uint", "long"), scope_id |-> opt("uint", "long")],
         {"family"}, {"family", "socktype", "canonname", "protocol"}, TRUE)

\* The path 0 is one that reads as empty: of a socket without a name, or of
\* one whose name begins with a zero byte.
sockaddr_un ==
    Kind([path |-> check("long", "long")], {"family"}, {"family"}, TRUE)

sockaddr_nl ==
    Kind([pid |-> check("uint", "int"), groups |-> check("uint", "int")],
         {"family"}, {"family"}, TRUE)

sockaddr_ll ==
    Kind([ifindex |-> check("int", "int"), protocol |-> cleared("ushort"),
          hatype |-> cleared("ushort"), pkttype |-> cleared("ushort"),
          addr |-> cleared("long")],
         {"family"}, {"family"}, TRUE)

Kinds == {timespec, tm, winsize, termios, rlimit, msqid, sockaddr_in,
          sockaddr_in6, sockaddr_un, sockaddr_nl, sockaddr_ll}

-----------------------------------------------------------------------------
(* The speeds of a terminal, as the GNU C library has them.                *)

MaxSpeed == 2^SpeedBits - 1

\* cfgetispeed and cfgetospeed: both are the speed in the control flags.
speed(cflag) == cflag % 2^SpeedBits

SetSpeed(cflag, v) == (cflag - speed(cflag)) + v

\* The speed of input is also set in the flags, unless it is 0, which has a
\* mark of its own that the library takes out again; a speed with other bits
\* is refused.
cfsetispeed(t, v) ==
    IF v \notin 0..MaxSpeed THEN t
    ELSE [t EXCEPT !.ispeed = v,
                   !.cflag = IF v = 0 THEN t.cflag ELSE SetSpeed(t.cflag, v)]

cfsetospeed(t, v) ==
    IF v \notin 0..MaxSpeed THEN t
    ELSE [t EXCEPT !.ospeed = v, !.cflag = SetSpeed(t.cflag, v)]

\* A field of a struct has a value of its type, and tcgetattr fills in the
\* speeds from the flags.
ASSUME StructAssumption ==
    \A k \in Kinds : \A s \in Structs(k) :
        /\ s = [f \in DOMAIN k.fields |-> s[f]]
        /\ \A f \in DOMAIN k.fields :
             s[f] \in Least(k.fields[f].type)..Greatest(k.fields[f].type)
        /\ k = termios => s.ispeed = speed(s.cflag) /\ s.ospeed = speed(s.cflag)

-----------------------------------------------------------------------------
VARIABLES
    kind,
    tbl,     \* the table the program has, or nil
    edits,   \* how often it was edited
    base,    \* history: the struct the table was made from, if it was not edited
    given,   \* the struct the last call gave to the system, or nil
    ret,     \* "ok", "raise", or nil
    flock,   \* the table of a lock: l_type, l_start, or nil for no value
    before   \* history: the table of the lock when fcntl was called

lockvars == <<flock, before>>
vars == <<kind, tbl, edits, base, given, ret, lockvars>>

\* pushlstringfield leaves out a string that is empty.
Unnamed(k, s) == k = sockaddr_un /\ s.path = 0

\* The fields as Lua integers.
push(k, s) ==
    [f \in (IF Unnamed(k, s) THEN {} ELSE Named(k)) \cup k.shown |->
        IF f \in Named(k) THEN To("long", s[f]) ELSE 0]

\* tcgetattr, getrlimit, getsockname, gmtime, the rest of a sleep...
Get(s) ==
    /\ flock = nil
    /\ tbl' = push(kind, s) /\ base' = s
    /\ edits' = 0 /\ given' = nil /\ ret' = nil
    /\ UNCHANGED <<kind, lockvars>>

Change(f, v) == [g \in DOMAIN tbl \cup {f} |-> IF g = f THEN v ELSE tbl[g]]

\* The program assigns to a field, removes one or adds one.
Edit ==
    /\ tbl # nil /\ edits < MaxEdits
    /\ \/ \E f \in Named(kind), v \in Edits : tbl' = Change(f, v)
       \/ tbl' = Change("typo", 0)
       \/ \E f \in DOMAIN tbl : tbl' = [g \in DOMAIN tbl \ {f} |-> tbl[g]]
    /\ edits' = edits + 1
    /\ base' = nil /\ given' = nil /\ ret' = nil
    /\ UNCHANGED <<kind, lockvars>>

\* checkintegerfield and optintegerfield
checkfieldtype(f) ==
    IF f \in DOMAIN tbl THEN tbl[f] # bad ELSE ~kind.fields[f].need

\* checkismember, for each name in the table
checkfieldnames ==
    kind.strict => DOMAIN tbl \subseteq Named(kind) \cup kind.allowed

\* Mistake: a field that is missing keeps what was on the stack.
take_stale(f) ==
    IF f \in DOMAIN tbl /\ tbl[f] # bad
      THEN To(kind.fields[f].type, To(kind.fields[f].through, tbl[f]))
      ELSE Greatest(kind.fields[f].type)

take(f) ==
    IF f \in DOMAIN tbl /\ tbl[f] # bad
      THEN To(kind.fields[f].type, To(kind.fields[f].through, tbl[f]))
      ELSE 0

\* The struct, from the table or from what was on the stack.
struct(junk) ==
    [f \in DOMAIN kind.fields |->
        IF f \in Named(kind) THEN take(f)
        ELSE IF f \in Cleared(kind) THEN 0 ELSE To(kind.fields[f].type, junk)]

\* tcsetattr sets the speeds in a struct that has none, and does not look at
\* what cfsetispeed and cfsetospeed return.
settermios(t, junk) ==
    cfsetospeed(cfsetispeed([t EXCEPT !.ispeed = To("uint", junk),
                                      !.ospeed = To("uint", junk)],
                            t.ispeed),
                t.ospeed)

\* The family of an address, which says how the other fields are read.
family(k) == k.shown \cap k.allowed

\* tcsetattr, setrlimit, bind, mktime, nanosleep...
Set ==
    /\ tbl # nil
    /\ IF /\ family(kind) \subseteq DOMAIN tbl
          /\ \A f \in Named(kind) : checkfieldtype(f)
          /\ checkfieldnames
         THEN /\ \E junk \in 0..Greatest("uint") :
                   given' = IF kind = termios THEN settermios(struct(junk), junk)
                            ELSE struct(junk)
              /\ ret' = "ok"
         ELSE given' = nil /\ ret' = "raise"
    /\ UNCHANGED <<kind, tbl, edits, base, lockvars>>

-----------------------------------------------------------------------------
(* fcntl with a lock.                                                      *)

\* lua_tointeger: what is no number is 0.
tointeger(v) == IF v = nil \/ v = bad THEN 0 ELSE v

F_UNLCK == 0

\* The types of locks are small numbers; an offset may be anything.
ASSUME LockAssumption ==
    \A l \in Locks :
        /\ l.l_type \in {nil, bad} \cup (0..Greatest("short"))
        /\ l.l_start \in Int \cup {nil}
        /\ l = [l_type |-> l.l_type, l_start |-> l.l_start]

\* The program makes a table for a lock.  It has nothing to do with the
\* other tables, so there are none.
NewLock ==
    /\ tbl = nil
    /\ flock' \in Locks /\ before' = nil
    /\ UNCHANGED <<kind, tbl, edits, base, given, ret>>

\* Mistake: the fields are copied back in the wrong order.
copyback_swapped(type, start) == [l_type |-> To("short", start), l_start |-> type]

copyback(type, start) == [l_type |-> type, l_start |-> start]

\* The fields are copied back, whatever the command and whether it succeeds.
\* F_SETLK and F_SETLKW leave the struct alone.  F_GETLK sets l_type to
\* F_UNLCK if the lock could be placed, else it gives the lock in its way;
\* the table is then no longer the one the program asked with.
Pfcntl ==
    /\ flock # nil
    /\ LET type  == To("short", tointeger(flock.l_type))
           start == tointeger(flock.l_start)
       IN \/ before' = flock /\ flock' = copyback(type, start)
          \/ before' = nil /\ flock' = copyback(F_UNLCK, start)
          \/ before' = nil /\ \E l \in Locks :
               /\ l.l_type \in Nat /\ l.l_start \in Nat
               /\ flock' = copyback(l.l_type, l.l_start)
    /\ UNCHANGED <<kind, tbl, edits, base, given, ret>>

-----------------------------------------------------------------------------
Init ==
    /\ kind \in Kinds
    /\ tbl = nil /\ edits = 0 /\ base = nil /\ given = nil /\ ret = nil
    /\ flock = nil /\ before = nil

Next ==
    \/ \E s \in Structs(kind) : Get(s)
    \/ Edit \/ Set
    \/ NewLock \/ Pfcntl

Spec == Init /\ [][Next]_vars

-----------------------------------------------------------------------------
(* Properties.                                                             *)

\* What was read can be written back: a table that was not edited is taken,
\* and the system is given every bit of every field that the table has: the
\* flags and speeds of a terminal, the limits with RLIM_INFINITY, an address,
\* a date, the rest of a sleep that a signal interrupted; the other fields of
\* an address are 0.  Two tables are refused: that of IPC_STAT, and that of a
\* socket whose path reads as empty.
RoundTrip ==
    base # nil /\ ret # nil =>
        IF kind = msqid \/ Unnamed(kind, base) THEN ret = "raise"
        ELSE /\ ret = "ok"
             /\ \A f \in Named(kind) : given[f] = base[f]
             /\ \A f \in Cleared(kind) : given[f] = 0

\* What the program asks for in a field.
Asked(f) == IF f \in DOMAIN tbl THEN tbl[f] ELSE 0

\* The speeds are asked for three times.
Speeds(k) == IF k = termios THEN {"cflag", "ispeed", "ospeed"} ELSE {}

\* A struct that is given to the system has what the table has, where it
\* fits the field, and 0 for what the table does not have: nothing of an
\* earlier call, and nothing that is no number.  In a terminal the speed of
\* output, 0 if it is missing, takes the place of the speed in the flags, and
\* leaves the other flags alone; nothing is said of a speed that is refused,
\* nor of a field that is left to the stack.
SetExact ==
    given # nil =>
        /\ \A f \in Named(kind) : Asked(f) # bad
        /\ \A f \in Named(kind) \ Speeds(kind) :
             To(kind.fields[f].type, Asked(f)) = Asked(f) => given[f] = Asked(f)
        /\ \A f \in Cleared(kind) : given[f] = 0
        /\ kind = termios =>
             /\ \A f \in {"ispeed", "ospeed"} :
                  Asked(f) \in 0..MaxSpeed => given[f] = Asked(f)
             /\ Asked("ospeed") \in 0..MaxSpeed =>
                  speed(given.cflag) = Asked("ospeed")
             /\ To("uint", Asked("cflag")) = Asked("cflag") =>
                  given.cflag - speed(given.cflag)
                      = Asked("cflag") - speed(Asked("cflag"))

\* The table of a lock may be used again after F_SETLK or F_SETLKW: fcntl
\* leaves in it the lock that was asked for, with what was missing filled in.
LockKept ==
    before # nil =>
        /\ before.l_type \in Int => flock.l_type = before.l_type
        /\ before.l_start # nil => flock.l_start = before.l_start

=============================================================================
