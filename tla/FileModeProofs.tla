--------------------------- MODULE FileModeProofs ---------------------------
(***************************************************************************)
(* Proofs about umask and chmod for every set of mode strings.             *)
(***************************************************************************)
EXTENDS FileMode, WellFoundedInduction, TLAPS

\* A call of umask has the mask it began with in force, or in its local while
\* it has set the mask to 0 to read it, until it accepts a string.
IInv ==
    /\ umask \subseteq RWXALL
    /\ before \subseteq RWXALL
    /\ pc = "restore" => mode = before
    /\ pc \in {"umask0", "restore", "push"} => call.op = "umask"
    /\ call.op = "umask" /\ (pc \in {"umask0", "munch"}
                               \/ (pc # "restore" /\ call.str = nil)
                               \/ (pc = "lua" /\ ret = nil)) =>
           umask = before
    /\ pc = "munch" /\ call.op = "umask" => call.str # nil

\* pushmode gives nine characters: every column of the string is a letter of
\* MODE_MAP, a dash, or one of the two letters of a set-id bit.
LEMMA PushmodeNotNil ==
    ASSUME NEW m
    PROVE  pushmode(m) # nil
<1>1. \A i \in 1..9 : MODE_MAP[i].c \in Chars
    <2>1. TAKE i \in 1..9
    <2>2. ((i - 1) % 3) + 1 \in {1, 2, 3}
        OBVIOUS
    <2>3. MODE_MAP[i].c = <<"r", "w", "x">>[((i - 1) % 3) + 1]
        BY DEF MODE_MAP
    <2>4. \A k \in {1, 2, 3} : <<"r", "w", "x">>[k] \in Chars
        BY DEF Chars
    <2> QED
        BY <2>2, <2>3, <2>4
<1>2. pushmode(m) \in [1..9 -> Chars \cup {"S"}]
    BY <1>1 DEF pushmode, Chars
<1> QED
    BY <1>2, FileModeAssumption

\* IInv holds at first.
LEMMA InitInv == Init => IInv
BY DEF Init, IInv, RWXALL, S_IRWXU, S_IRWXG, S_IRWXO

\* A call of umask remembers the mask it began with until it sets another.
LEMMA InvStep ==
    ASSUME IInv, [Next]_vars
    PROVE  IInv'
<1> USE DEF IInv
<1>1. ASSUME NEW str, umask_call(str)
      PROVE  IInv'
    BY <1>1 DEF umask_call, Begin
<1>2. ASSUME NEW str \in ModeStrs, chmod_stat(str)
      PROVE  IInv'
    BY <1>2 DEF chmod_stat, Begin
<1>3. ASSUME NEW str \in ModeStrs, creat(str)
      PROVE  IInv'
    BY <1>3 DEF creat
<1>4. ASSUME NEW str, msgget(str)
      PROVE  IInv'
    BY <1>4 DEF msgget
<1>5. CASE umask_read
    BY <1>5 DEF umask_read
<1>6. CASE umask_restore
    BY <1>6 DEF umask_restore, Mask
<1>7. CASE umask_munch
    BY <1>7 DEF umask_munch, Error, Mask
<1>8. CASE umask_push
    <2>1. ret' # nil
        BY <1>8, PushmodeNotNil DEF umask_push
    <2> QED
        BY <1>8, <2>1 DEF umask_push
<1>9. CASE chmod_munch
    BY <1>9 DEF chmod_munch, Error
<1>10. CASE mkdir
    BY <1>10 DEF mkdir
<1>11. CASE remove
    BY <1>11 DEF remove
<1>12. CASE UNCHANGED vars
    BY <1>12 DEF vars
<1> QED
    BY <1>1, <1>2, <1>3, <1>4, <1>5, <1>6, <1>7, <1>8, <1>9, <1>10, <1>11,
       <1>12 DEF Next

\* IInv is an invariant of the functions of compat.lua.
LEMMA Invariance == Spec => []IInv
BY InitInv, InvStep, PTL DEF Spec

\* QueryKeepsMask: umask without a string, or with one that mode_munch does
\* not accept, puts back the mask it read.
THEOREM UmaskQueryKeepsMask == Spec => []QueryKeepsMask
<1>1. IInv => QueryKeepsMask
    BY DEF IInv, QueryKeepsMask
<1> QED
    BY Invariance, <1>1, PTL

-----------------------------------------------------------------------------
(* The string that umask returns.                                          *)

\* A string of nine characters is read by rwxrwxrwx, if it has no other
\* characters than those of Chars.
LEMMA MunchLong ==
    ASSUME NEW s, [long |-> s] # nil
    PROVE  mode_munch({}, [long |-> s]) =
             IF \A i \in 1..9 : s[i] \in Chars THEN rwxrwxrwx(s) ELSE nil
<1> DEFINE str == [long |-> s]
<1>1. DOMAIN str = {"long"} /\ str.long = s
    OBVIOUS
<1>2. str # nil
    OBVIOUS
<1> HIDE DEF str
<1>3. Is("long", str) /\ ~Is("octal", str) /\ ~Is("clauses", str)
    BY <1>1 DEF Is
<1>4. mode_munch({}, str) =
        IF \A i \in 1..9 : s[i] \in Chars THEN rwxrwxrwx(s) ELSE nil
    BY <1>1, <1>2, <1>3 DEF mode_munch
<1> QED
    BY <1>4 DEF str

\* What pushmode writes of permission bits, rwxrwxrwx reads.
LEMMA PushmodeReads ==
    ASSUME NEW m \in SUBSET RWXALL
    PROVE  mode_munch({}, [long |-> pushmode(m)]) = m
<1> DEFINE s == pushmode(m)
<1>1. RWXALL = 0..8
    BY DEF RWXALL, S_IRWXU, S_IRWXG, S_IRWXO
<1>2. \A i \in 1..9 : MODE_MAP[i].b = 9 - i /\ MODE_MAP[i].c \in {"r", "w", "x"}
    <2>1. TAKE i \in 1..9
    <2>2. ((i - 1) % 3) + 1 \in {1, 2, 3}
        OBVIOUS
    <2>3. /\ MODE_MAP[i].c = <<"r", "w", "x">>[((i - 1) % 3) + 1]
          /\ MODE_MAP[i].b = 9 - i
        BY DEF MODE_MAP
    <2>4. \A k \in {1, 2, 3} : <<"r", "w", "x">>[k] \in {"r", "w", "x"}
        OBVIOUS
    <2> QED
        BY <2>2, <2>3, <2>4
<1>3. S_ISUID \notin m /\ S_ISGID \notin m
    BY <1>1 DEF S_ISUID, S_ISGID
<1>4. \A i \in 1..9 : s[i] = IF 9 - i \in m THEN MODE_MAP[i].c ELSE "-"
    BY <1>2, <1>3 DEF pushmode
<1>5. \A i \in 1..9 : s[i] \in Chars /\ s[i] # "s"
                        /\ (s[i] = MODE_MAP[i].c <=> 9 - i \in m)
    BY <1>2, <1>4 DEF Chars
<1>6. s \in [1..9 -> Chars \cup {"S"}]
    BY <1>5 DEF pushmode
<1>7. [long |-> s] # nil
    BY <1>6, FileModeAssumption
<1> HIDE DEF s
<1>8. {MODE_MAP[i].b : i \in {j \in 1..9 : s[j] = MODE_MAP[j].c}} = m
    <2>1. ASSUME NEW b \in m
          PROVE  \E i \in 1..9 : 9 - i = b /\ s[i] = MODE_MAP[i].c
        <3>1. 9 - b \in 1..9 /\ 9 - (9 - b) = b
            BY <1>1
        <3> QED
            BY <1>5, <3>1
    <2> QED
        BY <1>2, <1>5, <2>1
<1>9. rwxrwxrwx(s) = m
    BY <1>5, <1>8 DEF rwxrwxrwx
<1> QED
    BY <1>5, <1>7, <1>9, MunchLong DEF s

\* The local of umask, and then the string it returned, describe the mask.
DescribeInv ==
    /\ pc # "lua" => ret = nil
    /\ pc = "push" => mode = RWXALL \ umask
    /\ pc = "lua" /\ call.op = "umask" /\ ret # nil =>
         ret = pushmode(RWXALL \ umask)

\* Every step keeps DescribeInv.
LEMMA DescribeStep ==
    ASSUME IInv, DescribeInv, [Next]_vars
    PROVE  DescribeInv'
<1> USE DEF DescribeInv
<1>0. RWXALL \subseteq Word
    BY DEF RWXALL, S_IRWXU, S_IRWXG, S_IRWXO, Word
<1>1. ASSUME NEW str, umask_call(str)
      PROVE  DescribeInv'
    BY <1>1 DEF umask_call, Begin
<1>2. ASSUME NEW str \in ModeStrs, chmod_stat(str)
      PROVE  DescribeInv'
    BY <1>2 DEF chmod_stat, Begin
<1>3. ASSUME NEW str \in ModeStrs, creat(str)
      PROVE  DescribeInv'
    BY <1>3 DEF creat
<1>4. ASSUME NEW str, msgget(str)
      PROVE  DescribeInv'
    BY <1>4 DEF msgget
<1>5. CASE umask_read
    BY <1>5 DEF umask_read
<1>6. CASE umask_restore
    BY <1>0, <1>6 DEF umask_restore, Mask, bnot
<1>7. CASE umask_munch
    BY <1>0, <1>7 DEF umask_munch, Error, Mask, bnot
<1>8. CASE umask_push
    BY <1>8 DEF umask_push
<1>9. CASE chmod_munch
    BY <1>9 DEF chmod_munch, Error
<1>10. CASE mkdir
    BY <1>10 DEF mkdir
<1>11. CASE remove
    BY <1>11 DEF remove
<1>12. CASE UNCHANGED vars
    BY <1>12 DEF vars
<1> QED
    BY <1>1, <1>2, <1>3, <1>4, <1>5, <1>6, <1>7, <1>8, <1>9, <1>10, <1>11,
       <1>12 DEF Next

\* ReturnDescribesMask: the string that umask returns is read back as the
\* permissions that the mask in force leaves, whatever string the call was
\* given, and for a query also as those that the previous mask left.
THEOREM UmaskReturnsItsMask == Spec => []ReturnDescribesMask
<1>1. Init => DescribeInv
    BY DEF Init, DescribeInv
<1>2. IInv /\ DescribeInv /\ [Next]_vars => DescribeInv'
    BY DescribeStep
<1>3. IInv /\ DescribeInv => ReturnDescribesMask
    <2> SUFFICES ASSUME IInv, DescribeInv, pc = "lua", call.op = "umask",
                        ret # nil
                 PROVE  /\ mode_munch({}, [long |-> ret]) = RWXALL \ umask
                        /\ call.str = nil => umask = before
        BY DEF ReturnDescribesMask
    <2>1. ret = pushmode(RWXALL \ umask)
        BY DEF DescribeInv
    <2>2. call.str = nil => umask = before
        BY DEF IInv
    <2> QED
        BY <2>1, <2>2, PushmodeReads
<1> QED
    BY <1>1, <1>2, <1>3, Invariance, PTL DEF Spec

-----------------------------------------------------------------------------
(* What chmod makes of a list of clauses.                                  *)

\* A set of numbers that has 0, and the successor of each of its members,
\* has them all.
LEMMA SetInduction ==
    ASSUME NEW T \in SUBSET Nat, 0 \in T, \A n \in T : n + 1 \in T
    PROVE  T = Nat
<1> SUFFICES ASSUME Nat \ T # {} PROVE FALSE
    OBVIOUS
<1> DEFINE R == {ss \in Nat \X Nat : ss[1] < ss[2]}
<1>1. IsWellFoundedOn(R, Nat)
    BY NatLessThanWellFounded DEF OpToRel
<1>2. PICK x \in Nat \ T : \A y \in Nat \ T : ~(<<y, x>> \in R)
    BY <1>1, WFMin
<1>3. x # 0 /\ x - 1 \in Nat
    OBVIOUS
<1>4. <<x - 1, x>> \in R
    BY <1>3
<1>5. x - 1 \in T
    BY <1>2, <1>3, <1>4
<1>6. (x - 1) + 1 = x
    OBVIOUS
<1> QED
    BY <1>5, <1>6

\* The recursive function of Munched exists: its values can be found one
\* after the other.
LEMMA MunchedDef ==
    ASSUME NEW m, NEW cs \in Seq(Clause)
    PROVE  Munched(m, cs) =
             [n \in 0..Len(cs) |->
                IF n = 0 THEN m
                ELSE MunchClause(Munched(m, cs)[n - 1], cs[n], Lost(cs)[n])]
<1> DEFINE Part(g, k) ==
               \A i \in 0..k :
                   g[i] = IF i = 0 THEN m
                      ELSE MunchClause(g[i - 1], cs[i], Lost(cs)[i])
           T == {k \in Nat : \E g : DOMAIN g = 0..k /\ Part(g, k)}
<1>1. 0 \in T
    <2> DEFINE g == [i \in 0..0 |-> m]
    <2>1. DOMAIN g = 0..0 /\ Part(g, 0)
        OBVIOUS
    <2> HIDE DEF g
    <2> QED
        BY <2>1
<1>2. ASSUME NEW k \in T
      PROVE  k + 1 \in T
    <2>1. PICK g : DOMAIN g = 0..k /\ Part(g, k)
        OBVIOUS
    <2> DEFINE h == [i \in 0..(k + 1) |->
                       IF i \in 0..k THEN g[i]
                       ELSE MunchClause(g[k], cs[k + 1], Lost(cs)[k + 1])]
    <2>2. \A i \in 0..k : h[i] = g[i]
        OBVIOUS
    <2>3. h[k + 1] = MunchClause(g[k], cs[k + 1], Lost(cs)[k + 1])
        OBVIOUS
    <2>4. DOMAIN h = 0..(k + 1)
        OBVIOUS
    <2> HIDE DEF h
    <2>5. ASSUME NEW i \in 0..(k + 1)
          PROVE  h[i] = IF i = 0 THEN m
                        ELSE MunchClause(h[i - 1], cs[i], Lost(cs)[i])
        <3>1. CASE i = 0
            BY <2>1, <2>2, <3>1
        <3>2. CASE i \in 1..k
            <4>1. i - 1 \in 0..k /\ i \in 0..k /\ i # 0
                BY <3>2
            <4>2. h[i - 1] = g[i - 1] /\ h[i] = g[i]
                BY <2>2, <4>1
            <4>3. g[i] = MunchClause(g[i - 1], cs[i], Lost(cs)[i])
                BY <2>1, <4>1
            <4> QED
                BY <4>1, <4>2, <4>3
        <3>3. CASE i = k + 1
            <4>1. i - 1 = k /\ k \in 0..k /\ i # 0
                BY <3>3
            <4>2. h[i - 1] = g[k]
                BY <2>2, <4>1
            <4> QED
                BY <2>3, <3>3, <4>1, <4>2
        <3> QED
            BY <3>1, <3>2, <3>3
    <2>6. Part(h, k + 1)
        BY <2>5
    <2>7. k + 1 \in Nat
        OBVIOUS
    <2> QED
        BY <2>4, <2>6, <2>7
<1>3. T = Nat
    BY <1>1, <1>2, SetInduction
<1>4. Len(cs) \in T
    <2>1. Len(cs) \in Nat
        OBVIOUS
    <2> HIDE DEF T
    <2> QED
        BY <1>3, <2>1
<1>5. PICK g : DOMAIN g = 0..Len(cs) /\ Part(g, Len(cs))
    BY <1>4
<1> QED
    BY <1>5 DEF Munched

\* A clause leaves the bits of the classes it does not name.
LEMMA ClauseKeepsOthers ==
    ASSUME NEW m, NEW c \in Clause, NEW lost, NEW N, Bits(c.who) \subseteq N
    PROVE  MunchClause(m, c, lost) \ N = m \ N
<1> DEFINE both == Bits(c.who) \cap Bobs(c.what)
<1>1. c.op \in {"+", "-", "="}
    BY DEF Clause
<1>2. ApplyClause(m, c) \in {m \cup both, m \ both, (m \ Bits(c.who)) \cup both}
    BY <1>1 DEF ApplyClause
<1>3. ApplyClause(m, c) \ N = m \ N
    BY <1>2
<1> QED
    BY <1>3 DEF MunchClause

\* So does a list of clauses, however long.
LEMMA ClausesKeepOthers ==
    ASSUME NEW m, NEW cs \in Seq(Clause), NEW N,
           \A i \in DOMAIN cs : Bits(cs[i].who) \subseteq N
    PROVE  Munched(m, cs)[Len(cs)] \ N = m \ N
<1> DEFINE f == Munched(m, cs)
           T == {n \in Nat : n <= Len(cs) => f[n] \ N = m \ N}
<1>1. /\ f[0] = m
      /\ \A n \in 1..Len(cs) : f[n] = MunchClause(f[n - 1], cs[n], Lost(cs)[n])
    BY MunchedDef
<1> HIDE DEF f
<1>2. 0 \in T
    BY <1>1
<1>3. ASSUME NEW n \in T
      PROVE  n + 1 \in T
    <2> SUFFICES ASSUME n + 1 <= Len(cs)
                 PROVE  f[n + 1] \ N = m \ N
        OBVIOUS
    <2>1. n + 1 \in 1..Len(cs) /\ n <= Len(cs) /\ (n + 1) - 1 = n
        OBVIOUS
    <2>2. f[n + 1] = MunchClause(f[n], cs[n + 1], Lost(cs)[n + 1])
        BY <1>1, <2>1
    <2>3. cs[n + 1] \in Clause /\ Bits(cs[n + 1].who) \subseteq N
        BY <2>1
    <2>4. f[n] \ N = m \ N
        BY <2>1
    <2> QED
        BY <2>2, <2>3, <2>4, ClauseKeepsOthers
<1>4. T = Nat
    BY <1>2, <1>3, SetInduction
<1>5. Len(cs) \in T
    BY <1>4
<1> QED
    BY <1>5 DEF f

\* mode_munch of a string of clauses that it accepts.
LEMMA MunchClauses ==
    ASSUME NEW str \in ModeStrs, Is("clauses", str), NEW m,
           mode_munch(m, str) # nil
    PROVE  /\ str.clauses \in Seq(Clause)
           /\ mode_munch(m, str) = Munched(m, str.clauses)[Len(str.clauses)]
<1>1. DOMAIN str = {"clauses"} /\ str # nil
    BY FileModeAssumption DEF Is
<1>2. str.clauses \in Seq(Clause)
    <2>1. \A t \in [long : [1..9 -> Chars \cup {"S"}]] : DOMAIN t = {"long"}
        OBVIOUS
    <2>2. \A t \in [octal : Seq(0..7) \ {<<>>}] : DOMAIN t = {"octal"}
        OBVIOUS
    <2>3. str \in [clauses : Seq(Clause) \ {<<>>}]
        BY <1>1, <2>1, <2>2, FileModeAssumption
    <2> QED
        BY <2>3
<1>3. ~Is("long", str) /\ ~Is("octal", str)
    BY <1>1 DEF Is
<1>4. mode_munch(m, str) =
        IF str.clauses[1].who # {} /\ str.clauses[1].what # {}
          THEN Munched(m, str.clauses)[Len(str.clauses)] ELSE nil
    BY <1>1, <1>3 DEF mode_munch
<1> QED
    BY <1>2, <1>4

\* Between the two halves of chmod nothing changes the file, so what it works
\* on is the mode of the file.
ChmodInv ==
    pc = "munch" /\ call.op = "chmod" =>
        /\ call.str \in ModeStrs
        /\ file # nil => mode = file

LEMMA ChmodStep ==
    ASSUME ChmodInv, IInv, [Next]_vars
    PROVE  ChmodInv'
<1> USE DEF ChmodInv
<1>1. ASSUME NEW str, umask_call(str)
      PROVE  ChmodInv'
    BY <1>1 DEF umask_call, Begin
<1>2. ASSUME NEW str \in ModeStrs, chmod_stat(str)
      PROVE  ChmodInv'
    BY <1>2 DEF chmod_stat, Begin
<1>3. ASSUME NEW str \in ModeStrs, creat(str)
      PROVE  ChmodInv'
    BY <1>3 DEF creat
<1>4. ASSUME NEW str, msgget(str)
      PROVE  ChmodInv'
    BY <1>4 DEF msgget
<1>5. CASE umask_read
    BY <1>5 DEF umask_read
<1>6. CASE umask_restore
    BY <1>6 DEF umask_restore, IInv
<1>7. CASE umask_munch
    BY <1>7 DEF umask_munch, Error
<1>8. CASE umask_push
    BY <1>8 DEF umask_push
<1>9. CASE chmod_munch
    BY <1>9 DEF chmod_munch, Error
<1>10. CASE mkdir
    BY <1>10 DEF mkdir
<1>11. CASE remove
    BY <1>11 DEF remove
<1>12. CASE UNCHANGED vars
    BY <1>12 DEF vars
<1> QED
    BY <1>1, <1>2, <1>3, <1>4, <1>5, <1>6, <1>7, <1>8, <1>9, <1>10, <1>11,
       <1>12 DEF Next

\* ChmodKeepsOthers: chmod with any number of clauses leaves the permissions
\* of every class that none of them names.
THEOREM ChmodLeavesOthers == Spec => ChmodKeepsOthers
<1>1. Init => ChmodInv
    BY DEF Init, ChmodInv
<1>2. IInv /\ ChmodInv /\ [Next]_vars => ChmodInv'
    BY ChmodStep
<1>3. IInv /\ ChmodInv /\ [Next]_vars =>
        [call.op = "chmod" /\ pc = "munch" /\ pc' = "lua" /\ file # nil
             /\ Is("clauses", call.str) =>
           (file' \cap RWXALL) \ Named(call.str)
               = (file \cap RWXALL) \ Named(call.str)]_vars
    <2> SUFFICES ASSUME IInv, ChmodInv, [Next]_vars, call.op = "chmod",
                        pc = "munch", pc' = "lua", file # nil,
                        Is("clauses", call.str)
                 PROVE  (file' \cap RWXALL) \ Named(call.str)
                            = (file \cap RWXALL) \ Named(call.str)
        OBVIOUS
    <2>1. chmod_munch
        BY DEF Next, umask_call, chmod_stat, creat, msgget, Begin, umask_read,
               umask_restore, umask_munch, umask_push, mkdir, remove, vars
    <2> DEFINE bits == mode_munch(file, call.str)
               N == Named(call.str)
    <2>2. mode = file /\ call.str \in ModeStrs
        BY DEF ChmodInv
    <2>3. CASE bits = nil
        BY <2>1, <2>2, <2>3 DEF chmod_munch, Error
    <2>4. CASE bits # nil
        <3>1. file' = bits \cap RWXALL
            BY <2>1, <2>2, <2>4 DEF chmod_munch, Error
        <3>2. /\ call.str.clauses \in Seq(Clause)
              /\ bits = Munched(file, call.str.clauses)[Len(call.str.clauses)]
            BY <2>2, <2>4, MunchClauses
        <3>3. \A i \in DOMAIN call.str.clauses :
                 Bits(call.str.clauses[i].who) \subseteq N
            BY DEF Named
        <3>4. bits \ N = file \ N
            BY <3>2, <3>3, ClausesKeepOthers
        <3> HIDE DEF bits, N
        <3>5. ((bits \cap RWXALL) \cap RWXALL) \ N = (file \cap RWXALL) \ N
            BY <3>4
        <3> QED
            BY <3>1, <3>5 DEF N
    <2> QED
        BY <2>3, <2>4
<1> QED
    BY <1>1, <1>2, <1>3, Invariance, PTL DEF Spec, ChmodKeepsOthers

=============================================================================
