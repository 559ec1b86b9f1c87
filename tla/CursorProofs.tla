---------------------------- MODULE CursorProofs ----------------------------
(***************************************************************************)
(* Theorems about Cursor, for any number of iterators, streams and entries *)
(* and any sequence of calls: directory streams have one owner and are     *)
(* read in order, a loop over a database that ended with errno 0 was       *)
(* whole, and a getopt loop that nobody disturbed yields its options.      *)
(***************************************************************************)
EXTENDS Cursor, TLAPS, NaturalsInduction, WellFoundedInduction, SequenceTheorems

-----------------------------------------------------------------------------
(* Directory streams.                                                      *)

DirType ==
    /\ iter \in [Iters -> {"none", "live", "dropped"}]
    /\ p \in [Iters -> Streams \cup {nil}] /\ tmp \in Streams \cup {nil}
    /\ open \subseteq Streams
    /\ pos \in [Streams -> Nat] /\ got \in [Iters -> Nat]

\* A stream is open exactly if dir or an iterator has it.
Held == \A s \in Streams : s \in open <=> (tmp = s \/ \E i \in Iters : p[i] = s)

\* No stream has two owners.
Alone ==
    /\ \A i \in Iters : p[i] = tmp => tmp = nil
    /\ \A i, j \in Iters : p[i] = p[j] /\ p[i] # nil => i = j

\* An iterator that was not made, or was collected, has no stream.
NoneIdle == \A i \in Iters : iter[i] = "none" => p[i] = nil

DirInv == DirType /\ Held /\ Alone /\ NoneIdle /\ FilesInOrder

\* The model value nil is no stream.
LEMMA NilStream == nil \notin Streams
BY CursorAssumption

\* Opening a stream for an iterator keeps DirInv.
LEMMA PfilesInv ==
    ASSUME DirInv, NEW i \in Iters, Pfiles(i)
    PROVE  DirInv'
<1> USE NilStream DEF DirInv, DirType, Held, Alone, NoneIdle, FilesInOrder
<1>1. CASE opendir_fails
  BY <1>1 DEF opendir_fails, dirvars
<1>2. ASSUME NEW s \in Streams, opendir(s), iter' = [iter EXCEPT ![i] = "live"],
             p' = [p EXCEPT ![i] = s], got' = [got EXCEPT ![i] = 0],
             UNCHANGED tmp
      PROVE DirInv'
  <2>1. s \notin open /\ open' = open \cup {s} /\ pos' = [pos EXCEPT ![s] = 0]
    BY <1>2 DEF opendir
  <2>2. p[i] = nil
    BY DEF Pfiles
  <2>3. s # tmp /\ \A j \in Iters : p[j] # s
    BY <2>1
  <2>4. DirType'
    BY <1>2, <2>1
  <2>5. Held'
    BY <1>2, <2>1, <2>2
  <2>6. Alone' /\ NoneIdle'
    BY <1>2, <2>1, <2>3
  <2>7. FilesInOrder'
    BY <1>2, <2>1, <2>3
  <2>8. QED
    BY <2>4, <2>5, <2>6, <2>7
<1>3. QED
  BY <1>1, <1>2 DEF Pfiles

\* Closing the stream of an iterator, and forgetting it, keeps the streams
\* owned and in order.
LEMMA CloseInv ==
    ASSUME DirInv, NEW i \in Iters, p[i] # nil, closedir(p[i]),
           p' = [p EXCEPT ![i] = nil], UNCHANGED tmp, DirType',
           \A j \in Iters \ {i} : got'[j] = got[j]
    PROVE  Held' /\ Alone' /\ FilesInOrder'
<1> USE NilStream DEF DirInv, DirType, Held, Alone, FilesInOrder
<1> DEFINE s == p[i]
<1>1. s \in Streams /\ open' = open \ {s} /\ pos' = [pos EXCEPT ![s] = 0]
  BY DEF closedir
<1>2. s # tmp /\ \A j \in Iters \ {i} : p[j] # s
  BY <1>1
<1>3. p'[i] = nil /\ \A j \in Iters \ {i} : p'[j] = p[j]
  OBVIOUS
<1>4. Held'
  BY <1>1, <1>2, <1>3
<1>5. Alone'
  BY <1>3
<1>6. FilesInOrder'
  BY <1>1, <1>2, <1>3
<1>7. QED
  BY <1>4, <1>5, <1>6

\* One call of the iterator keeps DirInv.
LEMMA AuxFilesInv ==
    ASSUME DirInv, NEW i \in Iters, aux_files(i)
    PROVE  DirInv'
<1> USE NilStream DEF DirInv
<1>0. iter' = iter /\ tmp' = tmp /\ iter[i] = "live"
  BY DEF aux_files
<1>1. CASE UNCHANGED <<p, got, open, pos>>
  BY <1>0, <1>1 DEF DirType, Held, Alone, NoneIdle, FilesInOrder
<1>2. CASE /\ p[i] # nil
           /\ pos' = [pos EXCEPT ![p[i]] = @ + 1]
           /\ got' = [got EXCEPT ![i] = @ + 1]
           /\ UNCHANGED <<p, open>>
  <2>1. p[i] \in Streams /\ got[i] = pos[p[i]] /\ pos[p[i]] \in Nat
    BY <1>2 DEF DirType, FilesInOrder
  <2>2. DirType' /\ Held' /\ Alone' /\ NoneIdle'
    BY <1>0, <1>2, <2>1 DEF DirType, Held, Alone, NoneIdle
  <2>3. FilesInOrder'
    BY <1>2, <2>1 DEF FilesInOrder, DirType, Alone
  <2>4. QED
    BY <2>2, <2>3
<1>3. CASE p[i] # nil /\ closedir(p[i]) /\ p' = [p EXCEPT ![i] = nil] /\ UNCHANGED got
  <2>1. DirType'
    BY <1>0, <1>3 DEF DirType, closedir
  <2>2. NoneIdle'
    BY <1>0, <1>3 DEF NoneIdle, DirType
  <2>3. QED
    BY <1>0, <1>3, <2>1, <2>2, CloseInv
<1>4. QED
  BY <1>1, <1>2, <1>3 DEF aux_files

\* The finaliser keeps DirInv.
LEMMA GcInv ==
    ASSUME DirInv, NEW i \in Iters, dir_gc(i)
    PROVE  DirInv'
<1> USE NilStream DEF DirInv
<1>0. /\ tmp' = tmp /\ iter' = [iter EXCEPT ![i] = "none"]
      /\ p' = [p EXCEPT ![i] = nil] /\ got' = [got EXCEPT ![i] = 0]
  BY DEF dir_gc
<1>1. CASE p[i] # nil
  <2>1. closedir(p[i])
    BY <1>1 DEF dir_gc
  <2>2. DirType'
    BY <1>0, <2>1, <1>1 DEF DirType, closedir
  <2>3. NoneIdle'
    BY <1>0 DEF NoneIdle, DirType
  <2>4. \A j \in Iters \ {i} : got'[j] = got[j]
    BY <1>0 DEF DirType
  <2>5. QED
    BY <1>0, <1>1, <2>1, <2>2, <2>3, <2>4, CloseInv
<1>2. CASE p[i] = nil
  <2>1. UNCHANGED <<open, pos>>
    BY <1>2 DEF dir_gc
  <2>2. p' = p
    BY <1>0, <1>2 DEF DirType
  <2>3. DirType' /\ Held' /\ Alone' /\ NoneIdle'
    BY <1>0, <1>2, <2>1, <2>2 DEF DirType, Held, Alone, NoneIdle
  <2>4. FilesInOrder'
    BY <1>0, <1>2, <2>1, <2>2 DEF FilesInOrder, DirType
  <2>5. QED
    BY <2>3, <2>4
<1>3. QED
  BY <1>1, <1>2

\* dir keeps DirInv.
LEMMA PdirInv ==
    ASSUME DirInv, Pdir
    PROVE  DirInv'
<1> USE NilStream DEF DirInv, DirType, Held, Alone, NoneIdle, FilesInOrder
<1>1. CASE opendir_fails
  BY <1>1 DEF opendir_fails, dirvars
<1>2. ASSUME tmp = nil, NEW s \in Streams, opendir(s), tmp' = s,
             UNCHANGED <<iter, p, got>>
      PROVE DirInv'
  <2>1. s \notin open /\ open' = open \cup {s} /\ pos' = [pos EXCEPT ![s] = 0]
    BY <1>2 DEF opendir
  <2>2. \A j \in Iters : p[j] # s
    BY <2>1
  <2>3. QED
    BY <1>2, <2>1, <2>2
<1>3. CASE tmp # nil /\ closedir(tmp) /\ tmp' = nil /\ UNCHANGED <<iter, p, got>>
  <2>1. tmp \in Streams /\ open' = open \ {tmp} /\ pos' = [pos EXCEPT ![tmp] = 0]
    BY <1>3 DEF closedir
  <2>2. \A j \in Iters : p[j] # tmp
    BY <1>3
  <2>3. QED
    BY <1>3, <2>1, <2>2
<1>4. QED
  BY <1>1, <1>2, <1>3 DEF Pdir

\* DirInv is inductive: the other iterators do not touch the streams.
LEMMA DirStep == DirInv /\ [Next]_vars => DirInv'
<1> SUFFICES ASSUME DirInv, [Next]_vars PROVE DirInv'
  OBVIOUS
<1>1. CASE UNCHANGED dirvars
  BY <1>1 DEF dirvars, DirInv, DirType, Held, Alone, NoneIdle, FilesInOrder
<1>2. ASSUME NEW i \in Iters, Drop(i) PROVE DirInv'
  BY <1>2 DEF Drop, DirInv, DirType, Held, Alone, NoneIdle, FilesInOrder
<1>3. CASE DirNext
  BY <1>2, <1>3, PfilesInv, AuxFilesInv, GcInv, PdirInv DEF DirNext
<1>4. CASE DbNext
  <2>1. UNCHANGED dirvars
    BY <1>4 DEF DbNext, Pendgrent, Psetgrent, Pgetgrent, Pendpwent, Psetpwent,
                Pgetpwent, set_errno, rewind
  <2>2. QED
    BY <1>1, <2>1
<1>5. CASE OptNext
  <2>1. UNCHANGED dirvars
    BY <1>5 DEF OptNext, iter_getopt, Pgetopt
  <2>2. QED
    BY <1>1, <2>1
<1>6. CASE UNCHANGED vars
  BY <1>1, <1>6 DEF vars
<1>7. QED
  BY <1>3, <1>4, <1>5, <1>6 DEF Next

\* DirInv holds from the beginning on.
LEMMA DirHolds == Spec => []DirInv
<1>1. Init => DirInv
  BY NilStream DEF Init, DirInv, DirType, Held, Alone, NoneIdle, FilesInOrder
<1>2. QED
  BY <1>1, DirStep, PTL DEF Spec

\* Every open stream has one owner and every owner an open stream, whenever
\* the collector runs.
THEOREM StreamsHaveOneOwner == Spec => []StreamsOwned
<1>1. DirInv => StreamsOwned
  <2> SUFFICES ASSUME DirInv PROVE StreamsOwned
    OBVIOUS
  <2>1. open = {p[i] : i \in {j \in Iters : p[j] # nil}} \cup ({tmp} \ {nil})
    BY NilStream DEF DirInv, DirType, Held
  <2>2. QED
    BY <2>1 DEF StreamsOwned, DirInv, Alone
<1>2. QED
  BY <1>1, DirHolds, PTL

\* Each iterator of files yields the entries of its own directory in order.
THEOREM EntriesInOrder == Spec => []FilesInOrder
<1>1. DirInv => FilesInOrder
  BY DEF DirInv
<1>2. QED
  BY <1>1, DirHolds, PTL

-----------------------------------------------------------------------------
(* The databases.                                                          *)

\* The first n entries in order.
Entries(n) == [k \in 1..n |-> k]

\* What the program was given since it last began is what lies behind the
\* cursor, and the last loop that ended was whole.
DbInv ==
    /\ cursor \in [Dbs -> 0..DbLen]
    /\ loop \in [Dbs -> Seq(Nat)] /\ DOMAIN whole = Dbs
    /\ \A db \in Dbs : loop[db] = Entries(cursor[db])
    /\ LoopWhole

\* A rewound database keeps DbInv.
LEMMA RewindInv ==
    ASSUME DbInv, NEW db \in Dbs, cursor' = [cursor EXCEPT ![db] = 0],
           loop' = [loop EXCEPT ![db] = <<>>],
           whole' = whole \/ (cursor[db] = DbLen /\ whole' = [whole EXCEPT ![db] = loop[db]])
    PROVE  DbInv'
<1>1. DbLen \in Nat /\ <<>> = Entries(0) /\ <<>> \in Seq(Nat)
  BY CursorAssumption DEF Entries
<1>2. cursor' \in [Dbs -> 0..DbLen] /\ loop' \in [Dbs -> Seq(Nat)]
        /\ DOMAIN whole' = Dbs
  BY <1>1 DEF DbInv
<1>3. \A d \in Dbs : loop'[d] = Entries(cursor'[d])
  BY <1>1 DEF DbInv
<1>4. LoopWhole'
  BY DEF DbInv, LoopWhole, Entries
<1>5. QED
  BY <1>2, <1>3, <1>4 DEF DbInv

\* An entry that is given to the program keeps DbInv.
LEMMA EntryInv ==
    ASSUME DbInv, NEW db \in Dbs, entry(db)
    PROVE  DbInv'
<1>0. DbLen \in Nat /\ cursor[db] \in 0..DbLen
  BY CursorAssumption DEF DbInv
<1> DEFINE n == cursor[db]
<1>1. n < DbLen /\ cursor' = [cursor EXCEPT ![db] = n + 1]
        /\ loop' = [loop EXCEPT ![db] = Append(loop[db], cursor'[db])]
        /\ whole' = whole
  BY DEF entry
<1>2. cursor'[db] = n + 1
  BY <1>1 DEF DbInv
<1>3. Append(Entries(n), n + 1) = Entries(n + 1) /\ Entries(n + 1) \in Seq(Nat)
  <2>1. n \in Nat /\ Entries(n) \in Seq(Nat) /\ Len(Entries(n)) = n
    BY <1>0 DEF Entries
  <2>2. Append(Entries(n), n + 1) \in Seq(Nat)
    BY <2>1
  <2>3. QED
    BY <2>1, <2>2 DEF Entries
<1>4. loop' = [loop EXCEPT ![db] = Entries(n + 1)]
  BY <1>1, <1>2, <1>3 DEF DbInv
<1>5. cursor' \in [Dbs -> 0..DbLen] /\ loop' \in [Dbs -> Seq(Nat)]
  BY <1>0, <1>1, <1>3, <1>4 DEF DbInv
<1>6. \A d \in Dbs : loop'[d] = Entries(cursor'[d])
  BY <1>1, <1>4 DEF DbInv
<1>7. LoopWhole' /\ DOMAIN whole' = Dbs
  BY <1>1 DEF DbInv, LoopWhole
<1>8. QED
  BY <1>5, <1>6, <1>7 DEF DbInv

\* getgrent and getpwent keep DbInv, whatever errno is.
LEMMA GetInv ==
    ASSUME DbInv, NEW db \in Dbs,
           entry(db) \/ failure(db) \/ atend(db) \/ stale(db)
    PROVE  DbInv'
<1>1. CASE entry(db)
  BY <1>1, EntryInv
<1>2. CASE atend(db)
  BY <1>2, RewindInv DEF atend
<1>3. CASE failure(db) \/ stale(db)
  BY <1>3 DEF failure, stale, dbvars, DbInv, LoopWhole
<1>4. QED
  BY <1>1, <1>2, <1>3

\* DbInv is inductive.
LEMMA DbStep == DbInv /\ [Next]_vars => DbInv'
<1> SUFFICES ASSUME DbInv, [Next]_vars PROVE DbInv'
  OBVIOUS
<1>0. "grp" \in Dbs /\ "pwd" \in Dbs
  BY DEF Dbs
<1>1. CASE UNCHANGED dbvars
  BY <1>1 DEF dbvars, DbInv, LoopWhole
<1>2. CASE DirNext
  <2>1. UNCHANGED dbvars
    BY <1>2 DEF DirNext, Pdir, Pfiles, aux_files, Drop, dir_gc, opendir_fails
  <2>2. QED
    BY <1>1, <2>1
<1>3. ASSUME NEW db \in Dbs, rewind(db) PROVE DbInv'
  BY <1>3, RewindInv DEF rewind
<1>4. CASE DbNext
  <2>1. CASE Pgetgrent \/ Pgetpwent
    BY <1>0, <2>1, GetInv DEF Pgetgrent, Pgetpwent
  <2>2. CASE Pendgrent \/ Psetgrent \/ Pendpwent \/ Psetpwent
    BY <1>0, <1>3, <2>2 DEF Pendgrent, Psetgrent, Pendpwent, Psetpwent
  <2>3. CASE set_errno
    BY <1>1, <2>3 DEF set_errno
  <2>4. QED
    BY <1>4, <2>1, <2>2, <2>3 DEF DbNext
<1>5. CASE OptNext
  <2>1. UNCHANGED dbvars
    BY <1>5 DEF OptNext, iter_getopt, Pgetopt
  <2>2. QED
    BY <1>1, <2>1
<1>6. CASE UNCHANGED vars
  BY <1>1, <1>6 DEF vars
<1>7. QED
  BY <1>2, <1>4, <1>5, <1>6 DEF Next

\* When getgrent or getpwent returns nil and errno is 0, the program was
\* given every entry in order, however long the database is and whatever
\* failed before.
THEOREM LoopsAreWhole == Spec => []LoopWhole
<1>1. Init => DbInv
  <2> SUFFICES ASSUME Init PROVE DbInv
    OBVIOUS
  <2>1. DbLen \in Nat /\ <<>> = Entries(0) /\ <<>> \in Seq(Nat)
    BY CursorAssumption DEF Entries
  <2>2. QED
    BY <2>1 DEF Init, DbInv, LoopWhole
<1>2. DbInv => LoopWhole
  BY DEF DbInv
<1>3. QED
  BY <1>1, <1>2, DbStep, PTL DEF Spec

-----------------------------------------------------------------------------
(* FlattenSeq, by which the options of a command line are defined.         *)

\* f is the function by which FlattenSeq is defined, for the first n of s.
IsFlat(s, n, f) ==
    f = [i \in 1..n |-> IF i = 1 THEN s[i] ELSE f[i - 1] \o s[i]]

\* A set of numbers has a least one.
LEMMA LeastOf ==
    ASSUME NEW S, S \subseteq Nat, S # {}
    PROVE  \E m \in S : \A k \in S : m <= k
<1>0. IsWellFoundedOn(OpToRel(<, Nat), Nat)
  BY NatLessThanWellFounded
<1>1. PICK m \in S : \A k \in S : ~(<<k, m>> \in OpToRel(<, Nat))
  BY <1>0, WFMin
<1>2. \A k \in S : ~(k < m)
  BY <1>1 DEF OpToRel
<1> QED BY <1>2

\* Induction on 1..n, for a set.
LEMMA UpTo ==
    ASSUME NEW S, NEW n \in Nat,
           \A i \in 1..n : (i = 1 \/ i - 1 \in S) => i \in S
    PROVE  \A i \in 1..n : i \in S
<1> DEFINE T == (1..n) \ S
<1> SUFFICES ASSUME T # {} PROVE FALSE
  OBVIOUS
<1>1. \E m \in T : \A k \in T : m <= k
  <2>1. T \subseteq Nat
    OBVIOUS
  <2> HIDE DEF T
  <2> QED BY <2>1, LeastOf
<1>2. PICK m \in T : \A k \in T : m <= k
  BY <1>1
<1>3. m \in 1..n /\ m \notin S
  OBVIOUS
<1>4. m # 1 => m - 1 \in 1..n /\ m - 1 \notin T
  BY <1>2, <1>3
<1> QED BY <1>3, <1>4

\* It is a function on 1..n.
LEMMA FlatFcn ==
    ASSUME NEW s, NEW n \in Nat, NEW f, IsFlat(s, n, f)
    PROVE  f = [i \in 1..n |-> f[i]]
BY DEF IsFlat

\* It begins with the first of s.
LEMMA FlatFirst ==
    ASSUME NEW s, NEW n \in Nat, n >= 1, NEW f, IsFlat(s, n, f)
    PROVE  f[1] = s[1]
BY DEF IsFlat

\* Each value is the one before it and the next of s.
LEMMA FlatNext ==
    ASSUME NEW s, NEW n \in Nat, NEW f, IsFlat(s, n, f), NEW i \in 1..n, i # 1
    PROVE  f[i] = f[i - 1] \o s[i]
BY DEF IsFlat

\* One for i - 1 can be made longer.
LEMMA FlatMore ==
    ASSUME NEW s, NEW i \in Nat, i > 1, NEW f, IsFlat(s, i - 1, f)
    PROVE  \E g : IsFlat(s, i, g)
<1> DEFINE g == [j \in 1..i |-> IF j < i THEN f[j] ELSE f[j - 1] \o s[j]]
<1>1. i - 1 \in Nat /\ i - 1 >= 1
  OBVIOUS
<1>2. f[1] = s[1] /\ \A j \in 1..(i - 1) : j # 1 => f[j] = f[j - 1] \o s[j]
  BY Zenon, <1>1, FlatFirst, FlatNext
<1>3. \A j \in 1..i : (j - 1 \in 1..i /\ j - 1 < i) \/ j = 1
  OBVIOUS
<1>4. ASSUME NEW j \in 1..i PROVE g[j] = IF j = 1 THEN s[j] ELSE g[j - 1] \o s[j]
  <2>1. CASE j = 1
    <3>1. g[1] = f[1]
      BY <1>1
    <3> QED BY <1>2, <2>1, <3>1
  <2>2. CASE j # 1
    <3>1. g[j - 1] = f[j - 1]
      BY <2>2
    <3>2. g[j] = f[j - 1] \o s[j]
      <4>1. CASE j < i
        <5>1. j \in 1..(i - 1)
          BY <4>1
        <5> QED BY Zenon, <1>2, <2>2, <4>1, <5>1
      <4>2. CASE ~(j < i)
        BY Zenon, <4>2
      <4> QED BY <4>1, <4>2
    <3> QED BY Zenon, <2>2, <3>1, <3>2
  <2> QED BY <2>1, <2>2
<1>5. g = [j \in 1..i |-> IF j = 1 THEN s[j] ELSE g[j - 1] \o s[j]]
  <2> HIDE DEF g
  <2>1. g = [j \in 1..i |-> g[j]]
    BY Zenon DEF g
  <2> QED BY Zenon, <1>4, <2>1
<1> HIDE DEF g
<1>6. IsFlat(s, i, g)
  BY Zenon, <1>5 DEF IsFlat
<1> QED BY <1>6

\* There is such a function for one sequence.
LEMMA FlatOne == ASSUME NEW s PROVE IsFlat(s, 1, [j \in 1..1 |-> s[j]])
  BY DEF IsFlat

\* There is such a function, for each n.
LEMMA FlatExists ==
    ASSUME NEW s, NEW n \in Nat
    PROVE  \E f : IsFlat(s, n, f)
<1> DEFINE S == {i \in 1..n : \E f : IsFlat(s, i, f)}
<1>1. ASSUME NEW i \in 1..n, i = 1 \/ i - 1 \in S PROVE i \in S
  <2>1. CASE i = 1
    BY Zenon, FlatOne, <2>1
  <2>2. CASE i # 1
    <3>1. PICK f : IsFlat(s, i - 1, f)
      BY Zenon, <1>1, <2>2
    <3>2. i \in Nat /\ i > 1
      BY <2>2
    <3>3. \E g : IsFlat(s, i, g)
      BY Zenon, <3>1, <3>2, FlatMore
    <3> QED BY Zenon, <3>3
  <2> QED BY <2>1, <2>2
<1>4. n # 0 => n \in S
  <2>1. \A i \in 1..n : i \in S
    <3> HIDE DEF S
    <3> QED BY <1>1, UpTo
  <2>2. n # 0 => n \in 1..n
    OBVIOUS
  <2> QED BY Zenon, <2>1, <2>2
<1>5. IsFlat(s, 0, [j \in 1..0 |-> s[j]])
  BY DEF IsFlat
<1> QED BY Zenon, <1>4, <1>5

\* There is only one.
LEMMA FlatUnique ==
    ASSUME NEW s, NEW n \in Nat, NEW f, IsFlat(s, n, f), NEW g, IsFlat(s, n, g)
    PROVE  f = g
<1> DEFINE S == {i \in 1..n : f[i] = g[i]}
<1>0. \A i \in 1..n : n >= 1
  OBVIOUS
<1>1. ASSUME NEW i \in 1..n, i = 1 \/ i - 1 \in S PROVE i \in S
  <2>1. CASE i = 1
    BY Zenon, <1>0, <2>1, FlatFirst
  <2>2. CASE i # 1
    <3>1. f[i] = f[i - 1] \o s[i] /\ g[i] = g[i - 1] \o s[i]
      BY Zenon, <2>2, FlatNext
    <3> QED BY Zenon, <1>1, <2>2, <3>1
  <2> QED BY Zenon, <2>1, <2>2
<1>2. \A i \in 1..n : i \in S
  <2> HIDE DEF S
  <2> QED BY <1>1, UpTo
<1>3. f = [i \in 1..n |-> f[i]] /\ g = [i \in 1..n |-> g[i]]
  BY Zenon, FlatFcn
<1> QED BY Zenon, <1>2, <1>3

\* FlattenSeq is its last value.
LEMMA FlattenIs ==
    ASSUME NEW s, NEW n \in Nat \ {0}, Len(s) = n, NEW f, IsFlat(s, n, f)
    PROVE  FlattenSeq(s) = f[n]
<1>1. \A g : IsFlat(s, n, g) => g = f
  BY FlatUnique
<1>2. f = CHOOSE g : g = [i \in 1..Len(s) |->
                            IF i = 1 THEN s[i] ELSE g[i - 1] \o s[i]]
  BY <1>1 DEF IsFlat
<1> QED BY <1>2 DEF FlattenSeq

\* No sequences make the empty one.
LEMMA FlattenEmpty == FlattenSeq(<<>>) = <<>>
BY DEF FlattenSeq

\* Concatenation is associative.
LEMMA Associative ==
    ASSUME NEW L
    PROVE  \A a, b, c \in Seq(L) :
             (a \o b) \o c = a \o (b \o c) /\ b \o c \in Seq(L)
BY ConcatAssociative, ConcatProperties

\* t is s without its first element.
Shifted(L, s, t, n) ==
    /\ n \in Nat /\ n >= 1
    /\ \A i \in 1..(n + 1) : s[i] \in Seq(L)
    /\ \A i \in 1..n : t[i] = s[i + 1]

\* f and g are the functions for s and for t.
BothFlat(L, s, t, n, f, g) ==
    Shifted(L, s, t, n) /\ IsFlat(s, n + 1, f) /\ IsFlat(t, n, g)

\* x is a followed by y.
Begins(L, x, a, y) == y \in Seq(L) /\ x = a \o y

\* The value for s is its first sequence followed by the value for t.
LEMMA FlatShift ==
    ASSUME NEW L, NEW s, NEW t, NEW n, NEW f, NEW g, BothFlat(L, s, t, n, f, g)
    PROVE  Begins(L, f[n + 1], s[1], g[n])
<1> n \in Nat /\ n >= 1
  BY DEF BothFlat, Shifted
<1> /\ \A i \in 1..(n + 1) : s[i] \in Seq(L)
    /\ \A i \in 1..n : t[i] = s[i + 1]
  BY DEF BothFlat, Shifted
<1> IsFlat(s, n + 1, f) /\ IsFlat(t, n, g)
  BY DEF BothFlat
<1>0. n + 1 \in Nat /\ n + 1 >= 1 /\ 1 + 1 = 2 /\ 1 \in 1..n /\ 2 \in 1..(n + 1)
        /\ 1 \in 1..(n + 1)
        /\ \A i \in 1..n : /\ i + 1 \in 1..(n + 1) /\ i + 1 # 1 /\ (i + 1) - 1 = i
                           /\ (i - 1) + 1 = i
                           /\ i # 1 => i - 1 \in 1..n
  OBVIOUS
<1>1. f[1] = s[1] /\ \A i \in 1..n : f[i + 1] = f[i] \o s[i + 1]
  <2>1. f[1] = s[1]
    BY Zenon, <1>0, FlatFirst
  <2>2. ASSUME NEW i \in 1..n PROVE f[i + 1] = f[i] \o s[i + 1]
    <3>1. n + 1 \in Nat /\ i + 1 \in 1..(n + 1) /\ i + 1 # 1 /\ (i + 1) - 1 = i
      BY Zenon, <1>0
    <3>2. f[i + 1] = f[(i + 1) - 1] \o s[i + 1]
      BY Zenon, <3>1, FlatNext
    <3> QED BY Zenon, <3>1, <3>2
  <2> QED BY Zenon, <2>1, <2>2
<1>2. g[1] = s[2] /\ \A i \in 1..n : i # 1 => g[i] = g[i - 1] \o s[i + 1]
  <2>1. g[1] = t[1]
    BY Zenon, <1>0, FlatFirst
  <2>2. ASSUME NEW i \in 1..n, i # 1 PROVE g[i] = g[i - 1] \o s[i + 1]
    <3>1. g[i] = g[i - 1] \o t[i]
      BY Zenon, <2>2, FlatNext
    <3> QED BY Zenon, <3>1
  <2>3. t[1] = s[2]
    BY Zenon, <1>0
  <2> QED BY Zenon, <2>1, <2>2, <2>3
<1> DEFINE S == {i \in 1..n : g[i] \in Seq(L) /\ f[i + 1] = s[1] \o g[i]}
<1>3. ASSUME NEW i \in 1..n, i # 1, g[i - 1] \in Seq(L), f[i] = s[1] \o g[i - 1]
      PROVE  g[i] \in Seq(L) /\ f[i + 1] = s[1] \o g[i]
  <2>1. s[1] \in Seq(L) /\ s[i + 1] \in Seq(L)
    BY Zenon, <1>0
  <2>2. /\ (s[1] \o g[i - 1]) \o s[i + 1] = s[1] \o (g[i - 1] \o s[i + 1])
        /\ g[i - 1] \o s[i + 1] \in Seq(L)
    <3>1. g[i - 1] \in Seq(L) /\ s[1] \in Seq(L) /\ s[i + 1] \in Seq(L)
      BY Zenon, <1>3, <2>1
    <3>2. \A a, b, c \in Seq(L) :
             (a \o b) \o c = a \o (b \o c) /\ b \o c \in Seq(L)
      BY Zenon, Associative
    <3> QED BY Zenon, <3>1, <3>2
  <2> QED BY Zenon, <1>1, <1>2, <1>3, <2>2
<1>4. \A i \in 1..n : (i = 1 \/ i - 1 \in S) => i \in S
  <2> TAKE i \in 1..n
  <2>1. CASE i = 1
    <3>1. g[1] \in Seq(L) /\ f[1 + 1] = s[1] \o g[1]
      <4>1. s[2] \in Seq(L) /\ f[1 + 1] = f[1] \o s[1 + 1] /\ 1 + 1 = 2
        BY Zenon, <1>0, <1>1
      <4> QED BY Zenon, <1>1, <1>2, <4>1
    <3> QED BY Zenon, <2>1, <3>1
  <2>2. CASE i # 1 /\ i - 1 \in S
    <3>1. f[i] = s[1] \o g[i - 1] /\ g[i - 1] \in Seq(L)
      BY Zenon, <1>0, <2>2
    <3> QED BY Zenon, <1>3, <2>2, <3>1
  <2> QED BY Zenon, <2>1, <2>2
<1>5. n \in S
  <2>1. \A i \in 1..n : i \in S
    <3> HIDE DEF S
    <3> QED BY <1>4, UpTo
  <2>2. n \in 1..n
    OBVIOUS
  <2> QED BY Zenon, <2>1, <2>2
<1> QED BY Zenon, <1>5 DEF Begins

\* There are such functions.
LEMMA FlatPair ==
    ASSUME NEW L, NEW s, NEW t, NEW n, Shifted(L, s, t, n)
    PROVE  \E f, g : BothFlat(L, s, t, n, f, g)
<1>0. n \in Nat /\ n + 1 \in Nat
  BY DEF Shifted
<1>1. PICK f : IsFlat(s, n + 1, f)
  BY Zenon, <1>0, FlatExists
<1>2. PICK g : IsFlat(t, n, g)
  BY Zenon, <1>0, FlatExists
<1> QED BY Zenon, <1>1, <1>2 DEF BothFlat

\* The same of FlattenSeq.
LEMMA FlattenShifted ==
    ASSUME NEW L, NEW s, NEW t, NEW n, Shifted(L, s, t, n)
    PROVE  Len(s) = n + 1 /\ Len(t) = n =>
             Begins(L, FlattenSeq(s), s[1], FlattenSeq(t))
<1>0. n \in Nat \ {0} /\ n + 1 \in Nat \ {0}
  BY DEF Shifted
<1>1. PICK f, g : BothFlat(L, s, t, n, f, g)
  BY Zenon, FlatPair
<1>2. Begins(L, f[n + 1], s[1], g[n])
  BY Zenon, <1>1, FlatShift
<1>3. IsFlat(s, n + 1, f) /\ IsFlat(t, n, g)
  BY Zenon, <1>1 DEF BothFlat
<1>4. ASSUME Len(s) = n + 1, Len(t) = n
      PROVE  FlattenSeq(s) = f[n + 1] /\ FlattenSeq(t) = g[n]
  BY Zenon, <1>0, <1>3, <1>4, FlattenIs
<1> QED BY Zenon, <1>2, <1>4

\* Flattening puts the first sequence before the flattened others.
LEMMA FlattenCons ==
    ASSUME NEW L, NEW s \in Seq(Seq(L)), s # <<>>
    PROVE  Begins(L, FlattenSeq(s), Head(s), FlattenSeq(Tail(s)))
<1>1. /\ Tail(s) \in Seq(Seq(L)) /\ Len(Tail(s)) \in Nat /\ Head(s) = s[1]
      /\ Len(s) = Len(Tail(s)) + 1 /\ s[1] \in Seq(L)
  OBVIOUS
<1>2. CASE Len(Tail(s)) = 0
  <2>1. Tail(s) = <<>>
    BY <1>1, <1>2, EmptySeq
  <2>2. PICK f : IsFlat(s, 1, f)
    BY FlatExists
  <2>3. f[1] = s[1]
    BY FlatFirst, <2>2
  <2>4. FlattenSeq(s) = s[1]
    <3>1. Len(s) = 0 + 1
      BY Zenon, <1>1, <1>2
    <3>2. 0 + 1 = 1 /\ 1 \in Nat \ {0}
      OBVIOUS
    <3> QED BY Zenon, <2>2, <2>3, <3>1, <3>2, FlattenIs
  <2>5. <<>> \in Seq(L) /\ s[1] \o <<>> = s[1]
    BY <1>1, ConcatEmptySeq, EmptySeq
  <2> QED BY Zenon, <1>1, <2>1, <2>4, <2>5, FlattenEmpty DEF Begins
<1>3. CASE Len(Tail(s)) # 0
  <2>1. Shifted(L, s, Tail(s), Len(Tail(s)))
    BY <1>1, <1>3 DEF Shifted
  <2>2. Begins(L, FlattenSeq(s), s[1], FlattenSeq(Tail(s)))
    BY Zenon, <1>1, <2>1, FlattenShifted
  <2> QED BY Zenon, <1>1, <2>2
<1> QED BY <1>2, <1>3
\* Flattened sequences are a sequence.
LEMMA FlattenSeqOf ==
    ASSUME NEW L, NEW s \in Seq(Seq(L))
    PROVE  FlattenSeq(s) \in Seq(L)
<1>1. CASE s = <<>>
  <2>1. <<>> \in Seq(L)
    OBVIOUS
  <2> QED BY Zenon, <1>1, <2>1, FlattenEmpty
<1>2. CASE s # <<>>
  <2>1. Begins(L, FlattenSeq(s), Head(s), FlattenSeq(Tail(s)))
    BY Zenon, <1>2, FlattenCons
  <2>2. Head(s) \in Seq(L)
    BY <1>2
  <2>3. \A b, c \in Seq(L) : b \o c \in Seq(L)
    BY Zenon, Associative
  <2> QED BY Zenon, <2>1, <2>2, <2>3 DEF Begins
<1> QED BY <1>1, <1>2

\* The operands from a word on, and the word before the first of them.
Operands(words, first) == {k \in first..Len(words) : words[k] = <<>>}
FirstOf(S) == CHOOSE k \in S : \A j \in S : k <= j
LastWord(words, first) ==
    IF Operands(words, first) = {} THEN Len(words)
    ELSE FirstOf(Operands(words, first)) - 1

\* Options flattens the words from first to LastWord.
LEMMA OptionsIs ==
    ASSUME NEW words, NEW first
    PROVE  Options(words, first) =
             FlattenSeq(SubSeq(words, first, LastWord(words, first)))
BY DEF Options, LastWord, FirstOf, Operands

\* FirstOf is the least of a set of numbers.
LEMMA FirstIs ==
    ASSUME NEW S, S \subseteq Nat, S # {}
    PROVE  FirstOf(S) \in S /\ \A j \in S : FirstOf(S) <= j
<1>1. \E k \in S : \A j \in S : k <= j
  BY LeastOf
<1> QED BY Zenon, <1>1 DEF FirstOf

\* Where the options end, for a word that is an operand and for one that is not.
LEMMA LastWordIs ==
    ASSUME NEW L, NEW words \in Seq(Seq(L)), NEW first \in Nat \ {0}
    PROVE  /\ LastWord(words, first) \in Nat
           /\ LastWord(words, first) <= Len(words)
           /\ first <= Len(words) => LastWord(words, first) >= first - 1
           /\ first \in 1..Len(words) /\ words[first] = <<>> =>
                LastWord(words, first) = first - 1
           /\ first \in 1..Len(words) /\ words[first] # <<>> =>
                /\ LastWord(words, first) >= first
                /\ LastWord(words, first + 1) = LastWord(words, first)
<1> DEFINE S == Operands(words, first)
<1>0. Len(words) \in Nat
  OBVIOUS
<1>1. S \subseteq Nat /\ \A k \in S : k >= first /\ k <= Len(words) /\ words[k] = <<>>
  BY <1>0 DEF Operands
<1>2. S # {} => FirstOf(S) \in S /\ \A j \in S : FirstOf(S) <= j
  BY Zenon, <1>1, FirstIs
<1>3. first <= Len(words) /\ words[first] = <<>> => first \in S
  BY <1>0 DEF Operands
<1>4. words[first] # <<>> => Operands(words, first + 1) = S
  BY <1>0 DEF Operands
<1>5. LastWord(words, first) = IF S = {} THEN Len(words) ELSE FirstOf(S) - 1
  BY DEF LastWord
<1>6. words[first] # <<>> => LastWord(words, first + 1) = LastWord(words, first)
  BY Zenon, <1>4 DEF LastWord
<1> DEFINE m == LastWord(words, first)
<1> HIDE DEF S, m
<1>7. CASE S = {}
  <2>1. m = Len(words)
    BY <1>5, <1>7 DEF m
  <2>2. first <= Len(words) => words[first] # <<>>
    BY <1>3, <1>7
  <2>3. /\ m \in Nat /\ m <= Len(words)
        /\ first <= Len(words) => m >= first - 1
        /\ first \in 1..Len(words) => m >= first
    BY <1>0, <2>1
  <2> QED BY <1>6, <2>2, <2>3 DEF m
<1>8. CASE S # {}
  <2>1. PICK f : f = FirstOf(S)
    OBVIOUS
  <2>2. m = f - 1
    BY Zenon, <1>5, <1>8, <2>1 DEF m
  <2>3. f \in S /\ \A j \in S : f <= j
    BY Zenon, <1>2, <1>8, <2>1
  <2>4. f \in Nat /\ f >= first /\ f <= Len(words) /\ words[f] = <<>>
    BY Zenon, <1>1, <2>3
  <2>5. /\ m \in Nat /\ m <= Len(words) /\ m >= first - 1
    BY <1>0, <2>2, <2>4
  <2>6. first <= Len(words) /\ words[first] = <<>> => m = first - 1
    BY <1>0, <1>3, <2>2, <2>3, <2>4
  <2>7. words[first] # <<>> => m >= first
    <3>1. words[first] # <<>> => f # first
      BY Zenon, <2>4
    <3> QED BY <2>2, <2>4, <3>1
  <2>8. first \in 1..Len(words) => first <= Len(words)
    BY <1>0
  <2> QED BY Zenon, <1>6, <2>5, <2>6, <2>7, <2>8 DEF m
<1> QED BY <1>7, <1>8

\* An operand, and the end of the command line, end the options.
LEMMA OptionsEnd ==
    ASSUME NEW L, NEW words \in Seq(Seq(L)), NEW k \in Nat \ {0},
           k > Len(words) \/ words[k] = <<>>
    PROVE  Options(words, k) = <<>>
<1>0. Len(words) \in Nat
  OBVIOUS
<1>1. PICK m : m = LastWord(words, k)
  OBVIOUS
<1>2. /\ m \in Nat /\ m <= Len(words)
      /\ k \in 1..Len(words) /\ words[k] = <<>> => m = k - 1
  BY Zenon, <1>1, LastWordIs
<1>3. m < k
  BY <1>0, <1>2
<1>4. SubSeq(words, k, m) = <<>>
  BY <1>2, <1>3
<1> QED BY Zenon, <1>1, <1>4, OptionsIs, FlattenEmpty

\* The words from k to m are some.
SomeWords(L, words, k, m) ==
    words \in Seq(Seq(L)) /\ k \in Nat \ {0} /\ m \in Nat
    /\ k <= m /\ m <= Len(words)

\* They are the word at k and those after it.
FirstWord(L, words, k, m) ==
    \E s \in Seq(Seq(L)) :
       /\ s = SubSeq(words, k, m) /\ s # <<>>
       /\ Head(s) = words[k] /\ Tail(s) = SubSeq(words, k + 1, m)

\* Some words are the first and the others.
LEMMA SubSeqWords ==
    ASSUME NEW L, NEW words, NEW k, NEW m, SomeWords(L, words, k, m)
    PROVE  FirstWord(L, words, k, m)
<1>0. words \in Seq(Seq(L)) /\ k \in Nat \ {0} /\ m \in Nat
        /\ k <= m /\ m <= Len(words)
  BY DEF SomeWords
<1>1. SubSeq(words, k, m) \in Seq(Seq(L))
  BY <1>0
<1>2. SubSeq(words, k, m) # <<>>
  <2>1. Len(SubSeq(words, k, m)) = m - k + 1
    BY <1>0
  <2>2. Len(SubSeq(words, k, m)) # 0
    BY <1>0, <2>1
  <2> QED BY <2>2, EmptySeq
<1>3. Head(SubSeq(words, k, m)) = words[k]
  BY <1>0
<1>4. Tail(SubSeq(words, k, m)) = SubSeq(words, k + 1, m)
  BY <1>0
<1> QED BY Zenon, <1>1, <1>2, <1>3, <1>4 DEF FirstWord

\* Options yields a sequence of letters.
LEMMA OptionsSeq ==
    ASSUME NEW L, NEW words \in Seq(Seq(L)), NEW k \in Nat \ {0}
    PROVE  Options(words, k) \in Seq(L)
<1>1. LastWord(words, k) \in Nat /\ LastWord(words, k) <= Len(words)
  BY Zenon, LastWordIs
<1>2. SubSeq(words, k, LastWord(words, k)) \in Seq(Seq(L))
  BY <1>1
<1> QED BY Zenon, <1>2, FlattenSeqOf, OptionsIs

\* The options from a word on are that word and those from the next on.
LEMMA OptionsWord ==
    ASSUME NEW L, NEW words \in Seq(Seq(L)), NEW k \in 1..Len(words),
           words[k] # <<>>
    PROVE  Begins(L, Options(words, k), words[k], Options(words, k + 1))
<1>0. k \in Nat \ {0}
  OBVIOUS
<1>1. PICK m : m = LastWord(words, k)
  OBVIOUS
<1>2. /\ m \in Nat /\ m <= Len(words) /\ m >= k
      /\ LastWord(words, k + 1) = m
  BY Zenon, <1>0, <1>1, LastWordIs
<1>3. k <= m
  BY <1>2
<1>4. FirstWord(L, words, k, m)
  <2>1. SomeWords(L, words, k, m)
    BY Zenon, <1>0, <1>2, <1>3 DEF SomeWords
  <2> QED BY Zenon, <2>1, SubSeqWords
<1>5. PICK s \in Seq(Seq(L)) :
         /\ s = SubSeq(words, k, m) /\ s # <<>>
         /\ Head(s) = words[k] /\ Tail(s) = SubSeq(words, k + 1, m)
  BY Zenon, <1>4 DEF FirstWord
<1>6. Begins(L, FlattenSeq(s), Head(s), FlattenSeq(Tail(s)))
  BY Zenon, <1>5, FlattenCons
<1>7. Options(words, k) = FlattenSeq(s)
  BY Zenon, <1>1, <1>5, OptionsIs
<1>8. Options(words, k + 1) = FlattenSeq(Tail(s))
  BY Zenon, <1>2, <1>5, OptionsIs
<1> QED BY Zenon, <1>5, <1>6, <1>7, <1>8
-----------------------------------------------------------------------------
(* getopt.                                                                 *)

\* The options that are ahead of getopt(3): the rest of the word it is in and
\* those of the words after it.  The position is in the word only when the
\* rest is not empty, and an optind of 0 forgets the rest.
Left(words) ==
    IF optind = 0 THEN Options(words, 1)
    ELSE IF place # <<>> THEN place \o Options(words, optind + 1)
    ELSE Options(words, optind)

OptType ==
    /\ optind \in Nat /\ place \in Seq(Letters) /\ out \in Seq(Letters)
    /\ argv \in [Loops -> Argvs \cup {nil}] /\ owner \in Loops \cup {nil}

\* What the undisturbed loop was asked for is what it has yielded and what is
\* ahead of getopt.
OptSplit ==
    owner # nil =>
       /\ argv[owner] \in Argvs
       /\ Begins(Letters, want, out, Left(argv[owner]))
       /\ over => out = want

OptInv == OptType /\ OptSplit

\* The model value nil is neither a loop nor a letter.
LEMMA NilLoop == nil \notin Loops /\ nil \notin Letters
BY CursorAssumption

\* A command line is a sequence of words.
LEMMA ArgvWords == \A words \in Argvs : words \in Seq(Seq(Letters))
BY CursorAssumption

\* The empty sequence and a sequence make that sequence.
LEMMA BeginsEmpty ==
    ASSUME NEW L, NEW x \in Seq(L)
    PROVE  Begins(L, x, <<>>, x)
BY DEF Begins

\* What follows a and begins with h follows a and h.
LEMMA BeginsMore ==
    ASSUME NEW L, NEW x, NEW a \in Seq(L), NEW h \in Seq(L), NEW z \in Seq(L),
           x = a \o (h \o z)
    PROVE  Begins(L, x, a \o h, z)
BY ConcatAssociative DEF Begins

\* The first letter of what is ahead is moved to what was yielded.
LEMMA BeginsMove ==
    ASSUME NEW L, NEW x, NEW a \in Seq(L), NEW r \in Seq(L), r # <<>>,
           NEW y, NEW o \in Seq(L), Begins(L, x, a, y), y = r \o o
    PROVE  Begins(L, x, Append(a, Head(r)), Tail(r) \o o)
<1>1. Head(r) \in L /\ Tail(r) \in Seq(L) /\ <<Head(r)>> \in Seq(L)
  OBVIOUS
<1>2. r = <<Head(r)>> \o Tail(r)
  OBVIOUS
<1>3. Append(a, Head(r)) = a \o <<Head(r)>>
  BY <1>1
<1>4. PICK h \in Seq(L), t \in Seq(L) :
         r = h \o t /\ t = Tail(r) /\ Append(a, Head(r)) = a \o h
  BY Zenon, <1>1, <1>2, <1>3
<1>5. \A b, c, d \in Seq(L) :
         (b \o c) \o d = b \o (c \o d) /\ c \o d \in Seq(L)
  BY Zenon, Associative
<1>6. PICK z \in Seq(L) : z = t \o o
  BY Zenon, <1>5
<1>7. y = h \o z
  <2>1. y = (h \o t) \o o
    BY Zenon, <1>4
  <2> QED BY Zenon, <1>5, <1>6, <2>1
<1>8. x = a \o (h \o z)
  BY Zenon, <1>7 DEF Begins
<1>9. Begins(L, x, a \o h, z)
  BY Zenon, <1>8, BeginsMore
<1> QED BY Zenon, <1>4, <1>6, <1>9

\* A new loop has everything ahead.
LEMMA PgetoptInv ==
    ASSUME OptInv, NEW g \in Loops, NEW words \in Argvs,
           NEW first \in {nil, 0, 1, 2}, NEW good \in BOOLEAN,
           Pgetopt(g, words, first, good)
    PROVE  OptInv'
<1>1. /\ optind' = IF first = nil THEN 1 ELSE first
      /\ argv' = IF good THEN [argv EXCEPT ![g] = words] ELSE argv
      /\ owner' = IF good /\ (place = <<>> \/ optind' = 0) THEN g ELSE nil
      /\ want' = IF owner' = nil THEN <<>>
                 ELSE Options(words, IF optind' = 0 THEN 1 ELSE optind')
      /\ out' = <<>> /\ over' = FALSE /\ place' = place
  BY DEF Pgetopt
<1>2. optind' \in Nat
  BY <1>1
<1>3. OptType'
  BY <1>1, <1>2 DEF OptInv, OptType
<1>4. ASSUME owner' # nil PROVE OptSplit'
  <2>1. owner' = g /\ good /\ (place' = <<>> \/ optind' = 0)
    BY Zenon, <1>1, <1>4
  <2>2. argv'[g] = words
    BY <1>1, <2>1 DEF OptInv, OptType
  <2>3. PICK k : k = IF optind' = 0 THEN 1 ELSE optind'
    OBVIOUS
  <2>4. want' = Options(words, k) /\ k \in Nat \ {0}
    <3>1. want' = Options(words, k)
      BY Zenon, <1>1, <1>4, <2>3
    <3>2. k \in Nat \ {0}
      BY <1>2, <2>3
    <3> QED BY <3>1, <3>2
  <2>5. Left(words)' = Options(words, k)
    BY Zenon, <2>1, <2>3 DEF Left
  <2>6. Begins(Letters, want', <<>>, want')
    BY Zenon, <2>4, ArgvWords, OptionsSeq, BeginsEmpty
  <2> QED BY Zenon, <1>1, <2>1, <2>2, <2>4, <2>5, <2>6 DEF OptSplit
<1>5. CASE owner' = nil
  BY Zenon, <1>3, <1>5 DEF OptSplit, OptInv
<1> QED BY Zenon, <1>3, <1>4, <1>5 DEF OptInv

\* What getopt gets to read: the rest of the word it is in, or the next word,
\* which is empty for an operand and behind the last one.
LEMMA LeftRest ==
    ASSUME OptType, NEW words \in Seq(Seq(Letters)),
           NEW ind, ind = (IF optind = 0 THEN 1 ELSE optind),
           NEW rest, rest = (IF optind # 0 /\ place # <<>> THEN place
                             ELSE IF ind <= Len(words) THEN words[ind] ELSE <<>>)
    PROVE  /\ ind \in Nat \ {0} /\ rest \in Seq(Letters)
           /\ rest = <<>> => Left(words) = <<>> /\ Options(words, ind) = <<>>
           /\ rest # <<>> => Left(words) = rest \o Options(words, ind + 1)
<1>1. ind \in Nat \ {0}
  BY DEF OptType
<1>2. Len(words) \in Nat /\ (ind <= Len(words) => ind \in 1..Len(words))
  BY <1>1
<1>3. rest \in Seq(Letters)
  <2>1. ind <= Len(words) => words[ind] \in Seq(Letters)
    BY <1>2
  <2>2. <<>> \in Seq(Letters)
    OBVIOUS
  <2> QED BY Zenon, <2>1, <2>2 DEF OptType
<1>4. CASE optind # 0 /\ place # <<>>
  <2>1. rest = place /\ ind = optind /\ Left(words) = place \o Options(words, optind + 1)
    BY Zenon, <1>4 DEF Left
  <2> QED BY Zenon, <1>1, <1>3, <1>4, <2>1
<1>5. CASE ~(optind # 0 /\ place # <<>>)
  <2>1. Left(words) = Options(words, ind)
    BY Zenon, <1>5 DEF Left
  <2>2. rest = IF ind <= Len(words) THEN words[ind] ELSE <<>>
    BY Zenon, <1>5
  <2>3. ASSUME rest = <<>> PROVE Options(words, ind) = <<>>
    <3>1. ind > Len(words) \/ words[ind] = <<>>
      BY <1>1, <1>2, <2>2, <2>3
    <3> QED BY Zenon, <1>1, <3>1, OptionsEnd
  <2>4. ASSUME rest # <<>> PROVE Options(words, ind) = rest \o Options(words, ind + 1)
    <3>1. ind \in 1..Len(words) /\ rest = words[ind]
      BY Zenon, <1>2, <2>2, <2>4
    <3>2. Begins(Letters, Options(words, ind), words[ind], Options(words, ind + 1))
      BY Zenon, <2>4, <3>1, OptionsWord
    <3> QED BY Zenon, <3>1, <3>2 DEF Begins
  <2>5. rest = <<>> => Left(words) = <<>>
    BY Zenon, <2>1, <2>3
  <2>6. rest # <<>> => Left(words) = rest \o Options(words, ind + 1)
    BY Zenon, <2>1, <2>4
  <2> QED BY Zenon, <1>1, <1>3, <2>3, <2>5, <2>6
<1> QED BY <1>4, <1>5

\* A step of the undisturbed loop moves one letter from what is ahead to what
\* was yielded, and ends the loop when nothing is ahead.
LEMMA IterOwn ==
    ASSUME OptInv, NEW g \in Loops, iter_getopt(g), owner = g
    PROVE  OptInv'
<1>1. PICK words \in Argvs : words = argv[g] /\ words \in Seq(Seq(Letters))
  BY Zenon, ArgvWords, NilLoop DEF OptInv, OptSplit
<1>2. PICK ind : ind = IF optind = 0 THEN 1 ELSE optind
  OBVIOUS
<1>3. PICK rest : rest = IF optind # 0 /\ place # <<>> THEN place
                         ELSE IF ind <= Len(words) THEN words[ind] ELSE <<>>
  OBVIOUS
<1>4. /\ getopt(words).r = IF rest = <<>> THEN nil ELSE Head(rest)
      /\ getopt(words).optind = IF Len(rest) = 1 THEN ind + 1 ELSE ind
      /\ getopt(words).place = IF rest = <<>> THEN <<>> ELSE Tail(rest)
  BY <1>2, <1>3 DEF getopt
<1>5. /\ optind' = getopt(words).optind /\ place' = getopt(words).place
      /\ owner' = g /\ want' = want /\ argv' = argv
      /\ out' = IF getopt(words).r = nil THEN out ELSE Append(out, getopt(words).r)
      /\ over' = (getopt(words).r = nil)
  BY <1>1 DEF iter_getopt
<1>6. OptType /\ Begins(Letters, want, out, Left(words))
  BY Zenon, <1>1, NilLoop DEF OptInv, OptSplit
<1>7. /\ ind \in Nat \ {0} /\ rest \in Seq(Letters)
      /\ rest = <<>> => Left(words) = <<>> /\ Options(words, ind) = <<>>
      /\ rest # <<>> => Left(words) = rest \o Options(words, ind + 1)
  BY Zenon, <1>1, <1>2, <1>3, <1>6, LeftRest
<1>8. out \in Seq(Letters)
  BY <1>6 DEF OptType
<1>9. ASSUME rest = <<>>
      PROVE  OptInv'
  <2>1. /\ optind' = ind /\ place' = <<>> /\ out' = out
    <3>1. Len(rest) # 1
      BY <1>9
    <3> QED BY Zenon, <1>4, <1>5, <1>9, <3>1
  <2>2. OptType'
    BY <1>5, <1>6, <1>7, <2>1 DEF OptType
  <2>3. Left(words)' = <<>>
    <3>1. Left(words)' = Options(words, ind)
      BY <1>7, <2>1 DEF Left
    <3> QED BY Zenon, <1>7, <1>9, <3>1
  <2>4. Left(words) = <<>>
    BY Zenon, <1>7, <1>9
  <2>5. out = want
    <3>1. want = out \o <<>>
      BY Zenon, <1>6, <2>4 DEF Begins
    <3> QED BY <1>8, <3>1, ConcatEmptySeq
  <2>6. OptSplit'
    BY Zenon, <1>1, <1>5, <1>6, <2>1, <2>3, <2>4, <2>5 DEF OptSplit
  <2> QED BY Zenon, <2>2, <2>6 DEF OptInv
<1>10. ASSUME rest # <<>>
       PROVE  OptInv'
  <2>1. Head(rest) \in Letters /\ Tail(rest) \in Seq(Letters)
          /\ Append(out, Head(rest)) \in Seq(Letters)
    BY <1>7, <1>8, <1>10
  <2>2. Head(rest) # nil
    BY <2>1, NilLoop
  <2>3. /\ optind' = (IF Len(rest) = 1 THEN ind + 1 ELSE ind)
        /\ place' = Tail(rest) /\ out' = Append(out, Head(rest)) /\ ~over'
    BY Zenon, <1>4, <1>5, <1>10, <2>2
  <2>4. OptType'
    BY <1>5, <1>6, <1>7, <2>1, <2>3 DEF OptType
  <2>5. PICK o \in Seq(Letters) : o = Options(words, ind + 1)
    <3>1. ind + 1 \in Nat \ {0}
      BY <1>7
    <3> QED BY Zenon, <1>1, <3>1, OptionsSeq
  <2>6. Left(words) = rest \o o
    BY Zenon, <1>7, <1>10, <2>5
  <2>7. Begins(Letters, want, Append(out, Head(rest)), Tail(rest) \o o)
    BY Zenon, <1>6, <1>7, <1>8, <1>10, <2>6, BeginsMove
  <2>8. Left(words)' = Tail(rest) \o o
    <3>1. CASE Len(rest) = 1
      <4>1. Tail(rest) = <<>> /\ Tail(rest) \o o = o
        <5>1. Len(Tail(rest)) = 0
          BY <1>7, <1>10, <3>1
        <5>2. Tail(rest) = <<>>
          BY <2>1, <5>1, EmptySeq
        <5> QED BY <5>2, ConcatEmptySeq
      <4>2. optind' = ind + 1 /\ optind' # 0
        BY <1>7, <2>3, <3>1
      <4>3. Left(words)' = Options(words, ind + 1)
        BY Zenon, <2>3, <4>1, <4>2 DEF Left
      <4> QED BY Zenon, <2>5, <4>1, <4>3
    <3>2. CASE Len(rest) # 1
      <4>1. Tail(rest) # <<>>
        <5>1. Len(Tail(rest)) # 0
          BY <1>7, <1>10, <3>2, EmptySeq
        <5> QED BY <5>1, EmptySeq
      <4>2. optind' = ind /\ optind' # 0
        BY <1>7, <2>3, <3>2
      <4>3. Left(words)' = Tail(rest) \o Options(words, ind + 1)
        BY Zenon, <2>3, <4>1, <4>2 DEF Left
      <4> QED BY Zenon, <2>5, <4>3
    <3> QED BY <3>1, <3>2
  <2>9. OptSplit'
    BY Zenon, <1>1, <1>5, <2>3, <2>7, <2>8 DEF OptSplit
  <2> QED BY Zenon, <2>4, <2>9 DEF OptInv
<1> QED BY <1>9, <1>10

\* A step of another loop disturbs it.
LEMMA IterOther ==
    ASSUME OptInv, NEW g \in Loops, iter_getopt(g), owner # g
    PROVE  OptInv'
<1>1. argv[g] \in Argvs
  BY DEF iter_getopt, OptInv, OptType
<1>2. PICK words \in Seq(Seq(Letters)) : words = argv[g]
  BY Zenon, <1>1, ArgvWords
<1>3. PICK ind : ind = IF optind = 0 THEN 1 ELSE optind
  OBVIOUS
<1>4. PICK rest : rest = IF optind # 0 /\ place # <<>> THEN place
                         ELSE IF ind <= Len(words) THEN words[ind] ELSE <<>>
  OBVIOUS
<1>5. /\ getopt(words).optind = IF Len(rest) = 1 THEN ind + 1 ELSE ind
      /\ getopt(words).place = IF rest = <<>> THEN <<>> ELSE Tail(rest)
  BY <1>3, <1>4 DEF getopt
<1>6. /\ optind' = getopt(words).optind /\ place' = getopt(words).place
      /\ owner' = nil /\ out' = <<>> /\ argv' = argv
  BY <1>2 DEF iter_getopt
<1>7. ind \in Nat \ {0} /\ rest \in Seq(Letters)
  BY Zenon, <1>3, <1>4, LeftRest DEF OptInv
<1>8. OptType'
  <2>1. optind' \in Nat
    BY <1>5, <1>6, <1>7
  <2>2. place' \in Seq(Letters)
    BY <1>5, <1>6, <1>7
  <2> QED BY <1>6, <2>1, <2>2 DEF OptInv, OptType
<1> QED BY Zenon, <1>6, <1>8 DEF OptInv, OptSplit

\* OptInv is inductive: the other iterators do not touch getopt.
LEMMA OptStep == OptInv /\ [Next]_vars => OptInv'
<1> SUFFICES ASSUME OptInv, [Next]_vars PROVE OptInv'
  OBVIOUS
<1>1. CASE UNCHANGED optvars
  BY <1>1 DEF optvars, OptInv, OptType, OptSplit, Left
<1>2. CASE DirNext \/ DbNext
  <2>1. UNCHANGED optvars
    BY <1>2 DEF DirNext, Pdir, Pfiles, aux_files, Drop, dir_gc, opendir_fails,
                DbNext, Pendgrent, Psetgrent, Pgetgrent, Pendpwent, Psetpwent,
                Pgetpwent, set_errno, rewind
  <2> QED BY <1>1, <2>1
<1>3. CASE OptNext
  <2>1. PICK g \in Loops :
          \/ iter_getopt(g)
          \/ \E words \in Argvs, first \in {nil, 0, 1, 2}, good \in BOOLEAN :
               Pgetopt(g, words, first, good)
    BY <1>3 DEF OptNext
  <2> QED BY Zenon, <2>1, IterOwn, IterOther, PgetoptInv
<1>4. CASE UNCHANGED vars
  BY <1>1, <1>4 DEF vars
<1> QED BY <1>2, <1>3, <1>4 DEF Next

\* An undisturbed getopt loop yields the options it was asked for in order,
\* and all of them when it ends, however the command line is cut into words
\* and wherever it is told to begin.
THEOREM OptionsInOrder == Spec => []OwnOptions
<1>1. Init => OptInv
  <2>1. ASSUME Init PROVE OptType
    BY <2>1 DEF Init, OptType
  <2>2. ASSUME Init PROVE OptSplit
    BY <2>2 DEF Init, OptSplit
  <2> QED BY <2>1, <2>2 DEF OptInv
<1>2. OptInv => OwnOptions
  <2> SUFFICES ASSUME OptInv, owner # nil PROVE OwnOptions
    BY DEF OwnOptions
  <2>1. PICK z \in Seq(Letters) : want = out \o z
    BY Zenon DEF OptInv, OptSplit, Begins
  <2>2. out \in Seq(Letters)
    BY DEF OptInv, OptType
  <2>3. IsPrefix(out, want)
    BY <2>1, <2>2, ConcatProperties DEF IsPrefix
  <2> QED BY <2>3 DEF OwnOptions, OptInv, OptSplit
<1> QED BY <1>1, <1>2, OptStep, PTL DEF Spec

=============================================================================
