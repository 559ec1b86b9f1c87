--------------------------- MODULE MarshalProofs ---------------------------
(***************************************************************************)
(* Theorems about Marshal, for every width of short, int and long, every   *)
(* struct the system may give and every edit of a table: what was read can *)
(* be written back, nothing of an earlier call gets into a struct, and the *)
(* table of a lock can be used again.                                      *)
(***************************************************************************)
EXTENDS Marshal, TLAPS

-----------------------------------------------------------------------------
(* Numbers that differ by a multiple.                                      *)

Cong(x, y, m) == \E q \in Int : x = y + m * q

LEMMA Remainder ==
    ASSUME NEW n \in Int, NEW m \in Nat \ {0}
    PROVE  n % m \in 0..(m - 1) /\ Cong(n, n % m, m)
<1>1. n % m \in 0..(m-1)
  OBVIOUS
<1>2. n = (n % m) + m * (n \div m) /\ n \div m \in Int
  OBVIOUS
<1> QED BY <1>1, <1>2 DEF Cong

\* Only one of them is within m numbers in a row.
LEMMA OnlyOne ==
    ASSUME NEW x \in Int, NEW y \in Int, NEW m \in Nat \ {0}, NEW lo \in Int,
           lo <= x, x < lo + m, lo <= y, y < lo + m, Cong(x, y, m)
    PROVE  x = y
<1>1. PICK q \in Int : x = y + m * q
  BY DEF Cong
<1>2. PICK d \in Int : d = m * q
  OBVIOUS
<1>3. (q >= 1 => d >= m) /\ (q <= -1 => d <= -m) /\ (q = 0 => d = 0)
  <2>1. q >= 1 => m * q >= m
    OBVIOUS
  <2>2. q <= -1 => m * q <= -m
    OBVIOUS
  <2>3. q = 0 => m * q = 0
    OBVIOUS
  <2> QED BY <1>2, <2>1, <2>2, <2>3
<1> QED BY <1>1, <1>2, <1>3

LEMMA CongTrans ==
    ASSUME NEW x \in Int, NEW y \in Int, NEW z \in Int, NEW m \in Nat, NEW k \in Nat,
           Cong(x, y, m * k), Cong(y, z, m)
    PROVE  Cong(x, z, m)
<1>1. PICK q \in Int : x = y + (m * k) * q
  BY DEF Cong
<1>2. PICK r \in Int : y = z + m * r
  BY DEF Cong
<1>3. PICK s \in Int : s = k * q + r
  OBVIOUS
<1>4. m * s = (m * k) * q + m * r
  BY <1>3
<1>5. /\ (m * k) * q \in Int /\ m * r \in Int
  OBVIOUS
<1>6. x = z + m * s
  BY <1>1, <1>2, <1>4, <1>5
<1> QED BY <1>6 DEF Cong

-----------------------------------------------------------------------------
(* The types of C.                                                         *)

Types == {"short", "ushort", "int", "uint", "long", "ulong"}

Bits(type) ==
    CASE type \in {"short", "ushort"} -> ShortBits
      [] type \in {"int", "uint"}     -> IntBits
      [] type \in {"long", "ulong"}   -> LongBits

\* Half of the numbers of a signed type are negative.
LEMMA Halves ==
    ASSUME NEW w \in {ShortBits, IntBits, LongBits}
    PROVE  2^w \in Nat \ {0} /\ 2^(w - 1) \in Nat \ {0} /\ 2^w = 2 * 2^(w - 1)
<1>1. w \in 0..LongBits /\ w \in 1..LongBits /\ w - 1 \in 0..LongBits
  BY MarshalAssumption
<1> QED BY <1>1, PowersOfTwo

LEMMA Ranges ==
    ASSUME NEW type \in Types
    PROVE  /\ Bits(type) \in {ShortBits, IntBits, LongBits}
           /\ 2^Bits(type) \in Nat \ {0}
           /\ Least(type) \in Int /\ Greatest(type) \in Int
           /\ Least(type) <= 0 /\ 0 <= Greatest(type)
           /\ Greatest(type) = Least(type) + 2^Bits(type) - 1
<1>1. Bits(type) \in {ShortBits, IntBits, LongBits}
  BY DEF Types, Bits
<1>2. CASE type = "short"
  <2>1. /\ Bits(type) = ShortBits /\ Least(type) = -2^(ShortBits - 1)
        /\ Greatest(type) = 2^(ShortBits - 1) - 1
    BY <1>2 DEF Bits, Least, Greatest
  <2> QED BY <1>1, <2>1, Halves
<1>3. CASE type = "ushort"
  <2>1. /\ Bits(type) = ShortBits /\ Least(type) = 0
        /\ Greatest(type) = 2^ShortBits - 1
    BY <1>3 DEF Bits, Least, Greatest
  <2> QED BY <1>1, <2>1, Halves
<1>4. CASE type = "int"
  <2>1. /\ Bits(type) = IntBits /\ Least(type) = -2^(IntBits - 1)
        /\ Greatest(type) = 2^(IntBits - 1) - 1
    BY <1>4 DEF Bits, Least, Greatest
  <2> QED BY <1>1, <2>1, Halves
<1>5. CASE type = "uint"
  <2>1. /\ Bits(type) = IntBits /\ Least(type) = 0
        /\ Greatest(type) = 2^IntBits - 1
    BY <1>5 DEF Bits, Least, Greatest
  <2> QED BY <1>1, <2>1, Halves
<1>6. CASE type = "long"
  <2>1. /\ Bits(type) = LongBits /\ Least(type) = -2^(LongBits - 1)
        /\ Greatest(type) = 2^(LongBits - 1) - 1
    BY <1>6 DEF Bits, Least, Greatest
  <2> QED BY <1>1, <2>1, Halves
<1>7. CASE type = "ulong"
  <2>1. /\ Bits(type) = LongBits /\ Least(type) = 0
        /\ Greatest(type) = 2^LongBits - 1
    BY <1>7 DEF Bits, Least, Greatest
  <2> QED BY <1>1, <2>1, Halves
<1> QED BY <1>2, <1>3, <1>4, <1>5, <1>6, <1>7 DEF Types

LEMMA SignedIs ==
    ASSUME NEW n \in Int, NEW w \in {ShortBits, IntBits, LongBits}
    PROVE  /\ Signed(n, w) \in -2^(w - 1)..(2^(w - 1) - 1)
           /\ Cong(n, Signed(n, w), 2^w)
<1>1. PICK h \in Nat \ {0} : h = 2^(w - 1)
  BY Halves
<1>2. PICK m \in Nat \ {0} : m = 2^w /\ m = 2 * h
  BY <1>1, Halves
<1>3. PICK x \in Int : x = n + h
  OBVIOUS
<1>4. PICK r \in 0..(m - 1) : r = x % m /\ Cong(x, r, m)
  BY Remainder
<1>5. PICK q \in Int : n + h = r + m * q
  BY <1>3, <1>4 DEF Cong
<1>6. m * q \in Int
  OBVIOUS
<1>7. n = (r - h) + m * q
  BY <1>5, <1>6
<1>8. Signed(n, w) = r - h
  BY <1>1, <1>2, <1>3, <1>4 DEF Signed
<1> QED BY <1>1, <1>2, <1>7, <1>8 DEF Cong

\* An assignment gives the value of the type that differs by a multiple of
\* the number of its values.
LEMMA ToIs ==
    ASSUME NEW type \in Types, NEW n \in Int
    PROVE  /\ To(type, n) \in Least(type)..Greatest(type)
           /\ Cong(n, To(type, n), 2^Bits(type))
<1>1. CASE type = "short"
  <2>1. /\ Bits(type) = ShortBits /\ Least(type) = -2^(ShortBits - 1)
        /\ Greatest(type) = 2^(ShortBits - 1) - 1 /\ To(type, n) = Signed(n, ShortBits)
    BY <1>1 DEF Bits, Least, Greatest, To
  <2> QED BY <2>1, SignedIs
<1>2. CASE type = "int"
  <2>1. /\ Bits(type) = IntBits /\ Least(type) = -2^(IntBits - 1)
        /\ Greatest(type) = 2^(IntBits - 1) - 1 /\ To(type, n) = Signed(n, IntBits)
    BY <1>2 DEF Bits, Least, Greatest, To
  <2> QED BY <2>1, SignedIs
<1>3. CASE type = "long"
  <2>1. /\ Bits(type) = LongBits /\ Least(type) = -2^(LongBits - 1)
        /\ Greatest(type) = 2^(LongBits - 1) - 1 /\ To(type, n) = Signed(n, LongBits)
    BY <1>3 DEF Bits, Least, Greatest, To
  <2> QED BY <2>1, SignedIs
<1>4. CASE type \in {"ushort", "uint", "ulong"}
  <2>1. PICK m \in Nat \ {0} : m = 2^Bits(type)
    BY Ranges
  <2>2. Least(type) = 0 /\ Greatest(type) = m - 1
    BY <1>4, <2>1 DEF Least, Greatest, Bits
  <2>3. To(type, n) = n % m
    BY <1>4, <2>1 DEF To, Unsigned, Bits
  <2> QED BY <2>1, <2>2, <2>3, Remainder
<1> QED BY <1>1, <1>2, <1>3, <1>4 DEF Types

LEMMA Divides ==
    ASSUME NEW type \in Types, NEW through \in Types, Bits(type) <= Bits(through)
    PROVE  \E k \in Nat : 2^Bits(through) = 2^Bits(type) * k
<1>1. Bits(type) \in 0..LongBits /\ Bits(through) \in 0..LongBits
  BY Ranges, MarshalAssumption
<1>2. Bits(through) - Bits(type) \in 0..LongBits
  BY <1>1, MarshalAssumption
<1> QED BY <1>1, <1>2, PowersOfTwo

\* On the way from Lua to a field nothing is lost that the field can hold.
LEMMA TakenThrough ==
    ASSUME NEW type \in Types, NEW through \in Types, Bits(type) <= Bits(through),
           NEW n \in Int
    PROVE  /\ To(type, To(through, n)) \in Least(type)..Greatest(type)
           /\ Cong(n, To(type, To(through, n)), 2^Bits(type))
<1>1. PICK t \in Int : t = To(through, n) /\ Cong(n, t, 2^Bits(through))
  BY ToIs, Ranges
<1>2. PICK k \in Nat : 2^Bits(through) = 2^Bits(type) * k
  BY Divides
<1>3. /\ To(type, t) \in Least(type)..Greatest(type) /\ To(type, t) \in Int
      /\ Cong(t, To(type, t), 2^Bits(type))
  BY ToIs, Ranges
<1>4. 2^Bits(type) \in Nat
  BY Ranges
<1>5. Cong(n, To(type, t), 2^Bits(type))
  BY <1>1, <1>2, <1>3, <1>4, CongTrans
<1> QED BY <1>1, <1>3, <1>5

LEMMA SameInRange ==
    ASSUME NEW type \in Types, NEW n \in Least(type)..Greatest(type),
           NEW v \in Least(type)..Greatest(type), Cong(n, v, 2^Bits(type))
    PROVE  n = v
<1>1. /\ Least(type) \in Int /\ Greatest(type) \in Int
      /\ 2^Bits(type) \in Nat \ {0}
      /\ Greatest(type) = Least(type) + 2^Bits(type) - 1
  BY Ranges
<1>2. n \in Int /\ v \in Int /\ n < Least(type) + 2^Bits(type)
      /\ v < Least(type) + 2^Bits(type)
  BY <1>1
<1> QED BY <1>1, <1>2, OnlyOne

\* A value that fits a field comes back from Lua.
LEMMA FitsComesBack ==
    ASSUME NEW type \in Types, NEW through \in Types, Bits(type) <= Bits(through),
           NEW n \in Least(type)..Greatest(type)
    PROVE  To(type, To(through, n)) = n
<1>1. n \in Int
  BY Ranges
<1> QED BY <1>1, TakenThrough, SameInRange

LEMMA ReadComesBack ==
    ASSUME NEW type \in Types, NEW through \in Types, Bits(type) <= Bits(through),
           NEW n \in Least(type)..Greatest(type)
    PROVE  To(type, To(through, To("long", n))) = n
<1>1. n \in Int /\ "long" \in Types /\ Bits(type) <= Bits("long")
  BY Ranges, MarshalAssumption DEF Types, Bits
<1>2. PICK l \in Int : l = To("long", n) /\ Cong(n, l, 2^Bits("long"))
  BY <1>1, ToIs, Ranges
<1>3. PICK k \in Nat : 2^Bits("long") = 2^Bits(type) * k
  BY <1>1, Divides
<1>4. PICK v \in Int : /\ v = To(type, To(through, l))
                       /\ v \in Least(type)..Greatest(type)
                       /\ Cong(l, v, 2^Bits(type))
  BY TakenThrough, Ranges
<1>5. Cong(n, v, 2^Bits(type))
  BY <1>1, <1>2, <1>3, <1>4, Ranges, CongTrans
<1> QED BY <1>2, <1>4, <1>5, SameInRange

-----------------------------------------------------------------------------
(* The kinds.                                                              *)

\* A field comes from the table through a type that is at least as wide,
\* unless the table does not have it.
Sound(field) ==
    field.through \notin {"zero", "stack"} =>
        /\ field.type \in Types /\ field.through \in Types
        /\ Bits(field.type) <= Bits(field.through)
        /\ field.need \in BOOLEAN

\* A table that the system has given has no name that is refused.
Returnable(k) == k.strict => k.shown \subseteq k.allowed

LEMMA SoundFields ==
    ASSUME NEW type \in Types, NEW through \in {"int", "long"},
           through = "int" => type \notin {"long", "ulong"}
    PROVE  Sound(opt(type, through)) /\ Sound(check(type, through))
BY MarshalAssumption DEF Sound, opt, check, Types, Bits

LEMMA UnnamedFields ==
    ASSUME NEW type
    PROVE  Sound(cleared(type)) /\ Sound(stale(type))
BY DEF Sound, cleared, stale

LEMMA SoundKinds ==
    ASSUME NEW k \in Kinds
    PROVE  /\ \A f \in DOMAIN k.fields : Sound(k.fields[f])
           /\ k # msqid => Returnable(k)
<1> USE SoundFields, UnnamedFields DEF Kind, Returnable, Types
<1> HIDE DEF Sound, opt, check, cleared, stale
<1>1. CASE k = timespec
  BY <1>1 DEF timespec
<1>2. CASE k = tm
  BY <1>2 DEF tm
<1>3. CASE k = winsize
  BY <1>3 DEF winsize
<1>4. CASE k = termios
  BY <1>4 DEF termios
<1>5. CASE k = rlimit
  BY <1>5 DEF rlimit
<1>6. CASE k = msqid
  BY <1>6 DEF msqid
<1>7. CASE k = sockaddr_in
  BY <1>7 DEF sockaddr_in
<1>8. CASE k = sockaddr_in6
  BY <1>8 DEF sockaddr_in6
<1>9. CASE k = sockaddr_un
  BY <1>9 DEF sockaddr_un
<1>10. CASE k = sockaddr_nl
  BY <1>10 DEF sockaddr_nl
<1>11. CASE k = sockaddr_ll
  BY <1>11 DEF sockaddr_ll
<1> QED
  BY <1>1, <1>2, <1>3, <1>4, <1>5, <1>6, <1>7, <1>8, <1>9, <1>10, <1>11 DEF Kinds

-----------------------------------------------------------------------------
(* Tables and structs.                                                     *)

\* The table holds numbers, or what the program has put in their place, and a
\* table that was not edited is what push has made.
TableInv ==
    /\ kind \in Kinds
    /\ tbl # nil => \A f \in DOMAIN tbl : tbl[f] \in Int \cup {bad}
    /\ base # nil => base \in Structs(kind) /\ tbl = push(kind, base)

\* The names of a table that the system gives.
Given(k, s) == (IF Unnamed(k, s) THEN {} ELSE Named(k)) \cup k.shown

\* A struct that the system gives, as a table.
Pushed(k, s, t) ==
    /\ DOMAIN t = Given(k, s)
    /\ \A f \in DOMAIN t : t[f] \in Int
    /\ \A f \in Named(k) :
         /\ f \in DOMAIN t => t[f] = To("long", s[f])
         /\ s[f] \in Least(k.fields[f].type)..Greatest(k.fields[f].type)

LEMMA NamedFields ==
    ASSUME NEW k \in Kinds, NEW f \in Named(k)
    PROVE  /\ f \in DOMAIN k.fields
           /\ k.fields[f].type \in Types /\ k.fields[f].through \in Types
           /\ Bits(k.fields[f].type) <= Bits(k.fields[f].through)
<1>1. f \in DOMAIN k.fields /\ k.fields[f].through \notin {"zero", "stack"}
  BY DEF Named
<1>2. Sound(k.fields[f])
  BY <1>1, SoundKinds
<1> QED BY <1>1, <1>2 DEF Sound

LEMMA PushIs ==
    ASSUME NEW k \in Kinds, NEW s \in Structs(k)
    PROVE  Pushed(k, s, push(k, s))
<1> DEFINE t == push(k, s)
<1>1. \A f \in Named(k) :
        s[f] \in Least(k.fields[f].type)..Greatest(k.fields[f].type)
  BY StructAssumption, NamedFields
<1>2. ASSUME NEW f \in Named(k) PROVE To("long", s[f]) \in Int
  <2>1. k.fields[f].type \in Types /\ "long" \in Types
    BY NamedFields DEF Types
  <2>2. s[f] \in Int
    BY <1>1, <2>1, Ranges
  <2> QED BY <2>1, <2>2, ToIs, Ranges
<1>3. /\ DOMAIN t = Given(k, s)
      /\ \A f \in DOMAIN t :
           t[f] = IF f \in Named(k) THEN To("long", s[f]) ELSE 0
  BY DEF push, Given
<1> HIDE DEF t
<1>4. Pushed(k, s, t)
  BY <1>1, <1>2, <1>3 DEF Pushed
<1> QED BY <1>4 DEF t

LEMMA InitTable == Init => TableInv
BY DEF Init, TableInv

LEMMA NextTable == TableInv /\ [Next]_vars => TableInv'
<1> SUFFICES ASSUME TableInv, [Next]_vars PROVE TableInv'
  OBVIOUS
<1>1. CASE UNCHANGED <<kind, tbl, base>>
  BY <1>1 DEF TableInv, push
<1>2. ASSUME NEW s \in Structs(kind), Get(s) PROVE TableInv'
  <2>1. kind' = kind /\ tbl' = push(kind, s) /\ base' = s /\ kind \in Kinds
    BY <1>2 DEF Get, TableInv
  <2>2. \A f \in DOMAIN tbl' : tbl'[f] \in Int
    <3>1. Pushed(kind, s, tbl')
      BY <2>1, PushIs
    <3> QED BY <3>1 DEF Pushed
  <2> QED BY <2>1, <2>2 DEF TableInv, push
<1>3. CASE Edit
  <2>1. kind' = kind /\ base' = nil /\ tbl # nil
    BY <1>3 DEF Edit
  <2>2. ASSUME NEW f, NEW v \in Int \cup {bad}, tbl' = Change(f, v)
        PROVE  \A g \in DOMAIN tbl' : tbl'[g] \in Int \cup {bad}
    BY <2>1, <2>2 DEF Change, TableInv
  <2>3. \A g \in DOMAIN tbl' : tbl'[g] \in Int \cup {bad}
    <3>1. CASE \E f \in Named(kind), v \in Edits : tbl' = Change(f, v)
      BY <2>2, <3>1, MarshalAssumption
    <3>2. CASE tbl' = Change("typo", 0)
      BY <2>2, <3>2
    <3>3. CASE \E f \in DOMAIN tbl : tbl' = [g \in DOMAIN tbl \ {f} |-> tbl[g]]
      BY <2>1, <3>3 DEF TableInv
    <3> QED BY <1>3, <3>1, <3>2, <3>3 DEF Edit
  <2> QED BY <2>1, <2>3 DEF TableInv
<1>4. Set \/ NewLock \/ Pfcntl \/ UNCHANGED vars => UNCHANGED <<kind, tbl, base>>
  BY DEF Set, NewLock, Pfcntl, vars
<1> QED BY <1>1, <1>2, <1>3, <1>4 DEF Next

\* A field is taken as the program asks for it, if it fits.
LEMMA TakeExact ==
    ASSUME TableInv, tbl # nil, NEW f \in Named(kind), checkfieldtype(f)
    PROVE  /\ Asked(f) \in Int /\ take(f) \in Int /\ Asked(f) # bad
           /\ To(kind.fields[f].type, Asked(f)) = Asked(f) => take(f) = Asked(f)
<1>1. PICK type \in Types, through \in Types :
        /\ type = kind.fields[f].type /\ through = kind.fields[f].through
        /\ Bits(type) <= Bits(through)
  BY NamedFields DEF TableInv
<1>2. CASE f \notin DOMAIN tbl
  BY <1>2, MarshalAssumption DEF take, Asked
<1>3. CASE f \in DOMAIN tbl
  <2>1. PICK n \in Int : n = tbl[f] /\ n = Asked(f) /\ n # bad
    BY <1>3, MarshalAssumption DEF TableInv, checkfieldtype, Asked
  <2>2. take(f) = To(type, To(through, n))
    BY <1>1, <1>3, <2>1 DEF take
  <2>3. take(f) \in Int
    BY <1>1, <2>2, TakenThrough, Ranges
  <2>4. ASSUME To(type, n) = n PROVE take(f) = n
    <3>1. n \in Least(type)..Greatest(type)
      BY <2>4, ToIs
    <3> QED BY <1>1, <2>2, <3>1, FitsComesBack
  <2> QED BY <1>1, <2>1, <2>3, <2>4
<1> QED BY <1>2, <1>3

\* What a table that was not edited gives.
LEMMA TakeBack ==
    ASSUME TableInv, base # nil, ~Unnamed(kind, base)
    PROVE  /\ DOMAIN tbl = Named(kind) \cup kind.shown
           /\ \A f \in Named(kind) : take(f) = base[f] /\ checkfieldtype(f)
           /\ family(kind) \subseteq DOMAIN tbl
           /\ kind # msqid => checkfieldnames
<1>1. kind \in Kinds /\ base \in Structs(kind) /\ tbl = push(kind, base)
  BY DEF TableInv
<1>2. /\ DOMAIN tbl = Named(kind) \cup kind.shown
      /\ \A f \in DOMAIN tbl : tbl[f] \in Int
      /\ \A f \in Named(kind) :
           /\ tbl[f] = To("long", base[f])
           /\ base[f] \in Least(kind.fields[f].type)..Greatest(kind.fields[f].type)
  <2>1. Pushed(kind, base, tbl)
    BY <1>1, PushIs
  <2> QED BY <2>1 DEF Pushed, Given
<1>3. ASSUME NEW f \in Named(kind) PROVE take(f) = base[f] /\ checkfieldtype(f)
  <2>1. PICK type \in Types, through \in Types :
          /\ type = kind.fields[f].type /\ through = kind.fields[f].through
          /\ Bits(type) <= Bits(through)
    BY <1>1, NamedFields
  <2>2. f \in DOMAIN tbl /\ tbl[f] # bad
    BY <1>2, MarshalAssumption
  <2>3. To(type, To(through, To("long", base[f]))) = base[f]
    BY <1>2, <2>1, ReadComesBack
  <2> QED BY <1>2, <2>1, <2>2, <2>3 DEF take, checkfieldtype
<1>4. family(kind) \subseteq DOMAIN tbl
  BY <1>2 DEF family
<1>5. kind # msqid => checkfieldnames
  BY <1>1, <1>2, SoundKinds DEF checkfieldnames, Returnable
<1> QED BY <1>2, <1>3, <1>4, <1>5

\* The two tables that are refused.
LEMMA Refused ==
    ASSUME TableInv, base # nil, kind = msqid \/ Unnamed(kind, base)
    PROVE  checkfieldnames => \E f \in Named(kind) : ~checkfieldtype(f)
<1>1. CASE Unnamed(kind, base)
  <2>1. Pushed(kind, base, tbl)
    BY PushIs DEF TableInv
  <2>2. DOMAIN tbl = kind.shown /\ kind = sockaddr_un
    BY <1>1, <2>1 DEF Pushed, Given, Unnamed
  <2>3. "path" \notin DOMAIN tbl
    BY <2>2 DEF sockaddr_un, Kind
  <2>4. "path" \in Named(kind) /\ kind.fields["path"].need
    BY <2>2 DEF sockaddr_un, Kind, Named, check
  <2> QED BY <2>3, <2>4 DEF checkfieldtype
<1>2. CASE kind = msqid /\ ~Unnamed(kind, base)
  <2>1. DOMAIN tbl = Named(kind) \cup kind.shown
    BY <1>2, TakeBack
  <2>2. "msg_qnum" \in DOMAIN tbl
    BY <1>2, <2>1 DEF msqid, Kind
  <2>3. kind.strict /\ "msg_qnum" \notin Named(kind) \cup kind.allowed
    BY <1>2 DEF msqid, Kind, Named
  <2> QED BY <2>2, <2>3 DEF checkfieldnames
<1> QED BY <1>1, <1>2

-----------------------------------------------------------------------------
(* The speeds of a terminal.                                               *)

LEMMA SpeedBound ==
    /\ 2^SpeedBits \in Nat \ {0} /\ MaxSpeed \in Nat
    /\ MaxSpeed <= Greatest("uint")
<1>1. SpeedBits \in 0..LongBits /\ IntBits \in 0..LongBits /\ SpeedBits <= IntBits
      /\ IntBits - SpeedBits \in 0..LongBits
  BY MarshalAssumption
<1>2. PICK m \in Nat \ {0}, k \in Nat \ {0}, n \in Nat \ {0} :
        m = 2^SpeedBits /\ k = 2^(IntBits - SpeedBits) /\ n = 2^IntBits
  BY <1>1, PowersOfTwo
<1>3. n = m * k
  BY <1>1, <1>2, PowersOfTwo
<1>4. m <= m * k
  OBVIOUS
<1>5. Greatest("uint") = n - 1 /\ MaxSpeed = m - 1
  BY <1>2 DEF Greatest, MaxSpeed
<1> QED BY <1>2, <1>3, <1>4, <1>5

\* A speed takes the place of the one in the flags.
LEMMA SpeedSet ==
    ASSUME NEW c \in Int, NEW v \in 0..MaxSpeed
    PROVE  /\ speed(c) \in 0..MaxSpeed
           /\ SetSpeed(c, v) \in Int
           /\ speed(SetSpeed(c, v)) = v
           /\ SetSpeed(c, v) - speed(SetSpeed(c, v)) = c - speed(c)
           /\ v = speed(c) => SetSpeed(c, v) = c
<1>1. PICK m \in Nat \ {0} : m = 2^SpeedBits /\ MaxSpeed = m - 1
  BY SpeedBound DEF MaxSpeed
<1>2. PICK r \in 0..(m - 1) : r = speed(c) /\ Cong(c, r, m)
  BY <1>1, Remainder DEF speed
<1>3. PICK d \in Int : d = SetSpeed(c, v) /\ d = (c - r) + v
  BY <1>1, <1>2 DEF SetSpeed
<1>4. PICK q \in 0..(m - 1) : q = speed(d) /\ Cong(d, q, m)
  BY <1>1, Remainder DEF speed
<1>5. PICK i \in Int : c = r + m * i
  BY <1>2 DEF Cong
<1>6. PICK j \in Int : d = q + m * j
  BY <1>4 DEF Cong
<1>7. PICK a \in Int, b \in Int : a = m * i /\ b = m * j
  OBVIOUS
<1> m * (j - i) = b - a
  BY <1>7
<1>8. v = q + m * (j - i)
  <2>1. v \in Int /\ r \in Int /\ q \in Int
    BY <1>1
  <2>2. c = r + a /\ d = q + b /\ d = (c - r) + v
    BY <1>3, <1>5, <1>6, <1>7
  <2> QED BY <2>1, <2>2
<1>9. v \in Int /\ q \in Int /\ 0 <= v /\ v < 0 + m /\ 0 <= q /\ q < 0 + m
  BY <1>1
<1>10. v = q
  BY <1>8, <1>9, OnlyOne DEF Cong
<1> QED BY <1>1, <1>2, <1>3, <1>4, <1>9, <1>10

\* A struct of a terminal, as far as its speeds go.
Flags(t) ==
    /\ DOMAIN t = DOMAIN termios.fields
    /\ t.cflag \in Int

LEMMA TermiosFields ==
    /\ DOMAIN termios.fields = {"iflag", "oflag", "cflag", "lflag", "ispeed",
                                "ospeed", "cc", "line"}
    /\ Named(termios) = DOMAIN termios.fields \ {"line"}
    /\ Cleared(termios) = {}
    /\ \A f \in {"cflag", "ispeed", "ospeed"} : termios.fields[f].type = "uint"
<1>1. DOMAIN termios.fields = {"iflag", "oflag", "cflag", "lflag", "ispeed",
                               "ospeed", "cc", "line"}
  BY DEF termios, Kind
<1>2. /\ termios.fields.iflag = opt("uint", "int")
      /\ termios.fields.oflag = opt("uint", "int")
      /\ termios.fields.cflag = opt("uint", "int")
      /\ termios.fields.lflag = opt("uint", "int")
      /\ termios.fields.ispeed = opt("uint", "int")
      /\ termios.fields.ospeed = opt("uint", "int")
      /\ termios.fields.cc = check("ushort", "int")
      /\ termios.fields.line = stale("ushort")
  BY DEF termios, Kind
<1>3. \A f \in DOMAIN termios.fields :
        termios.fields[f].through = IF f = "line" THEN "stack" ELSE "int"
  BY <1>1, <1>2 DEF opt, check, stale
<1> QED BY <1>1, <1>2, <1>3 DEF Named, Cleared, opt

LEMMA ISpeedSet ==
    ASSUME NEW t, Flags(t), NEW v \in Int
    PROVE  LET g == cfsetispeed(t, v)
           IN /\ Flags(g)
              /\ \A f \in DOMAIN t \ {"cflag", "ispeed"} : g[f] = t[f]
              /\ v \in 0..MaxSpeed => g.ispeed = v
              /\ g.cflag - speed(g.cflag) = t.cflag - speed(t.cflag)
              /\ v = speed(t.cflag) => g.cflag = t.cflag
<1> DEFINE g == cfsetispeed(t, v)
<1>1. CASE v \notin 0..MaxSpeed
  <2>1. g = t
    BY <1>1 DEF cfsetispeed
  <2> QED BY <1>1, <2>1
<1>2. CASE v \in 0..MaxSpeed
  <2> DEFINE c == IF v = 0 THEN t.cflag ELSE SetSpeed(t.cflag, v)
  <2>1. g = [t EXCEPT !.ispeed = v, !.cflag = c]
    BY <1>2 DEF cfsetispeed
  <2>2. /\ c \in Int /\ c - speed(c) = t.cflag - speed(t.cflag)
        /\ v = speed(t.cflag) => c = t.cflag
    BY <1>2, SpeedSet DEF Flags
  <2> HIDE DEF g, c
  <2>3. /\ DOMAIN g = DOMAIN t /\ g.ispeed = v /\ g.cflag = c
        /\ \A f \in DOMAIN t \ {"cflag", "ispeed"} : g[f] = t[f]
    BY <2>1, TermiosFields DEF Flags
  <2>4. Flags(g)
    BY <2>2, <2>3 DEF Flags
  <2> QED BY <2>2, <2>3, <2>4 DEF g
<1> QED BY <1>1, <1>2

LEMMA OSpeedSet ==
    ASSUME NEW t, Flags(t), NEW v \in Int
    PROVE  LET g == cfsetospeed(t, v)
           IN /\ Flags(g)
              /\ \A f \in DOMAIN t \ {"cflag", "ospeed"} : g[f] = t[f]
              /\ v \in 0..MaxSpeed => g.ospeed = v /\ speed(g.cflag) = v
              /\ g.cflag - speed(g.cflag) = t.cflag - speed(t.cflag)
              /\ v = speed(t.cflag) => g.cflag = t.cflag
<1> DEFINE g == cfsetospeed(t, v)
<1>1. CASE v \notin 0..MaxSpeed
  <2>1. g = t
    BY <1>1 DEF cfsetospeed
  <2> QED BY <1>1, <2>1
<1>2. CASE v \in 0..MaxSpeed
  <2> DEFINE c == SetSpeed(t.cflag, v)
  <2>1. g = [t EXCEPT !.ospeed = v, !.cflag = c]
    BY <1>2 DEF cfsetospeed
  <2>2. /\ c \in Int /\ c - speed(c) = t.cflag - speed(t.cflag)
        /\ speed(c) = v
        /\ v = speed(t.cflag) => c = t.cflag
    BY <1>2, SpeedSet DEF Flags
  <2> HIDE DEF g, c
  <2>3. /\ DOMAIN g = DOMAIN t /\ g.ospeed = v /\ g.cflag = c
        /\ \A f \in DOMAIN t \ {"cflag", "ospeed"} : g[f] = t[f]
    BY <2>1, TermiosFields DEF Flags
  <2>4. Flags(g)
    BY <2>2, <2>3 DEF Flags
  <2>5. /\ v \in 0..MaxSpeed => g.ospeed = v /\ speed(g.cflag) = v
        /\ g.cflag - speed(g.cflag) = t.cflag - speed(t.cflag)
        /\ v = speed(t.cflag) => g.cflag = t.cflag
    BY <2>2, <2>3
  <2> QED BY <2>3, <2>4, <2>5 DEF g
<1> QED BY <1>1, <1>2

\* What tcsetattr makes of a struct: speeds that are taken are set, the speed
\* of output is in the flags, and nothing else is changed.
LEMMA TermiosSet ==
    ASSUME NEW t, Flags(t), t.ispeed \in Int, t.ospeed \in Int, NEW junk
    PROVE  LET g == settermios(t, junk)
           IN /\ \A f \in DOMAIN termios.fields \ {"cflag", "ispeed", "ospeed"} :
                   g[f] = t[f]
              /\ t.ispeed \in 0..MaxSpeed => g.ispeed = t.ispeed
              /\ t.ospeed \in 0..MaxSpeed => /\ g.ospeed = t.ospeed
                                             /\ speed(g.cflag) = t.ospeed
              /\ g.cflag - speed(g.cflag) = t.cflag - speed(t.cflag)
              /\ t.ispeed = speed(t.cflag) /\ t.ospeed = speed(t.cflag) =>
                   g.cflag = t.cflag
<1> DEFINE u == [t EXCEPT !.ispeed = To("uint", junk), !.ospeed = To("uint", junk)]
           i == cfsetispeed(u, t.ispeed)
           o == cfsetospeed(i, t.ospeed)
<1>1. /\ DOMAIN u = DOMAIN t /\ u.cflag = t.cflag
      /\ \A f \in DOMAIN t \ {"ispeed", "ospeed"} : u[f] = t[f]
  BY TermiosFields DEF Flags
<1> HIDE DEF u
<1>2. Flags(u)
  BY <1>1 DEF Flags
<1>3. /\ Flags(i)
      /\ \A f \in DOMAIN u \ {"cflag", "ispeed"} : i[f] = u[f]
      /\ t.ispeed \in 0..MaxSpeed => i.ispeed = t.ispeed
      /\ i.cflag - speed(i.cflag) = u.cflag - speed(u.cflag)
      /\ t.ispeed = speed(u.cflag) => i.cflag = u.cflag
  BY <1>2, ISpeedSet
<1> HIDE DEF i
<1>4. /\ Flags(o)
      /\ \A f \in DOMAIN i \ {"cflag", "ospeed"} : o[f] = i[f]
      /\ t.ospeed \in 0..MaxSpeed => o.ospeed = t.ospeed /\ speed(o.cflag) = t.ospeed
      /\ o.cflag - speed(o.cflag) = i.cflag - speed(i.cflag)
      /\ t.ospeed = speed(i.cflag) => o.cflag = i.cflag
  BY <1>3, OSpeedSet
<1> HIDE DEF o
<1>5. DOMAIN i = DOMAIN termios.fields /\ DOMAIN u = DOMAIN termios.fields
      /\ "ispeed" \in DOMAIN i
  BY <1>2, <1>3, TermiosFields DEF Flags
<1>6. o.ispeed = i.ispeed
  BY <1>4, <1>5
<1>7. \A f \in DOMAIN termios.fields \ {"cflag", "ispeed", "ospeed"} : o[f] = t[f]
  BY <1>1, <1>3, <1>4, <1>5
<1>8. o = settermios(t, junk)
  BY DEF settermios, u, i, o
<1> QED BY <1>1, <1>3, <1>4, <1>6, <1>7, <1>8

-----------------------------------------------------------------------------
(* What the system is given.                                               *)

\* A speed that is asked for is taken, if it is one.
LEMMA SpeedTaken ==
    ASSUME TableInv, tbl # nil, kind = termios, NEW f \in {"ispeed", "ospeed"},
           checkfieldtype(f), Asked(f) \in 0..MaxSpeed
    PROVE  take(f) = Asked(f)
<1>1. f \in Named(kind) /\ kind.fields[f].type = "uint"
  BY TermiosFields
<1>2. "uint" \in Types /\ Least("uint") = 0
  BY DEF Types, Least
<1>3. Asked(f) \in Least("uint")..Greatest("uint")
  BY <1>2, SpeedBound, Ranges
<1>4. Asked(f) \in Int /\ To("uint", Asked(f)) \in Least("uint")..Greatest("uint")
      /\ Cong(Asked(f), To("uint", Asked(f)), 2^Bits("uint"))
  BY <1>2, <1>3, ToIs
<1>5. To("uint", Asked(f)) = Asked(f)
  BY <1>2, <1>3, <1>4, SameInRange
<1> QED BY <1>1, <1>5, TakeExact

\* A call that succeeds gives a struct that was made from the table.
LEMMA SetIs ==
    ASSUME TableInv, Set, ret' = "ok"
    PROVE  /\ \A f \in Named(kind) : checkfieldtype(f)
           /\ \A f \in Named(kind) \ Speeds(kind) : given'[f] = take(f)
           /\ \A f \in Cleared(kind) : given'[f] = 0
           /\ kind = termios =>
                /\ \A f \in {"ispeed", "ospeed"} :
                     take(f) \in 0..MaxSpeed => given'[f] = take(f)
                /\ take("ospeed") \in 0..MaxSpeed =>
                     speed(given'.cflag) = take("ospeed")
                /\ given'.cflag - speed(given'.cflag)
                     = take("cflag") - speed(take("cflag"))
                /\ take("ispeed") = speed(take("cflag"))
                     /\ take("ospeed") = speed(take("cflag")) =>
                   given'.cflag = take("cflag")
<1>1. /\ tbl # nil /\ kind \in Kinds
      /\ \A f \in Named(kind) : checkfieldtype(f)
  BY DEF Set, TableInv
<1>2. PICK junk :
        given' = IF kind = termios THEN settermios(struct(junk), junk)
                 ELSE struct(junk)
  BY DEF Set
<1> DEFINE s == struct(junk)
<1>3. /\ DOMAIN s = DOMAIN kind.fields
      /\ \A f \in Named(kind) : s[f] = take(f)
      /\ \A f \in Cleared(kind) : s[f] = 0
  BY DEF struct, Named, Cleared
<1> HIDE DEF s
<1>4. CASE kind # termios
  <2>1. given' = s
    BY <1>2, <1>4 DEF s
  <2> QED BY <1>1, <1>3, <1>4, <2>1 DEF Speeds
<1>5. CASE kind = termios
  <2>1. /\ given' = settermios(s, junk)
        /\ Speeds(kind) = {"cflag", "ispeed", "ospeed"} /\ Cleared(kind) = {}
        /\ {"cflag", "ispeed", "ospeed"} \subseteq Named(kind)
        /\ Named(kind) \subseteq DOMAIN termios.fields
    BY <1>2, <1>5, TermiosFields DEF Speeds, s
  <2>2. \A f \in {"cflag", "ispeed", "ospeed"} : s[f] = take(f) /\ take(f) \in Int
    BY <1>1, <1>3, <2>1, TakeExact
  <2>3. Flags(s) /\ s.ispeed \in Int /\ s.ospeed \in Int
    BY <1>3, <1>5, <2>2 DEF Flags
  <2>4. /\ \A f \in DOMAIN termios.fields \ {"cflag", "ispeed", "ospeed"} :
             given'[f] = s[f]
        /\ s.ispeed \in 0..MaxSpeed => given'.ispeed = s.ispeed
        /\ s.ospeed \in 0..MaxSpeed => /\ given'.ospeed = s.ospeed
                                       /\ speed(given'.cflag) = s.ospeed
        /\ given'.cflag - speed(given'.cflag) = s.cflag - speed(s.cflag)
        /\ s.ispeed = speed(s.cflag) /\ s.ospeed = speed(s.cflag) =>
             given'.cflag = s.cflag
    BY <2>1, <2>3, TermiosSet
  <2>5. s.cflag = take("cflag") /\ s.ispeed = take("ispeed")
        /\ s.ospeed = take("ospeed")
    BY <2>2
  <2> QED BY <1>1, <1>3, <2>1, <2>4, <2>5
<1> QED BY <1>4, <1>5

\* A table that was not edited gives the struct it was made from.
LEMMA SetBack ==
    ASSUME TableInv, base # nil, Set
    PROVE  IF kind = msqid \/ Unnamed(kind, base) THEN ret' = "raise"
           ELSE /\ ret' = "ok"
                /\ \A f \in Named(kind) : given'[f] = base[f]
                /\ \A f \in Cleared(kind) : given'[f] = 0
<1>1. CASE kind = msqid \/ Unnamed(kind, base)
  <2>1. ~(checkfieldnames /\ \A f \in Named(kind) : checkfieldtype(f))
    BY <1>1, Refused
  <2> QED BY <1>1, <2>1 DEF Set
<1>2. CASE kind # msqid /\ ~Unnamed(kind, base)
  <2>1. /\ \A f \in Named(kind) : take(f) = base[f] /\ checkfieldtype(f)
        /\ family(kind) \subseteq DOMAIN tbl /\ checkfieldnames
    BY <1>2, TakeBack
  <2>2. ret' = "ok"
    BY <2>1 DEF Set
  <2>3. /\ \A f \in Named(kind) \ Speeds(kind) : given'[f] = base[f]
        /\ \A f \in Cleared(kind) : given'[f] = 0
    BY <2>1, <2>2, SetIs
  <2>4. CASE kind = termios
    <3>1. base \in Structs(termios) /\ termios \in Kinds
      BY <2>4 DEF TableInv
    <3>2. base.ispeed = speed(base.cflag) /\ base.ospeed = speed(base.cflag)
      BY <3>1, StructAssumption
    <3>3. \A f \in {"cflag", "ispeed", "ospeed"} : take(f) = base[f]
      BY <2>1, <2>4, TermiosFields
    <3>4. base.cflag \in Int
      <4>1. "cflag" \in Named(kind) /\ tbl # nil
        BY <2>4, TermiosFields DEF Set
      <4>2. take("cflag") \in Int
        BY <2>1, <4>1, TakeExact
      <4> QED BY <3>3, <4>2
    <3>5. speed(base.cflag) \in 0..MaxSpeed
      <4>1. 0 \in 0..MaxSpeed
        BY SpeedBound
      <4> QED BY <3>4, <4>1, SpeedSet
    <3>6. \A f \in {"cflag", "ispeed", "ospeed"} : given'[f] = base[f]
      BY <2>2, <2>4, <3>2, <3>3, <3>5, SetIs
    <3> QED BY <1>2, <2>2, <2>3, <2>4, <3>6 DEF Speeds
  <2>5. CASE kind # termios
    BY <1>2, <2>2, <2>3, <2>5 DEF Speeds
  <2> QED BY <2>4, <2>5
<1> QED BY <1>1, <1>2

\* For every width of the integers of C and every struct the system may give:
\* what tcgetattr, getrlimit, getsockname, gmtime and the others have read is
\* taken back, every bit of every field of the table, though unsigned fields
\* pass through signed integers of Lua and narrower ones of C and the speeds
\* of a terminal are set one after the other in the flags; a field that the
\* table does not have is 0 in an address; and the tables of msgctl and of a
\* socket without a name are refused.
THEOREM ReadIsWrittenBack == Spec => []RoundTrip
<1>1. Init => RoundTrip
  BY DEF Init, RoundTrip
<1>2. TableInv /\ RoundTrip /\ [Next]_vars => RoundTrip'
  <2> SUFFICES ASSUME TableInv, RoundTrip, [Next]_vars PROVE RoundTrip'
    OBVIOUS
  <2>1. CASE UNCHANGED <<kind, base, given, ret>>
    BY <2>1 DEF RoundTrip, Unnamed
  <2>2. CASE (\E s \in Structs(kind) : Get(s)) \/ Edit
    BY <2>2 DEF Get, Edit, RoundTrip
  <2>3. CASE Set
    <3>1. base' = base /\ kind' = kind
      BY <2>3 DEF Set
    <3> QED BY <2>3, <3>1, SetBack DEF RoundTrip, Unnamed
  <2>4. NewLock \/ Pfcntl \/ UNCHANGED vars => UNCHANGED <<kind, base, given, ret>>
    BY DEF NewLock, Pfcntl, vars
  <2> QED BY <2>1, <2>2, <2>3, <2>4 DEF Next
<1> QED BY <1>1, <1>2, InitTable, NextTable, PTL DEF Spec

\* Whatever the program has put into a table: a struct that is given to the
\* system has the table's numbers where they fit and 0 for what is missing,
\* and the speed of a terminal's flags, and no more of them, is that of
\* output.
THEOREM NothingStaleIsSet == Spec => []SetExact
<1>1. Init => SetExact
  BY DEF Init, SetExact
<1>2. TableInv /\ SetExact /\ [Next]_vars => SetExact'
  <2> SUFFICES ASSUME TableInv, SetExact, [Next]_vars PROVE SetExact'
    OBVIOUS
  <2>1. CASE UNCHANGED <<kind, tbl, given>>
    BY <2>1 DEF SetExact, Asked
  <2>2. CASE (\E s \in Structs(kind) : Get(s)) \/ Edit
    BY <2>2 DEF Get, Edit, SetExact
  <2>3. CASE Set /\ ret' # "ok"
    BY <2>3 DEF Set, SetExact
  <2>4. CASE Set /\ ret' = "ok"
    <3>1. tbl # nil /\ kind' = kind /\ tbl' = tbl
      BY <2>4 DEF Set
    <3>2. /\ \A f \in Named(kind) : checkfieldtype(f)
          /\ \A f \in Named(kind) \ Speeds(kind) : given'[f] = take(f)
          /\ \A f \in Cleared(kind) : given'[f] = 0
      BY <2>4, SetIs
    <3>3. \A f \in Named(kind) :
            /\ Asked(f) # bad
            /\ To(kind.fields[f].type, Asked(f)) = Asked(f) => take(f) = Asked(f)
      BY <3>1, <3>2, TakeExact
    <3>4. ASSUME kind = termios
          PROVE  /\ \A f \in {"ispeed", "ospeed"} :
                      Asked(f) \in 0..MaxSpeed => given'[f] = Asked(f)
                 /\ Asked("ospeed") \in 0..MaxSpeed =>
                      speed(given'.cflag) = Asked("ospeed")
                 /\ To("uint", Asked("cflag")) = Asked("cflag") =>
                      given'.cflag - speed(given'.cflag)
                          = Asked("cflag") - speed(Asked("cflag"))
      <4>1. /\ {"cflag", "ispeed", "ospeed"} \subseteq Named(kind)
            /\ kind.fields["cflag"].type = "uint"
        BY <3>4, TermiosFields
      <4>2. \A f \in {"ispeed", "ospeed"} :
              Asked(f) \in 0..MaxSpeed => take(f) = Asked(f)
        BY <3>1, <3>2, <3>4, <4>1, SpeedTaken
      <4>3. /\ \A f \in {"ispeed", "ospeed"} :
                 take(f) \in 0..MaxSpeed => given'[f] = take(f)
            /\ take("ospeed") \in 0..MaxSpeed =>
                 speed(given'.cflag) = take("ospeed")
            /\ given'.cflag - speed(given'.cflag)
                 = take("cflag") - speed(take("cflag"))
        BY <2>4, <3>4, SetIs
      <4>4. To("uint", Asked("cflag")) = Asked("cflag") =>
              take("cflag") = Asked("cflag")
        BY <3>3, <4>1
      <4> QED BY <4>2, <4>3, <4>4
    <3>5. \A f : Asked(f)' = Asked(f)
      BY <3>1 DEF Asked
    <3> QED BY <3>1, <3>2, <3>3, <3>4, <3>5 DEF SetExact
  <2>5. NewLock \/ Pfcntl \/ UNCHANGED vars => UNCHANGED <<kind, tbl, given>>
    BY DEF NewLock, Pfcntl, vars
  <2> QED BY <2>1, <2>2, <2>3, <2>4, <2>5 DEF Next
<1> QED BY <1>1, <1>2, InitTable, NextTable, PTL DEF Spec

-----------------------------------------------------------------------------
(* Locks.                                                                  *)

LockInv ==
    flock # nil => /\ flock.l_type \in {nil, bad} \cup (0..Greatest("short"))
                   /\ flock.l_start \in Int \cup {nil}

\* A type of lock is taken as it is.
LEMMA LockTaken ==
    ASSUME NEW v \in {nil, bad} \cup (0..Greatest("short"))
    PROVE  /\ To("short", tointeger(v)) \in 0..Greatest("short")
           /\ v \in Int => To("short", tointeger(v)) = v
<1>1. /\ "short" \in Types /\ Least("short") \in Int /\ Greatest("short") \in Int
      /\ Least("short") <= 0 /\ 0 <= Greatest("short")
  BY Ranges DEF Types
<1>2. ASSUME NEW n \in 0..Greatest("short") PROVE To("short", n) = n
  <2>1. n \in Int /\ n \in Least("short")..Greatest("short")
    BY <1>1
  <2> QED BY <1>1, <2>1, ToIs, SameInRange
<1>3. tointeger(v) \in 0..Greatest("short")
  BY <1>1, MarshalAssumption DEF tointeger
<1>4. v \in Int => tointeger(v) = v
  BY MarshalAssumption DEF tointeger
<1> QED BY <1>2, <1>3, <1>4

LEMMA NextLock == LockInv /\ [Next]_vars => LockInv'
<1> SUFFICES ASSUME LockInv, [Next]_vars PROVE LockInv'
  OBVIOUS
<1>1. CASE UNCHANGED flock
  BY <1>1 DEF LockInv
<1>2. CASE NewLock
  BY <1>2, LockAssumption DEF NewLock, LockInv
<1>3. CASE Pfcntl
  <2>1. /\ flock.l_type \in {nil, bad} \cup (0..Greatest("short"))
        /\ flock.l_start \in Int \cup {nil}
    BY <1>3 DEF Pfcntl, LockInv
  <2>2. tointeger(flock.l_start) \in Int
    BY <2>1 DEF tointeger
  <2>3. 0 \in 0..Greatest("short")
    BY Ranges DEF Types
  <2>4. PICK type, start : /\ flock' = copyback(type, start)
                           /\ type \in 0..Greatest("short") /\ start \in Int
    <3>1. CASE flock' = copyback(To("short", tointeger(flock.l_type)),
                                 tointeger(flock.l_start))
      BY <2>1, <2>2, <3>1, LockTaken
    <3>2. CASE flock' = copyback(F_UNLCK, tointeger(flock.l_start))
      BY <2>2, <2>3, <3>2 DEF F_UNLCK
    <3>3. CASE \E l \in Locks : /\ l.l_type \in Nat /\ l.l_start \in Nat
                                /\ flock' = copyback(l.l_type, l.l_start)
      BY <3>3, LockAssumption, MarshalAssumption
    <3> QED BY <1>3, <3>1, <3>2, <3>3 DEF Pfcntl
  <2>5. flock'.l_type = type /\ flock'.l_start = start
    BY <2>4 DEF copyback
  <2> QED BY <2>4, <2>5 DEF LockInv
<1>4. (\E s \in Structs(kind) : Get(s)) \/ Edit \/ Set \/ UNCHANGED vars => UNCHANGED flock
  BY DEF Get, Edit, Set, vars, lockvars
<1> QED BY <1>1, <1>2, <1>3, <1>4 DEF Next

\* However often fcntl is called with a table, F_SETLK and F_SETLKW leave in it
\* the lock that was asked for.
THEOREM LockIsKept == Spec => []LockKept
<1>1. Init => LockInv /\ LockKept
  BY DEF Init, LockInv, LockKept
<1>2. LockInv /\ LockKept /\ [Next]_vars => LockKept'
  <2> SUFFICES ASSUME LockInv, LockKept, [Next]_vars PROVE LockKept'
    OBVIOUS
  <2>1. CASE UNCHANGED lockvars
    BY <2>1 DEF LockKept, lockvars
  <2>2. CASE before' = nil
    BY <2>2 DEF LockKept
  <2>3. CASE Pfcntl /\ before' # nil
    <3>1. /\ before' = flock /\ flock # nil
          /\ flock' = copyback(To("short", tointeger(flock.l_type)),
                               tointeger(flock.l_start))
      BY <2>3 DEF Pfcntl
    <3>2. /\ flock'.l_type = To("short", tointeger(flock.l_type))
          /\ flock'.l_start = tointeger(flock.l_start)
      BY <3>1 DEF copyback
    <3>3. flock.l_start # nil => tointeger(flock.l_start) = flock.l_start
      BY <3>1, MarshalAssumption DEF LockInv, tointeger
    <3> QED BY <3>1, <3>2, <3>3, LockTaken DEF LockInv, LockKept
  <2>4. (\E s \in Structs(kind) : Get(s)) \/ Edit \/ Set \/ UNCHANGED vars
          => UNCHANGED lockvars
    BY DEF Get, Edit, Set, vars, lockvars
  <2>5. NewLock => before' = nil
    BY DEF NewLock
  <2> QED BY <2>1, <2>2, <2>3, <2>4, <2>5 DEF Next
<1> QED BY <1>1, <1>2, NextLock, PTL DEF Spec

=============================================================================
