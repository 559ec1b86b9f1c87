--------------------------- MODULE TimeValProofs ---------------------------
(***************************************************************************)
(* Proofs that timeradd and timersub neither gain nor lose time, and that  *)
(* timercmp orders times by their amount, for every length of a second and *)
(* every chain of calls.                                                   *)
(***************************************************************************)
EXTENDS TimeVal, TLAPS

\* The parts of a table are numbers.
LEMMA PartsAreInts ==
    ASSUME NEW t \in Tables
    PROVE  Sec(t) \in Int /\ Usec(t) \in Int /\ Amount(t) \in Int
BY TimeValAssumption DEF Tables, Sec, Usec, Amount, Value, IsTimeVal, Num

\* What gettimeofday gives is a table.
LEMMA TimeValsAreTables == TimeVals \subseteq Tables
BY TimeValAssumption DEF TimeVals, Tables

\* A result table holds the two numbers it is made of.
LEMMA LegacyFact ==
    ASSUME NEW s \in Int, NEW u \in Int
    PROVE  Legacy(s, u) \in Tables /\ Amount(Legacy(s, u)) = Value(s, u)
BY TimeValAssumption DEF Legacy, Tables, Amount, Sec, Usec, IsTimeVal, Num

\* A carry and a borrow keep the amount.
LEMMA CarryFact ==
    ASSUME NEW s \in Int, NEW u \in Int
    PROVE  /\ Value(s + 1, u - MILLION) = Value(s, u)
           /\ Value(s - 1, u + MILLION) = Value(s, u)
BY TimeValAssumption DEF Value

\* Amounts add and subtract part by part.
LEMMA SumFact ==
    ASSUME NEW s \in Int, NEW u \in Int, NEW t \in Int, NEW v \in Int
    PROVE  /\ Value(s + t, u + v) = Value(s, u) + Value(t, v)
           /\ Value(s - t, u - v) = Value(s, u) - Value(t, v)
BY TimeValAssumption DEF Value

\* One more, or one less, addition of y.
LEMMA NetFact ==
    ASSUME NEW n \in Int, NEW w \in Int
    PROVE  (n + 1) * w = n * w + w /\ (n - 1) * w = n * w - w
OBVIOUS

Total == Amount(start) + net * Amount(y)

\* The amount that the locals, the argument and the result stand for.
IInv ==
    /\ TypeOK
    /\ pc = "lua" => Amount(x) = Total
    /\ pc = "adjust" => Value(sec, usec) = Total
    /\ pc = "returned" => Amount(result) = Total

\* Every step keeps the amounts.
LEMMA NextIInv == IInv /\ [Next]_vars => IInv'
<1> SUFFICES ASSUME IInv, [Next]_vars PROVE IInv'
  OBVIOUS
<1> USE DEF IInv
<1>1. /\ x \in Tables /\ y \in Tables /\ start \in Tables /\ result \in Tables
      /\ sec \in Int /\ usec \in Int /\ net \in Int /\ calls \in Int
  BY TimeValsAreTables, TimeValAssumption DEF TypeOK
<1>2. /\ Sec(x) \in Int /\ Usec(x) \in Int /\ Sec(y) \in Int /\ Usec(y) \in Int
      /\ Amount(x) \in Int /\ Amount(y) \in Int /\ Amount(start) \in Int
  BY <1>1, PartsAreInts
<1>3. CASE Ptimeradd
  <2>1. TypeOK'
    BY <1>2, <1>3, TimeValAssumption, <1>1 DEF Ptimeradd, TypeOK
  <2>2. Value(sec', usec') = Amount(x) + Amount(y)
    <3>1. sec' = Sec(x) + Sec(y) /\ usec' = Usec(x) + Usec(y)
      BY <1>3 DEF Ptimeradd
    <3>2. Value(Sec(x) + Sec(y), Usec(x) + Usec(y))
            = Value(Sec(x), Usec(x)) + Value(Sec(y), Usec(y))
      BY <1>2, SumFact
    <3> QED
      BY <3>1, <3>2 DEF Amount
  <2>3. Total' = Total + Amount(y)
    <3>1. Amount(start)' = Amount(start) /\ Amount(y)' = Amount(y)
      BY <1>3 DEF Ptimeradd, Amount, Value, Sec, Usec, IsTimeVal
    <3>2. (net + 1) * Amount(y) = net * Amount(y) + Amount(y)
      BY <1>1, <1>2, NetFact
    <3>3. net * Amount(y) \in Int
      BY <1>1, <1>2
    <3>4. Total' = Amount(start) + (net + 1) * Amount(y)
      BY <1>3, <3>1 DEF Ptimeradd, Total
    <3> QED
      BY <1>2, <3>2, <3>3, <3>4 DEF Total
  <2> QED
    BY <1>3, <2>1, <2>2, <2>3 DEF Ptimeradd
<1>4. CASE Ptimersub
  <2>1. TypeOK'
    BY <1>2, <1>4, TimeValAssumption, <1>1 DEF Ptimersub, TypeOK
  <2>2. Value(sec', usec') = Amount(x) - Amount(y)
    <3>1. sec' = Sec(x) - Sec(y) /\ usec' = Usec(x) - Usec(y)
      BY <1>4 DEF Ptimersub
    <3>2. Value(Sec(x) - Sec(y), Usec(x) - Usec(y))
            = Value(Sec(x), Usec(x)) - Value(Sec(y), Usec(y))
      BY <1>2, SumFact
    <3> QED
      BY <3>1, <3>2 DEF Amount
  <2>3. Total' = Total - Amount(y)
    <3>1. Amount(start)' = Amount(start) /\ Amount(y)' = Amount(y)
      BY <1>4 DEF Ptimersub, Amount, Value, Sec, Usec, IsTimeVal
    <3>2. (net - 1) * Amount(y) = net * Amount(y) - Amount(y)
      BY <1>1, <1>2, NetFact
    <3>3. net * Amount(y) \in Int
      BY <1>1, <1>2
    <3>4. Total' = Amount(start) + (net - 1) * Amount(y)
      BY <1>4, <3>1 DEF Ptimersub, Total
    <3> QED
      BY <1>2, <3>2, <3>3, <3>4 DEF Total
  <2> QED
    BY <1>4, <2>1, <2>2, <2>3 DEF Ptimersub
<1>5. CASE Ptimeradd_carry \/ Ptimersub_borrow
  <2>1. Value(sec', usec') = Value(sec, usec) /\ sec' \in Int /\ usec' \in Int
    <3>1. MILLION \in Int
      BY TimeValAssumption
    <3>2. CASE Ptimeradd_carry
      BY <1>1, <3>1, <3>2, CarryFact DEF Ptimeradd_carry
    <3>3. CASE Ptimersub_borrow
      BY <1>1, <3>1, <3>3, CarryFact DEF Ptimersub_borrow
    <3> QED
      BY <1>5, <3>2, <3>3
  <2>2. pc = "adjust" /\ UNCHANGED <<x, y, op, pc, result, calls, start, net>>
    BY <1>5 DEF Ptimeradd_carry, Ptimersub_borrow
  <2>3. UNCHANGED Total
    BY <2>2 DEF Total, Amount, Sec, Usec, IsTimeVal
  <2> QED
    BY <2>1, <2>2, <2>3 DEF TypeOK
<1>6. CASE Return
  <2>1. /\ result' \in Tables /\ Amount(result)' = Value(sec, usec)
        /\ pc = "adjust" /\ pc' = "returned"
        /\ UNCHANGED <<x, y, op, sec, usec, calls, start, net>>
    BY <1>1, <1>6, LegacyFact DEF Return, Amount
  <2>2. UNCHANGED Total
    BY <2>1 DEF Total, Amount, Sec, Usec, IsTimeVal
  <2> QED
    BY <2>1, <2>2 DEF TypeOK
<1>7. CASE Chain
  <2>1. /\ x' = result /\ pc = "returned" /\ pc' = "lua"
        /\ UNCHANGED <<y, op, sec, usec, result, calls, start, net>>
    BY <1>7 DEF Chain
  <2>2. UNCHANGED Total /\ Amount(x)' = Amount(result)
    BY <2>1 DEF Total, Amount, Sec, Usec, IsTimeVal
  <2> QED
    BY <1>1, <2>1, <2>2 DEF TypeOK
<1>8. CASE UNCHANGED vars
  BY <1>8 DEF vars, TypeOK, Total, Amount, Sec, Usec, IsTimeVal
<1> QED
  BY <1>3, <1>4, <1>5, <1>6, <1>7, <1>8 DEF Next

LEMMA Invariance == Spec => []IInv
<1>1. Init => IInv
  <2> SUFFICES ASSUME Init PROVE IInv
    OBVIOUS
  <2>1. TypeOK
    BY TimeValsAreTables, LegacyFact, TimeValAssumption DEF Init, TypeOK
  <2>2. Amount(start) \in Int /\ Amount(y) \in Int
    BY <2>1, TimeValsAreTables, PartsAreInts DEF TypeOK
  <2>3. Amount(x) = Total
    BY <2>2 DEF Init, Total
  <2> QED
    BY <2>1, <2>3 DEF Init, IInv
<1> QED
  BY <1>1, NextIInv, PTL DEF Spec

\* No time is gained or lost by any chain of calls of timeradd and timersub.
THEOREM AmountsAreExact == Spec => []ChainExact
<1>1. IInv => ChainExact
  BY DEF IInv, ChainExact, Total
<1> QED
  BY <1>1, Invariance, PTL

-----------------------------------------------------------------------------
(* timercmp, and the microseconds that the two functions return.           *)

\* A table in one of the two forms.  In such a table timercmp finds the same
\* fields as timeradd and timersub.
Plain(t) == /\ t \in Tables
            /\ \/ t.sec = nil /\ t.usec = nil
               \/ t.tv_sec = nil /\ t.tv_usec = nil

LEMMA FieldFact ==
    ASSUME NEW t, Plain(t)
    PROVE  Field(t.tv_sec, t.sec) = Sec(t) /\ Field(t.tv_usec, t.usec) = Usec(t)
BY DEF Plain, Field, Sec, Usec, IsTimeVal, Num

LEMMA PlainFact ==
    ASSUME NEW t \in TimeVals
    PROVE  Plain(t) /\ Usec(t) \in 0..(MILLION - 1)
BY TimeValsAreTables, TimeValAssumption
   DEF Plain, TimeVals, Usec, IsTimeVal, Num

LEMMA LegacyParts ==
    ASSUME NEW s \in Int, NEW u \in Int
    PROVE  Plain(Legacy(s, u)) /\ Sec(Legacy(s, u)) = s /\ Usec(Legacy(s, u)) = u
BY TimeValAssumption DEF Legacy, Plain, Tables, Sec, Usec, IsTimeVal, Num

\* Times whose microseconds are less than a second are ordered by their
\* seconds first.
LEMMA SecondsDecide ==
    ASSUME NEW s \in Int, NEW t \in Int, s > t,
           NEW u \in 0..(MILLION - 1), NEW v \in 0..(MILLION - 1)
    PROVE  Value(s, u) > Value(t, v)
<1>1. MILLION \in Nat \ {0}
  BY TimeValAssumption
<1> DEFINE d == s - t
<1>2. d \in Nat /\ d >= 1 /\ s = t + d
  OBVIOUS
<1> HIDE DEF d
<1>3. s * MILLION = t * MILLION + d * MILLION
  BY <1>1, <1>2
<1>4. d * MILLION >= MILLION
  BY <1>1, <1>2
<1>5. t * MILLION \in Int /\ d * MILLION \in Int
  BY <1>1, <1>2
<1> QED
  BY <1>1, <1>3, <1>4, <1>5 DEF Value

\* timercmp is the order of the amounts.
LEMMA CompareFact ==
    ASSUME NEW a, NEW b, Plain(a), Plain(b),
           Usec(a) \in 0..(MILLION - 1), Usec(b) \in 0..(MILLION - 1)
    PROVE  /\ Ptimercmp(a, b) = 0 <=> Amount(a) = Amount(b)
           /\ Ptimercmp(a, b) > 0 <=> Amount(a) > Amount(b)
<1>1. /\ Sec(a) \in Int /\ Sec(b) \in Int /\ Usec(a) \in Int /\ Usec(b) \in Int
      /\ Amount(a) \in Int /\ Amount(b) \in Int
  BY PartsAreInts DEF Plain
<1>2. Ptimercmp(a, b) = IF Sec(a) # Sec(b) THEN Sec(a) - Sec(b)
                        ELSE Usec(a) - Usec(b)
  BY FieldFact DEF Ptimercmp
<1>3. CASE Sec(a) > Sec(b)
  <2>1. Amount(a) > Amount(b)
    BY <1>1, <1>3, SecondsDecide DEF Amount
  <2> QED
    BY <1>1, <1>2, <1>3, <2>1
<1>4. CASE Sec(b) > Sec(a)
  <2>1. Amount(b) > Amount(a)
    BY <1>1, <1>4, SecondsDecide DEF Amount
  <2> QED
    BY <1>1, <1>2, <1>4, <2>1
<1>5. CASE Sec(a) = Sec(b)
  <2>1. Sec(a) * MILLION \in Int
    BY <1>1, TimeValAssumption
  <2>2. Amount(a) - Amount(b) = Usec(a) - Usec(b)
    BY <1>1, <1>5, <2>1 DEF Amount, Value
  <2> QED
    BY <1>1, <1>2, <1>5, <2>2
<1> QED
  BY <1>1, <1>3, <1>4, <1>5

\* The microseconds of a result.  timeradd carries only above a second, so
\* its result may have a whole second of microseconds, but only if y has any:
\* then timersub takes them off again, and its result has less.
UsecOf(o, u) ==
    /\ u \in 0..MILLION
    /\ o = "sub" \/ Usec(y) = 0 => u < MILLION

UsecInv ==
    /\ Plain(x) /\ Plain(result)
    /\ pc = "lua" => UsecOf("add", Usec(x))
    /\ pc = "adjust" /\ op = "add" =>
         /\ usec \in 0..(2 * MILLION - 1)
         /\ Usec(y) = 0 => usec < MILLION
    /\ pc = "adjust" /\ op = "sub" => usec \in (1 - MILLION)..(MILLION - 1)
    /\ pc = "returned" => UsecOf(op, Usec(result))

\* Every step keeps the ranges of the microseconds.
LEMMA NextUsecInv == IInv /\ UsecInv /\ [Next]_vars => UsecInv'
<1> SUFFICES ASSUME IInv, UsecInv, [Next]_vars PROVE UsecInv'
  OBVIOUS
<1>1. /\ sec \in Int /\ usec \in Int /\ y \in TimeVals
      /\ op \in {"add", "sub"}
  BY DEF IInv, TypeOK
<1>2. MILLION \in Nat \ {0} /\ Usec(y) \in 0..(MILLION - 1)
  BY <1>1, PlainFact, TimeValAssumption
<1>3. /\ Plain(x) /\ Plain(result) /\ Usec(x) \in Int
  BY PartsAreInts DEF UsecInv, Plain
<1>4. UNCHANGED y /\ Usec(y)' = Usec(y)
  BY DEF Next, Ptimeradd, Ptimersub, Ptimeradd_carry, Ptimersub_borrow,
         Return, Chain, vars, Usec, IsTimeVal
<1>5. CASE Ptimeradd
  <2>1. /\ pc = "lua" /\ pc' = "adjust" /\ op' = "add" /\ UNCHANGED <<x, result>>
        /\ usec' = Usec(x) + Usec(y)
    BY <1>5 DEF Ptimeradd
  <2>2. UsecOf("add", Usec(x))
    BY <2>1 DEF UsecInv
  <2> QED
    BY <1>2, <1>3, <1>4, <2>1, <2>2 DEF UsecInv, UsecOf
<1>6. CASE Ptimersub
  <2>1. /\ pc = "lua" /\ pc' = "adjust" /\ op' = "sub" /\ UNCHANGED <<x, result>>
        /\ usec' = Usec(x) - Usec(y)
    BY <1>6 DEF Ptimersub
  <2>2. UsecOf("add", Usec(x))
    BY <2>1 DEF UsecInv
  <2> QED
    BY <1>2, <1>3, <1>4, <2>1, <2>2 DEF UsecInv, UsecOf
<1>7. CASE Ptimeradd_carry
  BY <1>1, <1>2, <1>3, <1>4, <1>7 DEF Ptimeradd_carry, UsecInv
<1>8. CASE Ptimersub_borrow
  BY <1>1, <1>2, <1>3, <1>4, <1>8 DEF Ptimersub_borrow, UsecInv
<1>9. CASE Return
  <2>1. /\ pc = "adjust" /\ pc' = "returned" /\ UNCHANGED <<x, op>>
        /\ IF op = "add" THEN usec <= MILLION ELSE usec >= 0
        /\ result' = Legacy(sec, usec)
    BY <1>9 DEF Return
  <2>2. Plain(result') /\ Usec(result') = usec
    BY <1>1, <2>1, LegacyParts
  <2>3. /\ usec \in 0..MILLION
        /\ op = "sub" \/ Usec(y) = 0 => usec < MILLION
    BY <1>1, <1>2, <2>1 DEF UsecInv
  <2> QED
    BY <1>3, <1>4, <2>1, <2>2, <2>3 DEF UsecInv, UsecOf
<1>10. CASE Chain
  <2>1. x' = result /\ pc = "returned" /\ pc' = "lua" /\ UNCHANGED result
    BY <1>10 DEF Chain
  <2>2. Usec(x)' = Usec(result)
    BY <2>1 DEF Usec, IsTimeVal
  <2> QED
    BY <1>3, <1>4, <2>1, <2>2 DEF UsecInv, UsecOf
<1>11. CASE UNCHANGED vars
  BY <1>11 DEF vars, UsecInv, UsecOf, Plain, Usec, IsTimeVal
<1> QED
  BY <1>5, <1>6, <1>7, <1>8, <1>9, <1>10, <1>11 DEF Next

LEMMA UsecInvariance == Spec => []UsecInv
<1>1. Init => UsecInv
  <2> SUFFICES ASSUME Init PROVE UsecInv
    OBVIOUS
  <2>1. Plain(x) /\ Usec(x) \in 0..(MILLION - 1)
    BY PlainFact DEF Init
  <2>2. Plain(result)
    BY LegacyParts DEF Init
  <2> QED
    BY <2>1, <2>2, TimeValAssumption DEF Init, UsecInv, UsecOf
<1> QED
  BY <1>1, NextUsecInv, Invariance, PTL DEF Spec

\* timersub undoes timeradd: after as many subtractions as additions, in any
\* order that ends with a subtraction, timercmp finds no difference to the
\* first time.
THEOREM SubtractionRestores == Spec => []SubRestores
<1>1. IInv /\ UsecInv => SubRestores
  <2> SUFFICES ASSUME IInv, UsecInv, pc = "returned", op = "sub", net = 0
               PROVE  Ptimercmp(result, start) = 0
    BY DEF SubRestores
  <2>1. Plain(start) /\ Usec(start) \in 0..(MILLION - 1)
    BY PlainFact DEF IInv, TypeOK
  <2>2. Plain(result) /\ Usec(result) \in 0..(MILLION - 1)
    BY TimeValAssumption DEF UsecInv, UsecOf
  <2>3. Amount(start) \in Int /\ Amount(y) \in Int
    BY PartsAreInts, TimeValsAreTables DEF IInv, TypeOK
  <2>4. Amount(result) = Amount(start)
    BY <2>3 DEF IInv, Total
  <2> QED
    BY <2>1, <2>2, <2>4, CompareFact
<1> QED
  BY <1>1, Invariance, UsecInvariance, PTL

\* timercmp is 0 for equal times and positive if the first is newer, for
\* times in either form.
THEOREM ComparesAmounts == Spec => []CompareExact
<1>1. IInv /\ UsecInv => CompareExact
  <2> SUFFICES ASSUME IInv, UsecInv, Usec(x) \in 0..(MILLION - 1)
               PROVE  /\ Ptimercmp(x, y) = 0 <=> Amount(x) = Amount(y)
                      /\ Ptimercmp(x, y) > 0 <=> Amount(x) > Amount(y)
    BY DEF CompareExact
  <2>1. Plain(y) /\ Usec(y) \in 0..(MILLION - 1)
    BY PlainFact DEF IInv, TypeOK
  <2> QED
    BY <2>1, CompareFact DEF UsecInv
<1> QED
  BY <1>1, Invariance, UsecInvariance, PTL

=============================================================================
