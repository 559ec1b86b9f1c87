----------------------------- MODULE PollProofs -----------------------------
(***************************************************************************)
(* Theorems about Poll, for any descriptors, any size of the static array  *)
(* and any order in which a table is visited: the flags in the program's   *)
(* table are those the kernel reported for that descriptor, a positive     *)
(* result counts the entries that have a flag, and the entries fit their   *)
(* array.                                                                  *)
(***************************************************************************)
EXTENDS Poll, TLAPS, FiniteSetTheorems

\* The entries of the program's table.
Entries ==
    [events : (SUBSET Flags) \cup {nil}, revents : (SUBSET Flags) \cup {nil}]

\* An order that lua_next may take.
Visits(o, S) ==
    /\ DOMAIN o = 1..Cardinality(S) /\ \A i \in DOMAIN o : o[i] \in S
    /\ \A s \in S : \E i \in DOMAIN o : o[i] = s

TableType ==
    /\ DOMAIN fds \subseteq Fds
    /\ \A fd \in DOMAIN fds : fds[fd] \in Entries
    /\ ready \in [Fds -> SUBSET Flags]
    /\ DOMAIN told = Fds /\ \A fd \in Fds \ DOMAIN fds : told[fd] = nil
    /\ pc \in {"lua", "poll", "rpoll", "write", "push"}

\* The array before poll(2): one entry for each entry of the table.
Converted ==
    pc = "poll" =>
        /\ Visits(order, DOMAIN fds) /\ DOMAIN list = DOMAIN order
        /\ \A i \in DOMAIN list :
             list[i] = [fd |-> order[i], revents |-> {},
                        events |-> fds[order[i]].events \cap poll_event_map]

\* The array after it, when it is to be copied back.
Reported ==
    pc = "write" /\ r > 0 =>
        /\ Visits(order, DOMAIN fds) /\ DOMAIN list = DOMAIN order
        /\ \A i \in DOMAIN list :
             list[i].revents = told[order[i]] /\ list[i].revents \subseteq Flags

\* The table is up to date, but when it is about to be written.
UpToDate ==
    ~(pc = "write" /\ r > 0) => \A fd \in DOMAIN fds : fds[fd].revents = told[fd]

PollInv == TableType /\ Converted /\ Reported /\ UpToDate

\* The model value nil is not a set of flags.
LEMMA NilFlags == Flags \subseteq poll_event_map /\ \A s \in SUBSET Flags : s # nil
BY PollAssumption

\* The conversion of a table, in any order of visit.
LEMMA PpollInv ==
    ASSUME PollInv, NEW b \in BOOLEAN, Ppoll(b)
    PROVE  PollInv'
<1> USE DEF PollInv
<1>0. fds' = fds /\ ready' = ready /\ r' = r /\ told' = told /\ pc = "lua"
  BY DEF Ppoll
<1>1. CASE pc' = pc
  BY <1>0, <1>1 DEF TableType, Converted, Reported, UpToDate
<1>2. CASE pc' # pc
  <2>1. PICK o \in Orders(DOMAIN fds) :
           list' = poll_fd_list_from_table(fds, o) /\ order' = o /\ pc' = "poll"
    BY <1>0, <1>2 DEF Ppoll
  <2>2. Visits(o, DOMAIN fds)
    BY DEF Orders, Visits
  <2>3. o \in [1..Cardinality(DOMAIN fds) -> DOMAIN fds]
    BY DEF Orders
  <2>4. Cardinality(DOMAIN fds) \in Nat
    BY PollAssumption, FS_Subset, FS_CardinalityType DEF TableType
  <2>5. Len(o) = Cardinality(DOMAIN fds)
    BY <2>3, <2>4
  <2>6. Converted'
    BY <1>0, <2>1, <2>2, <2>3, <2>5
       DEF Converted, poll_fd_list_from_table, poll_events_from_table
  <2>7. TableType' /\ Reported' /\ UpToDate'
    BY <1>0, <2>1 DEF TableType, Reported, UpToDate
  <2>8. QED
    BY <2>6, <2>7
<1>3. QED
  BY <1>1, <1>2

\* What poll(2) reports goes to the entry of its descriptor.
LEMMA PollStepInv ==
    ASSUME PollInv, poll
    PROVE  PollInv'
<1> USE DEF PollInv
<1>0. UNCHANGED <<fds, ready, order>> /\ pc \in {"poll", "rpoll"}
        /\ pc' = IF pc = "poll" THEN "write" ELSE "push"
  BY DEF poll
<1>1. CASE ~(pc = "poll" /\ r' > 0)
  <2>1. told' = told
    BY <1>1 DEF poll
  <2>2. TableType'
    BY <1>0, <2>1 DEF TableType
  <2>3. Converted' /\ Reported' /\ UpToDate'
    BY <1>0, <1>1, <2>1 DEF Converted, Reported, UpToDate
  <2>4. QED
    BY <2>2, <2>3
<1>2. CASE pc = "poll" /\ r' > 0
  <2>1. list' = Report(list)
    BY <1>2 DEF poll
  <2>2. told' = [fd \in Fds |->
                   IF fd \in DOMAIN fds
                     THEN list'[CHOOSE i \in DOMAIN list' : list'[i].fd = fd].revents
                     ELSE nil]
    BY <1>2 DEF poll
  <2>3. Visits(order, DOMAIN fds) /\ DOMAIN list = DOMAIN order
    BY <1>2 DEF Converted
  <2>4. DOMAIN list' = DOMAIN list /\ DOMAIN fds \subseteq Fds
    BY <2>1 DEF Report, TableType
  <2>5. ASSUME NEW i \in DOMAIN list
        PROVE  /\ list'[i].fd = order[i]
               /\ list'[i].revents =
                    ready[order[i]] \cap
                      ((fds[order[i]].events \cap poll_event_map) \cup Always)
    <3>1. list[i] = [fd |-> order[i], revents |-> {},
                     events |-> fds[order[i]].events \cap poll_event_map]
      BY <1>2, <2>5 DEF Converted
    <3>2. list'[i] = [list[i] EXCEPT !.revents =
                        ready[list[i].fd] \cap (list[i].events \cup Always)]
      BY <2>1, <2>5 DEF Report
    <3>3. QED
      BY <3>1, <3>2
  <2>6. ASSUME NEW i \in DOMAIN list
        PROVE  list'[i].revents = told'[order[i]] /\ list'[i].revents \subseteq Flags
    <3>1. order[i] \in DOMAIN fds /\ order[i] \in Fds
      BY <2>3, <2>4, <2>6 DEF Visits
    <3> DEFINE j == CHOOSE k \in DOMAIN list' : list'[k].fd = order[i]
    <3>2. j \in DOMAIN list /\ list'[j].fd = order[i]
      BY <2>4, <2>5, <2>6
    <3>3. order[j] = order[i]
      BY <2>5, <3>2
    <3>4. list'[j].revents = list'[i].revents
      BY <2>5, <2>6, <3>2, <3>3
    <3>5. told'[order[i]] = list'[j].revents
      BY <2>2, <3>1
    <3>6. list'[i].revents \subseteq Flags
      BY <2>5, <2>6, <3>1 DEF TableType
    <3>7. QED
      BY <3>4, <3>5, <3>6
  <2>7. Reported'
    BY <1>0, <2>3, <2>4, <2>6 DEF Reported
  <2>8. TableType'
    BY <1>0, <2>2 DEF TableType
  <2>9. Converted' /\ UpToDate'
    BY <1>0, <1>2 DEF Converted, UpToDate
  <2>10. QED
    BY <2>7, <2>8, <2>9
<1>3. QED
  BY <1>1, <1>2

\* Copying back brings the table up to date.
LEMMA WriteInv ==
    ASSUME PollInv, Ppoll_write
    PROVE  PollInv'
<1> USE DEF PollInv
<1>0. UNCHANGED <<ready, order, list, r, told>> /\ pc = "write" /\ pc' = "push"
  BY DEF Ppoll_write
<1>1. Converted' /\ Reported'
  BY <1>0 DEF Converted, Reported
<1>2. CASE ~(r > 0)
  <2>1. fds' = fds
    BY <1>2 DEF Ppoll_write
  <2>2. QED
    BY <1>0, <1>1, <1>2, <2>1 DEF TableType, UpToDate
<1>3. CASE r > 0
  <2>1. fds' = poll_fd_list_to_table(fds, order, list)
    BY <1>3 DEF Ppoll_write
  <2>2. Visits(order, DOMAIN fds) /\ DOMAIN list = DOMAIN order
    BY <1>0, <1>3 DEF Reported
  <2>3. Cardinality(DOMAIN fds) \in Nat
    BY PollAssumption, FS_Subset, FS_CardinalityType DEF TableType
  <2>4. DOMAIN order = 1..Cardinality(DOMAIN fds)
    BY <2>2 DEF Visits
  <2>5. Len(order) = Cardinality(DOMAIN fds)
    BY <2>3, <2>4
  <2>6. DOMAIN fds' = DOMAIN fds
    BY <2>1 DEF poll_fd_list_to_table
  <2>7. ASSUME NEW fd \in DOMAIN fds
        PROVE  fds'[fd] \in Entries /\ fds'[fd].revents = told[fd]
    <3> DEFINE i == CHOOSE j \in 1..Len(order) : order[j] = fd
    <3>1. \E j \in 1..Len(order) : order[j] = fd
      BY <2>2, <2>4, <2>5 DEF Visits
    <3>2. i \in DOMAIN list /\ order[i] = fd
      BY <3>1, <2>2, <2>4, <2>5
    <3>3. list[i].revents = told[fd] /\ list[i].revents \subseteq Flags
      BY <1>0, <1>3, <3>2 DEF Reported
    <3>4. fds'[fd] = [fds[fd] EXCEPT !.revents = list[i].revents \cap poll_event_map]
      BY <2>1 DEF poll_fd_list_to_table, poll_events_to_table
    <3>5. list[i].revents \cap poll_event_map = list[i].revents
      BY <3>3, NilFlags
    <3>6. fds[fd] \in Entries
      BY DEF TableType
    <3>7. QED
      BY <3>3, <3>4, <3>5, <3>6 DEF Entries
  <2>8. TableType' /\ UpToDate'
    BY <1>0, <2>6, <2>7 DEF TableType, UpToDate
  <2>9. QED
    BY <1>1, <2>8
<1>4. QED
  BY <1>2, <1>3

\* The program's own edits keep PollInv.
LEMMA EditInv ==
    ASSUME PollInv, Edit
    PROVE  PollInv'
<1> USE DEF PollInv
<1>0. UNCHANGED <<ready, pc, order, list, r>> /\ pc = "lua"
  BY DEF Edit
<1>1. Converted' /\ Reported'
  BY <1>0 DEF Converted, Reported
<1>2. PICK fd \in Fds :
        \/ /\ fd \in DOMAIN fds
           /\ fds' = [k \in DOMAIN fds \ {fd} |-> fds[k]]
           /\ told' = [told EXCEPT ![fd] = nil]
        \/ /\ fd \notin DOMAIN fds
           /\ \E ev \in {nil, Flags \ Always} :
                fds' = [k \in DOMAIN fds \cup {fd} |->
                          IF k = fd THEN [events |-> ev, revents |-> nil]
                          ELSE fds[k]]
           /\ UNCHANGED told
  BY DEF Edit
<1>3. CASE /\ fd \in DOMAIN fds
           /\ fds' = [k \in DOMAIN fds \ {fd} |-> fds[k]]
           /\ told' = [told EXCEPT ![fd] = nil]
  <2>1. TableType'
    BY <1>0, <1>3 DEF TableType
  <2>2. UpToDate'
    BY <1>0, <1>3 DEF UpToDate, TableType
  <2>3. QED
    BY <1>1, <2>1, <2>2
<1>4. ASSUME fd \notin DOMAIN fds, told' = told, NEW ev \in {nil, Flags \ Always},
             fds' = [k \in DOMAIN fds \cup {fd} |->
                       IF k = fd THEN [events |-> ev, revents |-> nil] ELSE fds[k]]
      PROVE  PollInv'
  <2>1. [events |-> ev, revents |-> nil] \in Entries
    BY DEF Entries
  <2>2. TableType'
    BY <1>0, <1>4, <2>1 DEF TableType
  <2>3. UpToDate'
    BY <1>0, <1>4 DEF UpToDate, TableType
  <2>4. QED
    BY <1>1, <2>2, <2>3
<1>5. QED
  BY <1>2, <1>3, <1>4

\* PollInv is inductive.
LEMMA PollNext == PollInv /\ [Next]_vars => PollInv'
<1> SUFFICES ASSUME PollInv, [Next]_vars PROVE PollInv'
  OBVIOUS
<1>1. CASE Change
  <2>1. UNCHANGED <<fds, pc, order, list, r, told>> /\ ready' \in [Fds -> SUBSET Flags]
    BY <1>1 DEF Change, PollInv, TableType
  <2>2. QED
    BY <2>1 DEF PollInv, TableType, Converted, Reported, UpToDate
<1>2. ASSUME NEW b \in BOOLEAN, NEW fd \in Fds, Prpoll(fd, b) PROVE PollInv'
  <2>1. UNCHANGED <<fds, ready, r, told>> /\ pc = "lua" /\ pc' = "rpoll"
    BY <1>2 DEF Prpoll
  <2>2. QED
    BY <2>1 DEF PollInv, TableType, Converted, Reported, UpToDate
<1>3. CASE Ppoll_push
  <2>1. UNCHANGED <<fds, ready, r, told>> /\ pc = "push" /\ pc' = "lua"
    BY <1>3 DEF Ppoll_push
  <2>2. QED
    BY <2>1 DEF PollInv, TableType, Converted, Reported, UpToDate
<1>4. CASE UNCHANGED vars
  BY <1>4 DEF vars, PollInv, TableType, Converted, Reported, UpToDate
<1>5. QED
  BY <1>1, <1>2, <1>3, <1>4, EditInv, PpollInv, PollStepInv, WriteInv DEF Next

LEMMA PollInvariance == Spec => []PollInv
<1>1. Init => PollInv
  BY PollAssumption
     DEF Init, PollInv, TableType, Converted, Reported, UpToDate
<1>2. QED
  BY <1>1, PollNext, PTL DEF Spec

\* The flags in the program's table are those that the kernel reported for
\* that very descriptor in the last call that returned a positive number.
THEOREM FlagsAreReported == Spec => []FlagsReported
<1>1. PollInv => FlagsReported
  BY DEF PollInv, UpToDate, FlagsReported
<1>2. QED
  BY <1>1, PollInvariance, PTL

-----------------------------------------------------------------------------
(* The size of the array.                                                  *)

Sized ==
    /\ room \in Nat /\ Len(list) \in Nat /\ Len(list) <= room
    /\ DOMAIN list = 1..Len(list)

\* The array that is chosen has an entry for each descriptor of the table,
\* whatever the size of the static one.
THEOREM ArrayIsLargeEnough == Spec => []ListFits
<1>1. Init => Sized
  BY DEF Init, Sized
<1>2. PollInv /\ Sized /\ [Next]_vars => Sized'
  <2> SUFFICES ASSUME PollInv, Sized, [Next]_vars PROVE Sized'
    OBVIOUS
  <2>1. CASE UNCHANGED <<list, room>>
    BY <2>1 DEF Sized
  <2>2. ASSUME NEW b \in BOOLEAN, Ppoll(b) PROVE Sized'
    <3>1. Cardinality(DOMAIN fds) \in Nat
      BY PollAssumption, FS_Subset, FS_CardinalityType DEF PollInv, TableType
    <3>2. CASE \E o \in Orders(DOMAIN fds) :
                 /\ list' = poll_fd_list_from_table(fds, o)
                 /\ room' = Room(Cardinality(DOMAIN fds))
      <4>1. PICK o \in Orders(DOMAIN fds) :
               /\ list' = poll_fd_list_from_table(fds, o)
               /\ room' = Room(Cardinality(DOMAIN fds))
        BY <3>2
      <4>2. Len(o) = Cardinality(DOMAIN fds)
        BY <3>1 DEF Orders
      <4>3. DOMAIN list' = 1..Cardinality(DOMAIN fds)
              /\ Len(list') = Cardinality(DOMAIN fds)
        BY <3>1, <4>1, <4>2 DEF poll_fd_list_from_table
      <4>4. room' \in Nat /\ Cardinality(DOMAIN fds) <= room'
        BY <3>1, <4>1, PollAssumption DEF Room
      <4>5. QED
        BY <3>1, <4>3, <4>4 DEF Sized
    <3>3. QED
      BY <2>1, <2>2, <3>2 DEF Ppoll
  <2>3. ASSUME NEW b \in BOOLEAN, NEW fd \in Fds, Prpoll(fd, b) PROVE Sized'
    <3>1. list' = <<[fd |-> fd, events |-> {"IN"}, revents |-> {}]>> /\ room' = 1
      BY <2>3 DEF Prpoll
    <3>2. Len(list') = 1 /\ DOMAIN list' = 1..1
      BY <3>1
    <3>3. QED
      BY <3>1, <3>2 DEF Sized
  <2>4. CASE poll
    <3>1. room' = room /\ (list' = list \/ list' = Report(list))
      BY <2>4 DEF poll
    <3>2. CASE list' = Report(list)
      <4>1. DOMAIN list' = 1..Len(list) /\ Len(list') = Len(list)
        BY <3>2 DEF Report, Sized
      <4>2. QED
        BY <3>1, <4>1 DEF Sized
    <3>3. QED
      BY <2>1, <3>1, <3>2
  <2>5. CASE Ppoll_push
    BY <2>5 DEF Ppoll_push, Sized
  <2>6. CASE Edit \/ Change \/ Ppoll_write \/ UNCHANGED vars
    BY <2>1, <2>6 DEF Edit, Change, Ppoll_write, vars
  <2>7. QED
    BY <2>2, <2>3, <2>4, <2>5, <2>6 DEF Next
<1>3. Sized => ListFits
  BY DEF Sized, ListFits
<1>4. QED
  BY <1>1, <1>2, <1>3, PollInvariance, PTL DEF Spec

-----------------------------------------------------------------------------
(* What a positive result counts.                                          *)

\* Until the table is written, r is the number of entries of the array that
\* have a flag.
Counted == pc = "write" /\ r > 0 => r = Count(list)

\* lua_next visits no entry twice.
LEMMA VisitsOnce ==
    ASSUME NEW S, IsFiniteSet(S), NEW o, o \in [1..Cardinality(S) -> S],
           Visits(o, S)
    PROVE  o \in Bijection(1..Cardinality(S), S)
<1>1. Cardinality(S) \in Nat
  BY FS_CardinalityType
<1>2. IsFiniteSet(1..Cardinality(S)) /\ Cardinality(1..Cardinality(S)) = Cardinality(S)
  BY <1>1, FS_Interval
<1>3. o \in Surjection(1..Cardinality(S), S)
  BY DEF Visits, Surjection
<1>4. o \in Injection(1..Cardinality(S), S)
  BY <1>2, <1>3, FS_SurjSameCardinalityImpliesInj
<1> QED
  BY <1>3, <1>4 DEF Bijection

\* Copying back moves each entry of the array that has a flag to an entry of
\* the table of its own.
LEMMA WriteCounts ==
    ASSUME PollInv, Counted, Ppoll_write, r > 0, order \in Seq(Fds)
    PROVE  Cardinality({fd \in DOMAIN fds' : fds'[fd].revents # {}}) = r
<1> DEFINE S == DOMAIN fds
           A == {i \in DOMAIN list : list[i].revents # {}}
           B == {fd \in DOMAIN fds' : fds'[fd].revents # {}}
           g == [i \in A |-> order[i]]
<1>1. pc = "write" /\ pc' = "push" /\ r' = r /\ told' = told
  BY DEF Ppoll_write
<1>2. /\ Visits(order, S) /\ DOMAIN list = DOMAIN order
      /\ \A i \in DOMAIN list : list[i].revents = told[order[i]]
  BY <1>1 DEF PollInv, Reported
<1>3. IsFiniteSet(S) /\ Cardinality(S) \in Nat
  BY PollAssumption, FS_Subset, FS_CardinalityType DEF PollInv, TableType
<1>4. DOMAIN order = 1..Cardinality(S) /\ order \in [1..Cardinality(S) -> S]
  BY <1>2 DEF Visits
<1>5. order \in Bijection(1..Cardinality(S), S)
  BY <1>2, <1>3, <1>4, VisitsOnce
<1>6. DOMAIN fds' = S
  BY DEF Ppoll_write, poll_fd_list_to_table
<1>7. \A fd \in S : fds'[fd].revents = told[fd]
  BY <1>1, <1>6, WriteInv DEF PollInv, UpToDate
<1>8. B = {fd \in S : told[fd] # {}}
  BY <1>6, <1>7
<1>9. A = {i \in 1..Cardinality(S) : told[order[i]] # {}}
  BY <1>2, <1>4
<1> HIDE DEF A, B
<1>10. g \in Bijection(A, B)
  <2>1. g \in [A -> B]
    BY <1>4, <1>8, <1>9
  <2>2. \A i, j \in A : g[i] = g[j] => i = j
    BY <1>4, <1>5, <1>9 DEF Bijection, Injection, IsInjective
  <2>3. \A b \in B : \E i \in A : g[i] = b
    BY <1>5, <1>8, <1>9 DEF Bijection, Surjection
  <2> QED
    BY <2>1, <2>2, <2>3 DEF Bijection, Injection, IsInjective, Surjection
<1>11. IsFiniteSet(A)
  <2>1. IsFiniteSet(1..Cardinality(S)) /\ A \in SUBSET (1..Cardinality(S))
    BY <1>3, <1>9, FS_Interval
  <2> QED
    BY <2>1, FS_Subset
<1>12. Cardinality(B) = Cardinality(A)
  BY <1>10, <1>11, FS_Bijection DEF ExistsBijection
<1> QED
  BY <1>1, <1>12 DEF A, B, Counted, Count

\* A positive result of poll is the number of entries of the program's table
\* that have a flag after the call, whatever the order of the visits.
THEOREM ResultCounts == Spec => ReturnCounts
<1> DEFINE Inv == Counted /\ order \in Seq(Fds)
<1>1. Init => Inv
  BY DEF Init, Counted
<1>2. PollInv /\ Inv /\ [Next]_vars => Inv'
  <2> SUFFICES ASSUME PollInv, Inv, [Next]_vars PROVE Inv'
    OBVIOUS
  <2>1. CASE poll
    <3>1. order' = order
      BY <2>1 DEF poll
    <3>2. r' > 0 => r' = Count(list')
      BY <2>1 DEF poll
    <3> QED
      BY <3>1, <3>2 DEF Counted
  <2>2. ASSUME NEW b \in BOOLEAN, Ppoll(b) PROVE Inv'
    <3>1. pc' # "write"
      BY <2>2 DEF Ppoll
    <3>2. order' \in Seq(Fds)
      <4>1. Cardinality(DOMAIN fds) \in Nat /\ DOMAIN fds \subseteq Fds
        BY PollAssumption, FS_Subset, FS_CardinalityType
           DEF PollInv, TableType
      <4>2. \A o \in Orders(DOMAIN fds) : o \in Seq(Fds)
        BY <4>1 DEF Orders
      <4> QED
        BY <2>2, <4>2 DEF Ppoll
    <3> QED
      BY <3>1, <3>2 DEF Counted
  <2>3. ASSUME NEW b \in BOOLEAN, NEW fd \in Fds, Prpoll(fd, b) PROVE Inv'
    BY <2>3 DEF Prpoll, Counted
  <2>4. CASE Edit \/ Change \/ Ppoll_write
    BY <2>4 DEF Edit, Change, Ppoll_write, Counted
  <2>5. CASE Ppoll_push
    BY <2>5 DEF Ppoll_push, Counted
  <2>6. CASE UNCHANGED vars
    BY <2>6 DEF vars, Counted, Count
  <2> QED
    BY <2>1, <2>2, <2>3, <2>4, <2>5, <2>6 DEF Next
<1>3. PollInv /\ Inv /\ [Next]_vars =>
        [pc = "write" /\ pc' = "push" /\ r > 0 =>
           Cardinality({fd \in DOMAIN fds' : fds'[fd].revents # {}}) = r]_vars
  <2> SUFFICES ASSUME PollInv, Inv, [Next]_vars, pc = "write", pc' = "push",
                      r > 0
               PROVE  Cardinality({fd \in DOMAIN fds' : fds'[fd].revents # {}}) = r
    OBVIOUS
  <2>1. Ppoll_write
    BY DEF Next, Edit, Change, Ppoll, Prpoll, poll, Ppoll_push, vars
  <2> QED
    BY <2>1, WriteCounts
<1> QED
  BY <1>1, <1>2, <1>3, PollInvariance, PTL DEF Spec, ReturnCounts

=============================================================================
