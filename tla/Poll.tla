-------------------------------- MODULE Poll --------------------------------
(***************************************************************************)
(* ext/posix/poll.c: poll and rpoll.                                       *)
(*                                                                         *)
(* The program keeps a table from descriptors to entries {events=...,      *)
(* revents=...} and calls poll with it again and again.  A set of flags    *)
(* is the set of the names that are true in it.  The kernel says at any    *)
(* time which flags hold for a descriptor.  The order in which lua_next    *)
(* visits a table is not specified, and stays while the table is not       *)
(* changed; the entries have no metamethods.                               *)
(***************************************************************************)
EXTENDS Integers, Sequences, FiniteSets

CONSTANTS
    Fds,         \* descriptors the program uses
    Flags,       \* names of events, among them "HUP"
    StaticSize,  \* entries of static_fd_list: 16 in the source
    EINTR,
    nil

\* poll(2) reports these whether they are asked for or not.
Always == {"ERR", "HUP", "NVAL"}

poll_event_map == {"IN", "PRI", "OUT", "ERR", "HUP", "NVAL"}

ASSUME PollAssumption ==
    /\ Fds \subseteq Nat /\ IsFiniteSet(Fds)
    /\ Flags \subseteq poll_event_map /\ "IN" \in Flags
    /\ StaticSize \in Nat /\ EINTR \in Nat
    /\ \A s \in SUBSET Flags : s # nil

VARIABLES
    fds,       \* the program's table; an entry without events is refused
    ready,     \* the flags that hold for each descriptor
    pc,
    order,     \* the order in which lua_next visits fds
    list,      \* fd_list: what is given to poll(2)
    room,      \* the number of entries of the array it is in
    timeout,   \* whether the call may time out
    r,         \* what poll(2) returned
    ret,       \* what the function returned
    told       \* history: the flags that the last call which returned a
               \* positive number was told for each entry

vars == <<fds, ready, pc, order, list, room, timeout, r, ret, told>>

-----------------------------------------------------------------------------
(* The program and the kernel.                                             *)

\* The program changes the table between two calls.
Edit ==
    /\ pc = "lua"
    /\ \E fd \in Fds :
         \/ /\ fd \in DOMAIN fds
            /\ fds' = [k \in DOMAIN fds \ {fd} |-> fds[k]]
            /\ told' = [told EXCEPT ![fd] = nil]
         \/ /\ fd \notin DOMAIN fds
            /\ \E ev \in {nil, Flags \ Always} :
                 fds' = [k \in DOMAIN fds \cup {fd} |->
                           IF k = fd THEN [events |-> ev, revents |-> nil]
                           ELSE fds[k]]
            /\ UNCHANGED told
    /\ ret' = nil
    /\ UNCHANGED <<ready, pc, order, list, room, timeout, r>>

\* Something happens to a descriptor.
Change ==
    /\ \E fd \in Fds, flag \in Flags :
         ready' = [ready EXCEPT ![fd] =
                     IF flag \in @ THEN @ \ {flag} ELSE @ \cup {flag}]
    /\ UNCHANGED <<fds, pc, order, list, room, timeout, r, ret, told>>

-----------------------------------------------------------------------------
(* poll.                                                                   *)

\* Mistake: one entry more than there is room for.
Room_plus(n) == IF n <= StaticSize + 1 THEN StaticSize ELSE n

\* The array on the stack, or a userdata.
Room(n) == IF n <= StaticSize THEN StaticSize ELSE n

poll_fd_list_check_table(t) == \A fd \in DOMAIN t : t[fd].events # nil

\* poll_events_from_table takes the names it knows.
poll_events_from_table(events) == events \cap poll_event_map

poll_fd_list_from_table(t, o) ==
    [i \in 1..Len(o) |->
        [fd |-> o[i], events |-> poll_events_from_table(t[o[i]].events),
         revents |-> {}]]

\* Mistake: flags that are not set are left as they are.
poll_events_to_table_set(old, events) ==
    IF old = nil THEN events ELSE old \cup events

\* Each name is set, to true or to false; a table is made if there is none.
poll_events_to_table(old, events) == events \cap poll_event_map

\* The second walk over the table meets the entries in the same order.
poll_fd_list_to_table(t, o, l) ==
    [fd \in DOMAIN t |->
        LET i == CHOOSE j \in 1..Len(o) : o[j] = fd
        IN [t[fd] EXCEPT !.revents = poll_events_to_table(@, l[i].revents)]]

\* The orders in which lua_next may visit a table.
Orders(S) ==
    {o \in [1..Cardinality(S) -> S] :
        \A s \in S : \E i \in DOMAIN o : o[i] = s}

Ppoll(mayTimeOut) ==
    /\ pc = "lua"
    /\ \E o \in Orders(DOMAIN fds) :
         IF ~poll_fd_list_check_table(fds)
           THEN ret' = "raise" /\ UNCHANGED <<pc, order, list, room, timeout>>
           ELSE /\ list' = poll_fd_list_from_table(fds, o)
                /\ order' = o
                /\ room' = Room(Cardinality(DOMAIN fds))
                /\ timeout' = mayTimeOut
                /\ pc' = "poll" /\ ret' = nil
    /\ UNCHANGED <<fds, ready, r, told>>

\* rpoll is poll of one descriptor, for IN.
Prpoll(fd, mayTimeOut) ==
    /\ pc = "lua"
    /\ list' = <<[fd |-> fd, events |-> {"IN"}, revents |-> {}]>>
    /\ order' = <<fd>> /\ room' = 1 /\ timeout' = mayTimeOut
    /\ pc' = "rpoll" /\ ret' = nil
    /\ UNCHANGED <<fds, ready, r, told>>

\* What poll(2) writes into the array.
Report(l) ==
    [i \in DOMAIN l |->
       [l[i] EXCEPT !.revents = ready[l[i].fd] \cap (l[i].events \cup Always)]]

Count(l) == Cardinality({i \in DOMAIN l : l[i].revents # {}})

\* poll(2): it returns when something is to be reported, when the time is
\* over, or when a signal interrupts it.
poll ==
    /\ pc \in {"poll", "rpoll"}
    /\ LET l == Report(list) IN
       \/ /\ Count(l) > 0
          /\ r' = Count(l) /\ list' = l
       \/ /\ Count(l) = 0 /\ timeout
          /\ r' = 0 /\ UNCHANGED list
       \/ /\ r' = -1 /\ UNCHANGED list
    /\ told' = IF pc = "poll" /\ r' > 0
                 THEN [fd \in Fds |->
                         IF fd \in DOMAIN fds
                           THEN list'[CHOOSE i \in DOMAIN list' :
                                         list'[i].fd = fd].revents
                           ELSE nil]
                 ELSE told
    /\ pc' = IF pc = "poll" THEN "write" ELSE "push"
    /\ UNCHANGED <<fds, ready, order, room, timeout, ret>>

\* Mistake: the table is written whatever poll(2) returned.
Ppoll_write_always ==
    /\ pc = "write"
    /\ fds' = poll_fd_list_to_table(fds, order, list)
    /\ pc' = "push"
    /\ UNCHANGED <<ready, order, list, room, timeout, r, ret, told>>

\* The table is written only if some descriptor changed.
Ppoll_write ==
    /\ pc = "write"
    /\ fds' = IF r > 0 THEN poll_fd_list_to_table(fds, order, list) ELSE fds
    /\ pc' = "push"
    /\ UNCHANGED <<ready, order, list, room, timeout, r, ret, told>>

Ppoll_push ==
    /\ pc = "push"
    /\ ret' = IF r = -1 THEN EINTR ELSE r
    /\ pc' = "lua"
    /\ order' = <<>> /\ list' = <<>> /\ room' = 0 /\ timeout' = FALSE
    /\ UNCHANGED <<fds, ready, r, told>>

-----------------------------------------------------------------------------
Init ==
    /\ fds = <<>> /\ ready \in [Fds -> {{}, {"IN"}}]
    /\ pc = "lua" /\ order = <<>> /\ list = <<>> /\ room = 0
    /\ timeout = FALSE /\ r = 0 /\ ret = nil /\ told = [fd \in Fds |-> nil]

Next ==
    \/ Edit \/ Change
    \/ \E b \in BOOLEAN : Ppoll(b) \/ \E fd \in Fds : Prpoll(fd, b)
    \/ poll \/ Ppoll_write \/ Ppoll_push

Spec == Init /\ [][Next]_vars

-----------------------------------------------------------------------------
(* Properties.                                                             *)

\* The flags in the program's table are the ones the kernel reported for that
\* very descriptor, all of them and no others, in the last call that returned
\* a positive number: a call that times out, is interrupted or raises an
\* error leaves them (so they may be out of date), the order in which the
\* table is visited does not mix them up, and none is left over from an
\* earlier call.
FlagsReported ==
    pc = "lua" => \A fd \in DOMAIN fds : fds[fd].revents = told[fd]

\* A positive result of poll is the number of entries that have a flag.
ReturnCounts ==
    [][pc = "write" /\ pc' = "push" /\ r > 0 =>
         Cardinality({fd \in DOMAIN fds' : fds'[fd].revents # {}}) = r]_vars

\* The entries that are converted fit the array that was chosen for them.
ListFits == Len(list) <= room

=============================================================================
