---------------------------- MODULE PopenProofs ----------------------------
(***************************************************************************)
(* Theorems about Popen, for pipelines of any length, any number of        *)
(* streams and descriptors and pipes of any capacity: what a call of       *)
(* popen_pipeline, pclose or spawn knows at each of its steps; that pclose *)
(* and spawn wait for every process; that the program holds the            *)
(* descriptors it should; that the tasks are joined in order; and that     *)
(* every item goes through.                                                *)
(***************************************************************************)
EXTENDS Popen, TLAPS, FiniteSetTheorems, NaturalsInduction,
        WellFoundedInduction, SequenceTheorems

-----------------------------------------------------------------------------
(* Types.                                                                  *)

Sids == 1..MaxStreams
AllModes == {"r", "w", "invalid", "spawn"}

CallRec ==
    [pc : {"lua", "pipe", "fork", "close", "link", "wait"},
     sid : 0..MaxStreams, mode : AllModes, n : Nat, i : Nat,
     rd : Fds, wr : Fds, pid : 0..MaxProcs]

ChildRec ==
    [pc : {"unborn", "move_out", "close_parent", "move_in", "exec", "run",
           "stray", "zombie", "reaped"},
     sid : 0..MaxStreams, mode : AllModes, rd : Fds, wr : Fds,
     prev : Fds \cup {-1}, task : Int, hold : BOOLEAN]

StreamRec ==
    [state : {"new", "opening", "failed", "open", "closing", "closed"},
     mode : AllModes, n : Nat, pids : Seq(Children), fd : Fds \cup {-1},
     in : Nat, out : Nat, ret : 0..MaxProcs]

\* A descriptor table: each descriptor is closed, a standard descriptor of the
\* program or an end of a pipe.
IsEnd(e) == e = Read(e.pipe) \/ e = Write(e.pipe)
IsTable(t) ==
    /\ t = [f \in Fds |-> t[f]]
    /\ \A f \in Fds : t[f] = None \/ t[f] = Tty \/ IsEnd(t[f])

TypeInv ==
    /\ fds = [p \in Procs |-> fds[p]]
    /\ \A p \in Procs : IsTable(fds[p])
    /\ call \in CallRec
    /\ child \in [Children -> ChildRec]
    /\ \A c \in Children : child[c].pc = "move_in" => child[c].prev # -1
    /\ stream \in [Sids -> StreamRec]

\* A process has been forked exactly if its number is at most nproc, and a
\* stream is in use exactly if its number is at most nstream.
InTurn ==
    /\ nproc \in 0..MaxProcs
    /\ \A c \in Children : child[c].pc # "unborn" <=> c <= nproc
    /\ nstream \in 0..MaxStreams
    /\ \A s \in Sids : stream[s].state # "new" <=> s <= nstream

InPopen == call.pc \in {"pipe", "fork", "close", "link"}

\* The loop of popen_pipeline, with spawn as a loop of one round: what the
\* locals have to do with the stream that is being made, and that there are
\* enough processes for the rounds to come.
Loop ==
    InPopen =>
        /\ call.sid \in Sids
        /\ call.mode = cur.mode /\ call.n = cur.n
        /\ 1 <= call.i /\ call.i <= call.n
        /\ Len(cur.pids) = call.i - 1
        /\ call.mode = "spawn" => call.pc = "fork" /\ call.n = 1
        /\ call.mode = "invalid" => call.pc = "pipe"
        /\ nproc + (call.n - call.i)
             + (IF call.pc \in {"pipe", "fork"} THEN 1 ELSE 0) <= MaxProcs
        /\ call.pc \in {"close", "link"} =>
             call.pid \in Children /\ child[call.pid].pc # "unborn"

Waits == At("wait") => call.sid \in Sids /\ call.i \in 1..Len(cur.pids)

\* The state of a stream and where the program is.
States ==
    \A s \in Sids :
        /\ stream[s].state = "opening" <=> InPopen /\ s = call.sid
        /\ stream[s].state = "closing" <=> At("wait") /\ s = call.sid
        /\ stream[s].state = "new" => stream[s].pids = <<>>
        /\ stream[s].state = "open" =>
             /\ Len(stream[s].pids) = stream[s].n /\ stream[s].n >= 1
             /\ stream[s].mode \in {"r", "w"}
        /\ \A j \in DOMAIN stream[s].pids :
             child[stream[s].pids[j]].pc # "unborn"

CallInv == TypeInv /\ InTurn /\ Loop /\ Waits /\ States

-----------------------------------------------------------------------------
(* Steps that leave the program's calls alone.                             *)

\* Only the counts of the items that went in and came out are changed.
StreamsKept ==
    \A s \in Sids :
        /\ stream'[s].state = stream[s].state
        /\ stream'[s].mode = stream[s].mode
        /\ stream'[s].n = stream[s].n
        /\ stream'[s].pids = stream[s].pids
        /\ stream'[s].fd = stream[s].fd

\* A child does something: neither a process that was not forked nor one
\* that has ended does anything, and none becomes one that was waited for.
ChildMoves(c) ==
    /\ UNCHANGED call /\ StreamsKept /\ stream' \in [Sids -> StreamRec]
    /\ child' \in [Children -> ChildRec]
    /\ \A d \in Children \ {c} : child'[d] = child[d]
    /\ child[c].pc \notin {"unborn", "zombie", "reaped"}
    /\ child'[c].pc \notin {"unborn", "reaped"}
    /\ child'[c].sid = child[c].sid /\ child'[c].mode = child[c].mode
    /\ child'[c].rd = child[c].rd /\ child'[c].wr = child[c].wr
    /\ child'[c].prev = child[c].prev /\ child'[c].task = child[c].task
    /\ child'[c].pc = "move_in" => child'[c].prev # -1
    /\ fds' = [p \in Procs |-> fds'[p]] /\ IsTable(fds'[c])
    /\ \A p \in Procs \ {c} : fds'[p] = fds[p]

\* An item more went into a stream, or came out.
LEMMA CountOne ==
    ASSUME TypeInv, NEW sid,
           \/ stream' = [stream EXCEPT ![sid].in = @ + 1]
           \/ stream' = [stream EXCEPT ![sid].out = @ + 1]
    PROVE  StreamsKept /\ stream' \in [Sids -> StreamRec]
<1>0. stream \in [Sids -> StreamRec]
  BY DEF TypeInv
<1>1. ASSUME NEW r \in StreamRec
      PROVE  /\ [r EXCEPT !.in = @ + 1] \in StreamRec
             /\ [r EXCEPT !.out = @ + 1] \in StreamRec
  BY DEF StreamRec
<1>2. \A s \in Sids : \/ stream'[s] = stream[s]
                      \/ stream'[s] = [stream[s] EXCEPT !.in = @ + 1]
                      \/ stream'[s] = [stream[s] EXCEPT !.out = @ + 1]
  BY <1>0
<1>3. stream' \in [Sids -> StreamRec]
  BY <1>0, <1>1
<1>4. ASSUME NEW s \in Sids
      PROVE  /\ stream'[s].state = stream[s].state
             /\ stream'[s].mode = stream[s].mode
             /\ stream'[s].n = stream[s].n
             /\ stream'[s].pids = stream[s].pids
             /\ stream'[s].fd = stream[s].fd
  <2>1. stream[s] \in StreamRec
    BY <1>0
  <2> QED BY <1>2, <2>1 DEF StreamRec
<1> QED BY <1>3, <1>4 DEF StreamsKept

LEMMA ChildIsProc == Children \subseteq Procs /\ 0 \in Procs /\ -1 \in Procs
BY PopenAssumption DEF Children, Procs

\* Closing and moving descriptors makes a table of a table.
LEMMA TableKinds ==
    /\ IsTable(AllClosed)
    /\ \A t, f : IsTable(t) => IsTable(CloseFd(t, f))
    /\ \A t : IsTable(t) =>
         \A f, g \in Fds : /\ IsTable(move_fd(t, f, g))
                           /\ \A k : IsTable([t EXCEPT ![f] = Read(k),
                                                      ![g] = Write(k)])
<1> USE DEF IsTable
<1>1. IsTable(AllClosed)
  BY DEF AllClosed
<1>2. ASSUME NEW t, IsTable(t), NEW f \in Fds, NEW g \in Fds
      PROVE  /\ IsTable(move_fd(t, f, g))
             /\ \A k : IsTable([t EXCEPT ![f] = Read(k), ![g] = Write(k)])
  <2>2. IsTable(move_fd(t, f, g))
    BY <1>2 DEF CloseFd, move_fd
  <2>3. ASSUME NEW k PROVE IsTable([t EXCEPT ![f] = Read(k), ![g] = Write(k)])
    BY <1>2 DEF IsEnd, Read, Write
  <2> QED BY <2>2, <2>3
<1>3. ASSUME NEW t, IsTable(t), NEW f PROVE IsTable(CloseFd(t, f))
  BY <1>3 DEF CloseFd
<1> QED BY <1>1, <1>2, <1>3

LEMMA ChildStepsMoves ==
    ASSUME TypeInv, NEW c \in Children, NEW at, NEW next, NEW table,
           ChildSteps(c, at, next, table),
           at \notin {"unborn", "zombie", "reaped"},
           next \in {"close_parent", "move_in", "exec", "run", "stray", "zombie"},
           next = "move_in" => child[c].prev # -1,
           IsTable(table)
    PROVE  ChildMoves(c)
BY ChildIsProc DEF TypeInv, ChildSteps, ChildMoves, StreamsKept, ChildRec

LEMMA ChildStepMoves ==
    ASSUME TypeInv, NEW c \in Children, ChildStep(c) \/ Stray_exit(c)
    PROVE  ChildMoves(c)
<1>0. /\ IsTable(fds[c]) /\ child[c] \in ChildRec
      /\ {STDIN_FILENO, STDOUT_FILENO} \subseteq Fds
  BY ChildIsProc, PopenAssumption DEF TypeInv, Fds, STDIN_FILENO, STDOUT_FILENO
<1>1. CASE Child_move_out(c)
  <2>1. child_fd(child[c]) \in Fds /\ out_fd(child[c]) \in Fds
    BY <1>0 DEF ChildRec, child_fd, out_fd
  <2>2. IsTable(move_fd(fds[c], child_fd(child[c]), out_fd(child[c])))
    BY <1>0, <2>1, TableKinds
  <2> QED BY <1>0, <1>1, <2>2, ChildStepsMoves DEF Child_move_out, move_fd_fails
<1>2. CASE Child_close_parent(c)
  BY <1>0, <1>2, ChildStepsMoves, TableKinds DEF Child_close_parent, AfterClose
<1>3. CASE Child_move_in(c)
  <2>1. child[c].prev \in Fds /\ in_fd(child[c]) \in Fds
    BY <1>0, <1>3 DEF ChildRec, in_fd, TypeInv, Child_move_in, move_fd_fails, ChildSteps
  <2>2. IsTable(move_fd(fds[c], child[c].prev, in_fd(child[c])))
    BY <1>0, <2>1, TableKinds
  <2> QED BY <1>0, <1>3, <2>2, ChildStepsMoves DEF Child_move_in, move_fd_fails
<1>4. CASE Pexecx(c)
  BY <1>0, <1>4, ChildStepsMoves, TableKinds DEF Pexecx
<1>5. CASE Task_eof(c) \/ Task_sigpipe(c)
  BY <1>5, ChildStepsMoves, TableKinds DEF Task_eof, Task_sigpipe, Exit
<1>6. CASE Stray_exit(c)
  BY <1>6, ChildStepsMoves, TableKinds DEF Stray_exit
<1>7. CASE Task_read(c) \/ Task_write(c)
  <2>1. PICK h \in BOOLEAN : child' = [child EXCEPT ![c].hold = h]
    BY <1>7 DEF Task_read, Task_write
  <2>2. UNCHANGED <<fds, call>> /\ child[c].pc = "run"
    BY <1>7 DEF Task_read, Task_write
  <2>3. stream' \in [Sids -> StreamRec] /\ StreamsKept
    <3>1. \/ UNCHANGED stream
          \/ stream' = [stream EXCEPT ![child[c].sid].in = @ + 1]
          \/ stream' = [stream EXCEPT ![child[c].sid].out = @ + 1]
      BY <1>7 DEF Task_read, Task_write
    <3>2. CASE UNCHANGED stream
      BY <3>2 DEF TypeInv, StreamsKept
    <3> QED BY <3>1, <3>2, CountOne
  <2> QED BY <1>0, <2>1, <2>2, <2>3 DEF TypeInv, ChildMoves, ChildRec
<1> QED
  BY <1>1, <1>2, <1>3, <1>4, <1>5, <1>6, <1>7 DEF ChildStep

\* The program reads or writes its end of a stream.
LEMMA ProgramUses ==
    ASSUME TypeInv, NEW sid \in Sids, Program_read(sid) \/ Program_write(sid)
    PROVE  UNCHANGED <<fds, child, call>> /\ StreamsKept
             /\ stream' \in [Sids -> StreamRec]
<1>1. UNCHANGED <<fds, child, call>>
  BY DEF Program_read, Program_write
<1> QED BY <1>1, CountOne DEF Program_read, Program_write

-----------------------------------------------------------------------------
(* Counting processes and streams, and free descriptors.                   *)

LEMMA Constants ==
    /\ MaxFd \in Nat /\ MaxFd >= 3
    /\ MaxProcs \in Nat \ {0} /\ MaxStreams \in Nat \ {0}
    /\ MaxStages \in Nat \ {0}
    /\ Modes \subseteq AllModes
BY PopenAssumption DEF AllModes

\* A set that has exactly the numbers from 1 to k has k elements.
LEMMA Segment ==
    ASSUME NEW N \in Nat, NEW B \in SUBSET (1..N), NEW k \in 0..N,
           \A c \in 1..N : c \in B <=> c <= k
    PROVE  Cardinality(B) = k
<1>0. k \in Nat /\ k <= N
  OBVIOUS
<1>1. B = 1..k
  <2>1. ASSUME NEW c \in B PROVE c \in 1..k
    BY <1>0, <2>1
  <2>2. ASSUME NEW c \in 1..k PROVE c \in B
    <3>1. c \in 1..N /\ c <= k
      BY <1>0, <2>2
    <3> QED BY <3>1
  <2> QED BY <2>1, <2>2
<1> QED BY <1>1, FS_Interval

\* A process is forked.
LEMMA OneProcMore ==
    ASSUME InTurn, nproc < MaxProcs,
           \A c \in Children : child'[c].pc # "unborn" <=>
               child[c].pc # "unborn" \/ c = nproc + 1
    PROVE  nproc' = nproc + 1
<1> DEFINE B == {c \in Children : child'[c].pc # "unborn"}
<1>1. nproc + 1 \in 0..MaxProcs
  BY Constants DEF InTurn
<1>2. \A c \in 1..MaxProcs : c \in B <=> c <= nproc + 1
  BY <1>1, Constants DEF InTurn, Children
<1>3. B \in SUBSET (1..MaxProcs)
  BY DEF Children
<1>4. Cardinality(B) = nproc + 1
  <2> HIDE DEF B
  <2> QED BY <1>1, <1>2, <1>3, Segment, Constants
<1> QED BY <1>4 DEF nproc

\* None is.
LEMMA SameProcs ==
    ASSUME \A c \in Children : child'[c].pc # "unborn" <=> child[c].pc # "unborn"
    PROVE  nproc' = nproc
<1>1. {c \in Children : child'[c].pc # "unborn"} =
      {c \in Children : child[c].pc # "unborn"}
  OBVIOUS
<1> QED BY <1>1 DEF nproc

\* A stream is taken into use.
LEMMA OneStreamMore ==
    ASSUME InTurn, nstream < MaxStreams,
           \A s \in Sids : stream'[s].state # "new" <=>
               stream[s].state # "new" \/ s = nstream + 1
    PROVE  nstream' = nstream + 1
<1> DEFINE B == {s \in 1..MaxStreams : stream'[s].state # "new"}
<1>1. nstream + 1 \in 0..MaxStreams
  BY Constants DEF InTurn
<1>2. \A s \in 1..MaxStreams : s \in B <=> s <= nstream + 1
  BY <1>1, Constants DEF InTurn, Sids
<1>3. Cardinality(B) = nstream + 1
  <2> HIDE DEF B
  <2>1. B \in SUBSET (1..MaxStreams)
    BY DEF B
  <2> QED BY <1>1, <1>2, <2>1, Segment, Constants
<1> QED BY <1>3 DEF nstream

LEMMA SameStreams ==
    ASSUME \A s \in Sids : stream'[s].state # "new" <=> stream[s].state # "new"
    PROVE  nstream' = nstream
<1>1. {s \in 1..MaxStreams : stream'[s].state # "new"} =
      {s \in 1..MaxStreams : stream[s].state # "new"}
  BY DEF Sids
<1> QED BY <1>1 DEF nstream

LEMMA LowestIn ==
    ASSUME NEW S \in SUBSET Nat, S # {}
    PROVE  Lowest(S) \in S
<1> DEFINE R == {ss \in Nat \X Nat : ss[1] < ss[2]}
<1>0. IsWellFoundedOn(R, Nat)
  BY NatLessThanWellFounded DEF OpToRel
<1>1. PICK f \in S : \A g \in S : <<g, f>> \notin R
  BY <1>0, WFMin
<1>2. ASSUME NEW g \in S PROVE f <= g
  <2>1. f \in Nat /\ g \in Nat /\ <<g, f>> \notin R
    BY <1>1
  <2>2. ~(g < f)
    BY <2>1
  <2> QED BY <2>1, <2>2
<1> QED BY <1>2 DEF Lowest

\* The two descriptors of pipe are free, and not the same.
LEMMA TwoFree ==
    ASSUME Cardinality(FreeFds) >= 2,
           NEW rd, rd = Lowest(FreeFds), NEW wr, wr = Lowest(FreeFds \ {rd})
    PROVE  rd \in FreeFds /\ wr \in FreeFds /\ rd # wr
<1>1. FreeFds \in SUBSET Nat /\ FreeFds \subseteq 0..MaxFd
  BY Constants DEF FreeFds, Fds
<1>2. IsFiniteSet(FreeFds)
  <2>1. IsFiniteSet(0..MaxFd)
    BY FS_Interval, Constants
  <2> QED BY <1>1, <2>1, FS_Subset
<1>3. FreeFds # {}
  <2> SUFFICES ASSUME FreeFds = {} PROVE FALSE
    OBVIOUS
  <2>1. Cardinality({}) = 0
    BY FS_EmptySet
  <2>2. 0 >= 2
    BY <2>1
  <2> QED BY <2>2
<1>4. rd \in FreeFds
  BY <1>1, <1>3, LowestIn
<1>5. Cardinality(FreeFds \ {rd}) = Cardinality(FreeFds) - 1
  BY <1>2, <1>4, FS_RemoveElement
<1>6. FreeFds \ {rd} # {}
  <2>1. Cardinality(FreeFds) \in Nat
    BY <1>2, FS_CardinalityType
  <2> QED BY <1>5, <2>1, FS_EmptySet
<1>7. wr \in FreeFds \ {rd}
  BY <1>1, <1>6, LowestIn
<1> QED BY <1>4, <1>7

-----------------------------------------------------------------------------
(* CallInv is inductive.                                                   *)

LEMMA InitCallInv == Init => CallInv
<1> SUFFICES ASSUME Init PROVE CallInv
  OBVIOUS
<1>1. TypeInv
  <2>1. call \in CallRec
    BY Constants DEF Init, Idle, CallRec, AllModes, Fds
  <2>2. child \in [Children -> ChildRec]
    BY Constants DEF Init, Unborn, ChildRec, AllModes, Fds
  <2>3. stream \in [Sids -> StreamRec]
    BY Constants DEF Init, New, StreamRec, AllModes, Sids
  <2>4. fds = [p \in Procs |-> fds[p]] /\ \A p \in Procs : IsTable(fds[p])
    <3>1. PICK c \in Closed :
            LET std == [f \in Fds |-> IF f \in {0, 1} \ c THEN Tty ELSE None]
            IN fds = [p \in Procs |-> IF p \in {-1, 0} THEN std ELSE AllClosed]
      BY DEF Init
    <3> QED BY <3>1 DEF IsTable, AllClosed
  <2>5. \A c \in Children : child[c].pc # "move_in"
    BY DEF Init, Unborn
  <2> QED BY <2>1, <2>2, <2>3, <2>4, <2>5 DEF TypeInv
<1>2. InTurn
  <2>1. nproc = 0
    <3>1. {c \in Children : child[c].pc # "unborn"} = {}
      BY DEF Init, Unborn
    <3> QED BY <3>1, FS_EmptySet DEF nproc
  <2>2. nstream = 0
    <3>1. {s \in 1..MaxStreams : stream[s].state # "new"} = {}
      BY DEF Init, New
    <3> QED BY <3>1, FS_EmptySet DEF nstream
  <2> QED BY <2>1, <2>2, Constants DEF InTurn, Init, Unborn, New, Children, Sids
<1>3. Loop /\ Waits
  BY DEF Loop, Waits, InPopen, At, Init, Idle
<1>4. States
  BY DEF States, InPopen, At, Init, Idle, New, Sids
<1> QED BY <1>1, <1>2, <1>3, <1>4 DEF CallInv

\* A child does something, or the program uses a stream.
LEMMA MovesCallInv ==
    ASSUME CallInv, StreamsKept, stream' \in [Sids -> StreamRec],
           UNCHANGED call,
           child' \in [Children -> ChildRec],
           \A c \in Children : child'[c].pc # "unborn" <=> child[c].pc # "unborn",
           \A c \in Children : child'[c].pc = "move_in" => child'[c].prev # -1,
           fds' = [p \in Procs |-> fds'[p]], \A p \in Procs : IsTable(fds'[p])
    PROVE  CallInv'
<1>1. nproc' = nproc
  BY SameProcs
<1>2. nstream' = nstream
  BY SameStreams DEF StreamsKept
<1>3. TypeInv'
  BY DEF CallInv, TypeInv
<1>4. InTurn'
  BY <1>1, <1>2 DEF CallInv, InTurn, StreamsKept
<1>5. Loop' /\ Waits'
  BY <1>1 DEF CallInv, Loop, Waits, InPopen, At, cur, StreamsKept
<1>6. States'
  <2> SUFFICES ASSUME NEW s \in Sids
               PROVE  /\ stream'[s].state = "opening" <=> InPopen' /\ s = call'.sid
                      /\ stream'[s].state = "closing" <=> At("wait")' /\ s = call'.sid
                      /\ stream'[s].state = "new" => stream'[s].pids = <<>>
                      /\ stream'[s].state = "open" =>
                           /\ Len(stream'[s].pids) = stream'[s].n /\ stream'[s].n >= 1
                           /\ stream'[s].mode \in {"r", "w"}
                      /\ \A j \in DOMAIN stream'[s].pids :
                           child'[stream'[s].pids[j]].pc # "unborn"
    BY DEF States
  <2>1. \A j \in DOMAIN stream[s].pids : stream[s].pids[j] \in Children
    BY DEF CallInv, TypeInv, StreamRec
  <2> QED BY <2>1 DEF CallInv, States, InPopen, At, StreamsKept
<1> QED BY <1>3, <1>4, <1>5, <1>6 DEF CallInv

\* A call begins: popen_pipeline or spawn.
Begins(sid, mode, n, pc) ==
    /\ At("lua") /\ nstream < MaxStreams /\ sid = nstream + 1
    /\ nproc + n <= MaxProcs
    /\ call' = [Idle EXCEPT !.pc = pc, !.sid = sid, !.mode = mode,
                            !.n = n, !.i = 1]
    /\ stream' = [stream EXCEPT ![sid].state = "opening", ![sid].mode = mode,
                                ![sid].n = n]
    /\ UNCHANGED <<fds, buffer, child>>

\* What it does: its stream is a new one.
Begun(sid, mode, n, pc) ==
    /\ sid \in Sids /\ stream[sid].state = "new" /\ sid \in 0..MaxStreams
    /\ stream \in [Sids -> StreamRec]
    /\ call' \in CallRec
    /\ call'.pc = pc /\ call'.sid = sid /\ call'.mode = mode
    /\ call'.n = n /\ call'.i = 1
    /\ stream' \in [Sids -> StreamRec]
    /\ \A s \in Sids \ {sid} : stream'[s] = stream[s]
    /\ stream'[sid].state = "opening" /\ stream'[sid].mode = mode
    /\ stream'[sid].n = n /\ stream'[sid].pids = stream[sid].pids
    /\ UNCHANGED <<fds, child>>

LEMMA BeginEffect ==
    ASSUME CallInv, NEW mode \in AllModes, NEW n \in Nat \ {0},
           NEW pc \in {"pipe", "fork"}, NEW sid, Begins(sid, mode, n, pc)
    PROVE  Begun(sid, mode, n, pc)
<1> USE DEF Begins
<1>0. /\ sid \in Sids /\ stream[sid].state = "new" /\ sid \in 0..MaxStreams
      /\ stream \in [Sids -> StreamRec]
  BY Constants DEF CallInv, TypeInv, InTurn, Sids
<1>1. /\ call' \in CallRec
      /\ call'.pc = pc /\ call'.sid = sid /\ call'.mode = mode
      /\ call'.n = n /\ call'.i = 1
  <2>1. call' = [pc |-> pc, sid |-> sid, mode |-> mode, n |-> n, i |-> 1,
                 rd |-> 0, wr |-> 0, pid |-> 0]
    BY DEF Idle
  <2>2. 0 \in Fds /\ 0 \in 0..MaxProcs /\ n \in Nat /\ 1 \in Nat
    BY Constants DEF Fds
  <2> QED BY <1>0, <2>1, <2>2 DEF CallRec
<1>2. /\ stream' \in [Sids -> StreamRec]
      /\ \A s \in Sids \ {sid} : stream'[s] = stream[s]
      /\ stream'[sid].state = "opening" /\ stream'[sid].mode = mode
      /\ stream'[sid].n = n /\ stream'[sid].pids = stream[sid].pids
  <2>1. stream[sid] \in StreamRec
    BY <1>0
  <2>2. stream'[sid] = [stream[sid] EXCEPT !.state = "opening", !.mode = mode,
                                           !.n = n]
    BY <1>0
  <2>3. ASSUME NEW r \in StreamRec, NEW q,
               q = [r EXCEPT !.state = "opening", !.mode = mode, !.n = n]
        PROVE  /\ q \in StreamRec /\ q.state = "opening" /\ q.mode = mode
               /\ q.n = n /\ q.pids = r.pids
    BY <2>3 DEF StreamRec
  <2>4. /\ stream'[sid].state = "opening" /\ stream'[sid].mode = mode
        /\ stream'[sid].n = n /\ stream'[sid].pids = stream[sid].pids
        /\ stream'[sid] \in StreamRec
    BY <2>1, <2>2, <2>3
  <2>5. \A s \in Sids \ {sid} : stream'[s] = stream[s]
    BY <1>0
  <2>6. stream' = [s \in Sids |-> stream'[s]]
    BY <1>0
  <2> QED BY <1>0, <2>4, <2>5, <2>6
<1> QED BY <1>0, <1>1, <1>2 DEF Begun

LEMMA BeginCallInv ==
    ASSUME CallInv, NEW mode \in AllModes, NEW n \in Nat \ {0},
           NEW pc \in {"pipe", "fork"}, NEW sid, Begins(sid, mode, n, pc),
           mode = "spawn" => pc = "fork" /\ n = 1, mode # "spawn" => pc = "pipe"
    PROVE  CallInv'
<1>a. Begun(sid, mode, n, pc)
  BY BeginEffect
<1>b. /\ sid = nstream + 1 /\ nstream < MaxStreams /\ nproc + n <= MaxProcs
      /\ At("lua") /\ UNCHANGED <<fds, child>>
  BY DEF Begins
<1>0. /\ sid \in Sids /\ stream[sid].state = "new" /\ sid \in 0..MaxStreams
      /\ stream \in [Sids -> StreamRec]
  BY <1>a DEF Begun
<1>1. /\ call' \in CallRec
      /\ call'.pc = pc /\ call'.sid = sid /\ call'.mode = mode
      /\ call'.n = n /\ call'.i = 1
  BY <1>a DEF Begun
<1>2. /\ stream' \in [Sids -> StreamRec]
      /\ \A s \in Sids \ {sid} : stream'[s] = stream[s]
      /\ stream'[sid].state = "opening" /\ stream'[sid].mode = mode
      /\ stream'[sid].n = n /\ stream'[sid].pids = stream[sid].pids
  BY <1>a DEF Begun
<1>3. nproc' = nproc
  BY <1>b, SameProcs
<1>4. nstream' = nstream + 1
  BY <1>b, <1>0, <1>2, OneStreamMore DEF CallInv
<1>5. TypeInv'
  BY <1>b, <1>1, <1>2 DEF CallInv, TypeInv
<1>6. InTurn'
  BY <1>b, <1>0, <1>2, <1>3, <1>4, Constants DEF CallInv, InTurn, Sids
<1>7. Loop' /\ Waits'
  <2>1. Len(stream'[sid].pids) = 0
    BY <1>0, <1>2 DEF CallInv, States
  <2>2. nproc \in Nat
    BY DEF CallInv, InTurn
  <2> QED BY <1>b, <1>0, <1>1, <1>2, <1>3, <2>1, <2>2
          DEF Loop, Waits, InPopen, At, cur
<1>8. States'
  BY <1>b, <1>0, <1>1, <1>2 DEF CallInv, States, InPopen, At
<1> QED BY <1>5, <1>6, <1>7, <1>8 DEF CallInv

\* A call fails.
LEMMA ThrowEffect ==
    ASSUME CallInv, InPopen, Throw
    PROVE  LET sid == call.sid IN
           /\ sid \in Sids /\ stream[sid].state = "opening"
           /\ call' \in CallRec /\ call'.pc = "lua"
           /\ stream' \in [Sids -> StreamRec]
           /\ \A s \in Sids \ {sid} : stream'[s] = stream[s]
           /\ stream'[sid].state = "failed" /\ stream'[sid].pids = stream[sid].pids
           /\ stream'[sid].mode = stream[sid].mode /\ stream'[sid].n = stream[sid].n
<1> DEFINE sid == call.sid
<1>0. /\ sid \in Sids /\ stream[sid].state = "opening"
      /\ stream \in [Sids -> StreamRec] /\ stream[sid] \in StreamRec
  BY DEF CallInv, TypeInv, States, Loop
<1>1. call' \in CallRec /\ call'.pc = "lua"
  BY Constants DEF Throw, Idle, CallRec, Fds, AllModes
<1>2. /\ stream' \in [Sids -> StreamRec]
      /\ \A s \in Sids \ {sid} : stream'[s] = stream[s]
      /\ stream'[sid].state = "failed" /\ stream'[sid].pids = stream[sid].pids
      /\ stream'[sid].mode = stream[sid].mode /\ stream'[sid].n = stream[sid].n
  BY <1>0 DEF Throw, StreamRec
<1> QED BY <1>0, <1>1, <1>2

LEMMA ThrowCallInv ==
    ASSUME CallInv, InPopen, Throw, UNCHANGED child,
           fds' = [p \in Procs |-> fds'[p]], \A p \in Procs : IsTable(fds'[p])
    PROVE  CallInv'
<1> DEFINE sid == call.sid
<1>0. sid \in Sids /\ stream[sid].state = "opening"
  BY ThrowEffect
<1>1. call' \in CallRec /\ call'.pc = "lua"
  BY ThrowEffect
<1>2. /\ stream' \in [Sids -> StreamRec]
      /\ \A s \in Sids \ {sid} : stream'[s] = stream[s]
      /\ stream'[sid].state = "failed" /\ stream'[sid].pids = stream[sid].pids
  BY ThrowEffect
<1>3. nproc' = nproc /\ nstream' = nstream
  BY <1>0, <1>2, SameProcs, SameStreams
<1>4. TypeInv'
  BY <1>1, <1>2 DEF CallInv, TypeInv
<1>5. InTurn'
  BY <1>0, <1>2, <1>3 DEF CallInv, InTurn
<1>6. Loop' /\ Waits'
  BY <1>1 DEF Loop, Waits, InPopen, At
<1>7. States'
  BY <1>0, <1>1, <1>2 DEF CallInv, States, InPopen, At
<1> QED BY <1>4, <1>5, <1>6, <1>7 DEF CallInv

\* What is known of the call and of its stream while one is made.
LEMMA InLoop ==
    ASSUME CallInv, InPopen
    PROVE  /\ call \in CallRec /\ call.sid \in Sids
           /\ stream \in [Sids -> StreamRec] /\ cur \in StreamRec
           /\ cur.state = "opening"
           /\ call.n \in Nat /\ call.i \in Nat /\ nproc \in Nat
BY DEF CallInv, TypeInv, InTurn, Loop, States, cur, CallRec

\* The effect of pipe.
LEMMA PipeEffect ==
    ASSUME CallInv, Ppopen_pipe
    PROVE  \E rd, wr \in FreeFds : \E k :
             /\ rd # wr
             /\ fds' = [fds EXCEPT ![0] = [@ EXCEPT ![rd] = Read(k), ![wr] = Write(k)]]
             /\ fds' = [p \in Procs |-> fds'[p]]
             /\ \A p \in Procs : IsTable(fds'[p])
             /\ \/ /\ call.mode \in {"r", "w"} /\ UNCHANGED stream
                   /\ call' \in CallRec /\ call'.pc = "fork"
                   /\ call'.sid = call.sid /\ call'.mode = call.mode
                   /\ call'.n = call.n /\ call'.i = call.i
                   /\ call'.rd = rd /\ call'.wr = wr
                \/ Throw
<1> DEFINE rd == Lowest(FreeFds)
           wr == Lowest(FreeFds \ {rd})
           k  == UnusedPipe
<1>1. rd \in FreeFds /\ wr \in FreeFds /\ rd # wr
  <2> HIDE DEF wr, rd
  <2>1. Cardinality(FreeFds) >= 2
    BY DEF Ppopen_pipe
  <2>2. rd = Lowest(FreeFds) /\ wr = Lowest(FreeFds \ {rd})
    BY DEF rd, wr
  <2> QED BY <2>1, <2>2, TwoFree
<1>2. /\ fds' = [fds EXCEPT ![0] = [@ EXCEPT ![rd] = Read(k), ![wr] = Write(k)]]
      /\ \/ /\ call.mode \in {"r", "w"}
            /\ call' = [call EXCEPT !.pc = "fork", !.rd = rd, !.wr = wr]
            /\ UNCHANGED stream
         \/ Throw
  BY DEF Ppopen_pipe
<1> HIDE DEF rd, wr, k
<1>3. rd \in Fds /\ wr \in Fds
  BY <1>1 DEF FreeFds
<1>4. fds' = [p \in Procs |-> fds'[p]] /\ \A p \in Procs : IsTable(fds'[p])
  <2>1. IsTable([fds[0] EXCEPT ![rd] = Read(k), ![wr] = Write(k)])
    BY <1>3, ChildIsProc, TableKinds DEF CallInv, TypeInv
  <2> DEFINE t == [fds[0] EXCEPT ![rd] = Read(k), ![wr] = Write(k)]
  <2>2. fds' = [fds EXCEPT ![0] = t]
    BY <1>2
  <2> HIDE DEF t
  <2> QED BY <2>1, <2>2 DEF CallInv, TypeInv, t
<1>5. ASSUME call' = [call EXCEPT !.pc = "fork", !.rd = rd, !.wr = wr]
      PROVE  /\ call' \in CallRec /\ call'.pc = "fork"
             /\ call'.sid = call.sid /\ call'.mode = call.mode
             /\ call'.n = call.n /\ call'.i = call.i
             /\ call'.rd = rd /\ call'.wr = wr
  BY <1>3, <1>5 DEF CallInv, TypeInv, CallRec
<1> QED BY <1>1, <1>2, <1>4, <1>5

\* The effect of fork: nproc + 1 is a process that was not forked.
LEMMA ForkEffect ==
    ASSUME CallInv, At("fork"), NEW pc \in {"move_out", "exec"},
           Fork(nproc + 1, pc)
    PROVE  LET pid == nproc + 1 IN
           /\ pid \in Children /\ child[pid].pc = "unborn"
           /\ fds' = [p \in Procs |-> fds'[p]] /\ fds'[pid] = fds[0]
           /\ \A p \in Procs \ {pid} : fds'[p] = fds[p]
           /\ child' \in [Children -> ChildRec]
           /\ \A c \in Children \ {pid} : child'[c] = child[c]
           /\ child'[pid].pc = pc /\ child'[pid].sid = call.sid
           /\ child'[pid].mode = call.mode
           /\ child'[pid].rd = call.rd /\ child'[pid].wr = call.wr
           /\ child'[pid].prev = IF call.i = 1 THEN -1 ELSE cur.fd
           /\ child'[pid].task = Task(call.mode, call.n, call.i)
           /\ nproc' = nproc + 1
<1> DEFINE pid == nproc + 1
           new == [pc |-> pc, sid |-> call.sid, mode |-> call.mode,
                   rd |-> call.rd, wr |-> call.wr,
                   prev |-> IF call.i = 1 THEN -1 ELSE cur.fd,
                   task |-> Task(call.mode, call.n, call.i), hold |-> FALSE]
<1>0. InPopen
  BY DEF At, InPopen
<1>1. pid \in Children /\ child[pid].pc = "unborn" /\ nproc < MaxProcs
  <2>1. nproc + (call.n - call.i) + 1 <= MaxProcs /\ call.i <= call.n
    BY <1>0 DEF CallInv, Loop, At
  <2>2. nproc \in Nat /\ call.n \in Nat /\ call.i \in Nat
    BY <1>0, InLoop
  <2>3. pid \in Children /\ nproc < MaxProcs
    BY <2>1, <2>2, Constants DEF Children
  <2> QED BY <2>2, <2>3 DEF CallInv, InTurn
<1>2. new \in ChildRec
  <2>1. Task(call.mode, call.n, call.i) \in Int
    BY <1>0, InLoop DEF Task
  <2>2. (IF call.i = 1 THEN -1 ELSE cur.fd) \in Fds \cup {-1}
    BY <1>0, InLoop DEF StreamRec
  <2> HIDE DEF Task
  <2> QED BY <1>0, <2>1, <2>2, InLoop DEF ChildRec, CallRec
<1>3. fds' = [fds EXCEPT ![pid] = fds[0]] /\ child' = [child EXCEPT ![pid] = new]
  BY DEF Fork
<1>4. /\ new.pc = pc /\ new.sid = call.sid
      /\ new.mode = call.mode
      /\ new.rd = call.rd /\ new.wr = call.wr
      /\ new.prev = IF call.i = 1 THEN -1 ELSE cur.fd
      /\ new.task = Task(call.mode, call.n, call.i)
  OBVIOUS
<1> HIDE DEF pid, new
<1>5. /\ child' \in [Children -> ChildRec] /\ child'[pid] = new
      /\ \A c \in Children \ {pid} : child'[c] = child[c]
  BY <1>1, <1>2, <1>3 DEF CallInv, TypeInv
<1>6. /\ fds' = [p \in Procs |-> fds'[p]] /\ fds'[pid] = fds[0]
      /\ \A p \in Procs \ {pid} : fds'[p] = fds[p]
  BY <1>1, <1>3, ChildIsProc DEF CallInv, TypeInv
<1>7. nproc' = nproc + 1
  <2>1. \A c \in Children : child'[c].pc # "unborn" <=>
               child[c].pc # "unborn" \/ c = nproc + 1
    BY <1>1, <1>4, <1>5 DEF pid
  <2> QED BY <1>1, <2>1, OneProcMore DEF CallInv
<1> QED BY <1>1, <1>4, <1>5, <1>6, <1>7 DEF pid

\* The effect of closing a descriptor in the program.
LEMMA CloseEffect ==
    ASSUME TypeInv, NEW f, fds' = [fds EXCEPT ![0] = CloseFd(@, f)]
    PROVE  /\ fds' = [p \in Procs |-> fds'[p]]
           /\ \A p \in Procs : IsTable(fds'[p])
           /\ \A p \in Procs \ {0} : fds'[p] = fds[p]
           /\ \A g \in Fds \ {f} : fds'[0][g] = fds[0][g]
           /\ f \in Fds => fds'[0][f] = None
<1>1. IsTable(fds[0]) /\ IsTable(CloseFd(fds[0], f))
  BY ChildIsProc, TableKinds DEF TypeInv
<1>2. fds' = [p \in Procs |-> IF p = 0 THEN CloseFd(fds[0], f) ELSE fds[p]]
  BY ChildIsProc DEF TypeInv
<1>3. \A g \in Fds : CloseFd(fds[0], f)[g] = IF g = f THEN None ELSE fds[0][g]
  BY <1>1 DEF CloseFd, IsTable
<1> QED BY <1>1, <1>2, <1>3, ChildIsProc DEF TypeInv

\* The effect of a round of popen_pipeline's loop on the stream and the call.
LEMMA LinkEffect ==
    ASSUME CallInv, Ppopen_pipeline_link
    PROVE  LET sid == call.sid IN
           /\ stream' \in [Sids -> StreamRec] /\ call' \in CallRec
           /\ \A s \in Sids \ {sid} : stream'[s] = stream[s]
           /\ stream'[sid].fd = parent_fd(call)
           /\ stream'[sid].pids = Append(stream[sid].pids, call.pid)
           /\ stream'[sid].mode = call.mode /\ stream'[sid].n = call.n
           /\ call.i = call.n => stream'[sid].state = "open" /\ call'.pc = "lua"
           /\ call.i # call.n =>
                /\ stream'[sid].state = "opening" /\ call'.pc = "pipe"
                /\ call'.sid = sid /\ call'.mode = call.mode
                /\ call'.n = call.n /\ call'.i = call.i + 1
           /\ call.mode \in {"r", "w"}
<1> DEFINE sid == call.sid
<1>0. InPopen
  BY DEF Ppopen_pipeline_link, At, InPopen
<1>1. /\ call.pid \in Children /\ parent_fd(call) \in Fds
      /\ call.mode \in {"r", "w"}
  BY <1>0, InLoop DEF Ppopen_pipeline_link, At, CallInv, Loop, CallRec,
                      parent_fd, AllModes
<1>2. ASSUME NEW r \in StreamRec, NEW q,
             q = [r EXCEPT !.fd = parent_fd(call), !.pids = Append(@, call.pid),
                           !.state = IF call.i = call.n THEN "open" ELSE @]
      PROVE  /\ q \in StreamRec /\ q.fd = parent_fd(call)
             /\ q.pids = Append(r.pids, call.pid)
             /\ q.state = IF call.i = call.n THEN "open" ELSE r.state
             /\ q.mode = r.mode /\ q.n = r.n
  <2>1. Append(r.pids, call.pid) \in Seq(Children)
    BY <1>1 DEF StreamRec
  <2> QED BY <1>1, <1>2, <2>1 DEF StreamRec
<1>3. stream'[sid] = [stream[sid] EXCEPT
                       !.fd = parent_fd(call), !.pids = Append(@, call.pid),
                       !.state = IF call.i = call.n THEN "open" ELSE @]
  BY <1>0, InLoop DEF Ppopen_pipeline_link
<1>4. stream' = [s \in Sids |-> stream'[s]]
      /\ \A s \in Sids \ {sid} : stream'[s] = stream[s]
  BY <1>0, InLoop DEF Ppopen_pipeline_link
<1>5. /\ stream'[sid] \in StreamRec /\ stream'[sid].fd = parent_fd(call)
      /\ stream'[sid].pids = Append(stream[sid].pids, call.pid)
      /\ stream'[sid].state = IF call.i = call.n THEN "open" ELSE "opening"
      /\ stream'[sid].mode = call.mode /\ stream'[sid].n = call.n
  BY <1>0, <1>2, <1>3, InLoop DEF cur, CallInv, Loop
<1>6. stream' \in [Sids -> StreamRec]
  BY <1>4, <1>5, <1>0, InLoop
<1>7. CASE call.i = call.n
  <2>1. call' = Idle
    BY <1>7 DEF Ppopen_pipeline_link
  <2>2. Idle \in CallRec /\ Idle.pc = "lua"
    BY Constants DEF Idle, CallRec, Fds, AllModes
  <2> QED BY <1>1, <1>4, <1>5, <1>6, <1>7, <2>1, <2>2
<1>8. CASE call.i # call.n
  <2>1. call' = [call EXCEPT !.pc = "pipe", !.i = @ + 1]
    BY <1>8 DEF Ppopen_pipeline_link
  <2>2. /\ call' \in CallRec /\ call'.pc = "pipe"
        /\ call'.sid = sid /\ call'.mode = call.mode
        /\ call'.n = call.n /\ call'.i = call.i + 1
    <3> DEFINE j == call.i + 1
    <3>1. call \in CallRec /\ j \in Nat /\ call' = [call EXCEPT !.pc = "pipe", !.i = j]
      BY <1>0, <2>1, InLoop
    <3>2. call'.i = j /\ call'.pc = "pipe"
      BY <3>1 DEF CallRec
    <3> HIDE DEF j
    <3>3. /\ call' \in CallRec /\ call'.sid = sid /\ call'.mode = call.mode
          /\ call'.n = call.n
      BY <3>1 DEF CallRec
    <3> QED BY <3>2, <3>3 DEF j
  <2> QED BY <1>1, <1>4, <1>5, <1>6, <1>8, <2>2
<1> QED BY <1>7, <1>8

\* The effect of one wait of pclose.
LEMMA WaitEffect ==
    ASSUME CallInv, NEW pid \in Children, Ppclose_wait(pid)
    PROVE  LET sid == call.sid IN
           /\ pid = cur.pids[call.i] /\ sid \in Sids /\ call.i \in 1..Len(cur.pids)
           /\ child' \in [Children -> ChildRec]
           /\ \A c \in Children \ {pid} : child'[c] = child[c]
           /\ \/ child[pid].pc = "zombie" /\ child'[pid].pc = "reaped"
                 /\ child'[pid] = [child[pid] EXCEPT !.pc = "reaped"]
              \/ "EINTR" \in Failures /\ child' = child
           /\ stream' \in [Sids -> StreamRec] /\ call' \in CallRec
           /\ \A s \in Sids \ {sid} : stream'[s] = stream[s]
           /\ stream'[sid].pids = stream[sid].pids
           /\ stream'[sid].mode = stream[sid].mode /\ stream'[sid].n = stream[sid].n
           /\ \/ /\ call.i < Len(cur.pids) /\ UNCHANGED stream
                 /\ call'.pc = "wait" /\ call'.sid = sid /\ call'.i = call.i + 1
              \/ /\ call.i = Len(cur.pids) /\ stream'[sid].state = "closed"
                 /\ call'.pc = "lua"
<1> DEFINE sid == call.sid
<1>1. /\ pid = cur.pids[call.i] /\ sid \in Sids /\ call.i \in 1..Len(cur.pids)
      /\ stream \in [Sids -> StreamRec] /\ cur \in StreamRec /\ call \in CallRec
      /\ cur.pids \in Seq(Children)
  <2>1. At("wait") /\ pid = cur.pids[call.i]
    BY DEF Ppclose_wait
  <2> QED BY <2>1 DEF CallInv, Waits, TypeInv, cur, StreamRec
<1>2. child \in [Children -> ChildRec]
  BY DEF CallInv, TypeInv
<1>3. /\ child' \in [Children -> ChildRec]
      /\ \A c \in Children \ {pid} : child'[c] = child[c]
      /\ \/ child[pid].pc = "zombie" /\ child'[pid].pc = "reaped"
            /\ child'[pid] = [child[pid] EXCEPT !.pc = "reaped"]
         \/ "EINTR" \in Failures /\ child' = child
  <2>1. ASSUME NEW r \in ChildRec, NEW q, q = [r EXCEPT !.pc = "reaped"]
        PROVE  q \in ChildRec /\ q.pc = "reaped"
    BY <2>1 DEF ChildRec
  <2>2. \/ child[pid].pc = "zombie"
           /\ child' = [child EXCEPT ![pid] = [child[pid] EXCEPT !.pc = "reaped"]]
        \/ "EINTR" \in Failures /\ child' = child
    BY DEF Ppclose_wait
  <2>3. [child[pid] EXCEPT !.pc = "reaped"] \in ChildRec
        /\ [child[pid] EXCEPT !.pc = "reaped"].pc = "reaped"
    BY <1>2, <2>1
  <2> QED BY <1>2, <2>2, <2>3
<1>4. CASE call.i < Len(cur.pids)
  <2>1. call' = [call EXCEPT !.i = @ + 1] /\ UNCHANGED stream /\ call.pc = "wait"
    BY <1>4 DEF Ppclose_wait, At
  <2> QED BY <1>1, <1>3, <1>4, <2>1 DEF CallRec
<1>5. CASE ~(call.i < Len(cur.pids))
  <2>1. call' = Idle
    BY <1>5 DEF Ppclose_wait
  <2>2. Idle \in CallRec /\ Idle.pc = "lua"
    BY Constants DEF Idle, CallRec, Fds, AllModes
  <2>3. PICK ret \in 0..MaxProcs :
          stream' = [stream EXCEPT ![sid].state = "closed", ![sid].ret = ret]
    <3>1. pid \in 0..MaxProcs /\ 0 \in 0..MaxProcs
      BY Constants DEF Children
    <3> QED BY <1>5, <3>1 DEF Ppclose_wait
  <2>4. ASSUME NEW r \in StreamRec, NEW q,
               q = [r EXCEPT !.state = "closed", !.ret = ret]
        PROVE  /\ q \in StreamRec /\ q.state = "closed" /\ q.pids = r.pids
               /\ q.mode = r.mode /\ q.n = r.n
    BY <2>4 DEF StreamRec
  <2>5. stream'[sid] = [stream[sid] EXCEPT !.state = "closed", !.ret = ret]
    BY <1>1, <2>3
  <2>6. /\ stream' = [s \in Sids |-> stream'[s]]
        /\ \A s \in Sids \ {sid} : stream'[s] = stream[s]
    BY <1>1, <2>3
  <2>7. /\ stream'[sid] \in StreamRec /\ stream'[sid].state = "closed"
        /\ stream'[sid].pids = stream[sid].pids
        /\ stream'[sid].mode = stream[sid].mode /\ stream'[sid].n = stream[sid].n
    BY <1>1, <2>4, <2>5 DEF cur
  <2>8. call.i = Len(cur.pids)
    BY <1>1, <1>5
  <2>9. stream' \in [Sids -> StreamRec]
    BY <1>1, <2>6, <2>7
  <2> QED BY <1>1, <1>3, <2>1, <2>2, <2>6, <2>7, <2>8, <2>9
<1> QED BY <1>4, <1>5

LEMMA PipeCallInv ==
    ASSUME CallInv, Ppopen_pipe PROVE CallInv'
<1>0. InPopen /\ At("pipe") /\ UNCHANGED child
  BY DEF Ppopen_pipe, At, InPopen
<1>1. PICK rd, wr \in FreeFds : \E k :
        /\ fds' = [p \in Procs |-> fds'[p]]
        /\ \A p \in Procs : IsTable(fds'[p])
        /\ \/ /\ call.mode \in {"r", "w"} /\ UNCHANGED stream
              /\ call' \in CallRec /\ call'.pc = "fork"
              /\ call'.sid = call.sid /\ call'.mode = call.mode
              /\ call'.n = call.n /\ call'.i = call.i
           \/ Throw
  BY PipeEffect
<1>2. CASE Throw
  BY <1>0, <1>1, <1>2, ThrowCallInv
<1>3. CASE /\ call.mode \in {"r", "w"} /\ UNCHANGED stream
           /\ call' \in CallRec /\ call'.pc = "fork"
           /\ call'.sid = call.sid /\ call'.mode = call.mode
           /\ call'.n = call.n /\ call'.i = call.i
  <2>1. TypeInv'
    BY <1>0, <1>1, <1>3 DEF CallInv, TypeInv
  <2>2. nproc' = nproc /\ nstream' = nstream
    BY <1>0, <1>3, SameProcs, SameStreams
  <2>3. InTurn'
    BY <1>0, <1>3, <2>2 DEF CallInv, InTurn
  <2>4. Loop' /\ Waits'
    BY <1>0, <1>3, <2>2 DEF CallInv, Loop, Waits, InPopen, At, cur
  <2>5. States'
    BY <1>0, <1>3 DEF CallInv, States, InPopen, At
  <2> QED BY <2>1, <2>3, <2>4, <2>5 DEF CallInv
<1> QED BY <1>1, <1>2, <1>3

\* A process is forked and the call goes on.
LEMMA ForkCallInv ==
    ASSUME CallInv, At("fork"), NEW pc \in {"move_out", "exec"},
           Fork(nproc + 1, pc), call' \in CallRec, call'.sid = call.sid,
           stream' \in [Sids -> StreamRec],
           \A s \in Sids \ {call.sid} : stream'[s] = stream[s],
           \/ /\ UNCHANGED stream /\ call.mode # "spawn"
              /\ call'.pc = "close" /\ call'.pid = nproc + 1
              /\ call'.mode = call.mode /\ call'.n = call.n /\ call'.i = call.i
           \/ /\ call'.pc = "wait" /\ call'.i = 1
              /\ stream'[call.sid].state = "closing"
              /\ stream'[call.sid].pids = <<nproc + 1>>
    PROVE  CallInv'
<1> DEFINE pid == nproc + 1
<1>0. /\ InPopen /\ call.sid \in Sids /\ stream[call.sid].state = "opening"
      /\ nproc \in Nat /\ call.n \in Nat /\ call.i \in Nat
  <2>1. InPopen
    BY DEF At, InPopen
  <2> QED BY <2>1, InLoop DEF cur
<1>1. /\ pid \in Children /\ child[pid].pc = "unborn"
      /\ fds' = [p \in Procs |-> fds'[p]] /\ fds'[pid] = fds[0]
      /\ \A p \in Procs \ {pid} : fds'[p] = fds[p]
      /\ child' \in [Children -> ChildRec]
      /\ \A c \in Children \ {pid} : child'[c] = child[c]
      /\ child'[pid].pc = pc /\ nproc' = nproc + 1
  BY ForkEffect
<1>2. TypeInv'
  BY <1>1, ChildIsProc DEF CallInv, TypeInv
<1>3. InTurn'
  <2>1. nstream' = nstream
    BY <1>0, SameStreams
  <2>2. nproc + 1 \in 0..MaxProcs
    BY <1>0, <1>1, Constants DEF Children
  <2>3. ASSUME NEW c \in Children
        PROVE  child'[c].pc # "unborn" <=> c <= nproc + 1
    <3>1. c \in Nat /\ (child[c].pc # "unborn" <=> c <= nproc)
      BY Constants DEF CallInv, InTurn, Children
    <3>2. CASE c = pid
      BY <1>0, <1>1, <3>2
    <3>3. CASE c # pid
      BY <1>0, <1>1, <3>1, <3>3
    <3> QED BY <3>2, <3>3
  <2>4. \A s \in Sids : stream'[s].state # "new" <=> stream[s].state # "new"
    BY <1>0
  <2> QED BY <1>1, <2>1, <2>2, <2>3, <2>4 DEF CallInv, InTurn
<1>4. Loop' /\ Waits'
  <2>1. CASE call'.pc = "wait" /\ call'.i = 1 /\ stream'[call.sid].pids = <<nproc + 1>>
    <3>1. Len(<<nproc + 1>>) = 1
      OBVIOUS
    <3> QED BY <1>0, <2>1, <3>1 DEF Loop, Waits, InPopen, At, cur
  <2>2. CASE /\ UNCHANGED stream /\ call.mode # "spawn"
             /\ call'.pc = "close" /\ call'.pid = nproc + 1
             /\ call'.mode = call.mode /\ call'.n = call.n /\ call'.i = call.i
    <3>1. (nproc + 1) + (call.n - call.i) + 0 <= MaxProcs
      <4>1. nproc + (call.n - call.i) + 1 <= MaxProcs
        BY <1>0 DEF CallInv, Loop, At
      <4> QED BY <1>0, <4>1, Constants
    <3>2. call'.pid \in Children /\ child'[call'.pid].pc # "unborn"
      BY <1>1, <2>2
    <3>3. /\ call.mode = cur.mode /\ call.n = cur.n
          /\ 1 <= call.i /\ call.i <= call.n
          /\ Len(cur.pids) = call.i - 1
          /\ call.mode # "invalid"
      BY <1>0 DEF CallInv, Loop, At
    <3> QED BY <1>0, <1>1, <2>2, <3>1, <3>2, <3>3 DEF Loop, Waits, InPopen, At, cur
  <2> QED BY <2>1, <2>2
<1>5. States'
  <2> SUFFICES ASSUME NEW s \in Sids
               PROVE  /\ stream'[s].state = "opening" <=> InPopen' /\ s = call'.sid
                      /\ stream'[s].state = "closing" <=> At("wait")' /\ s = call'.sid
                      /\ stream'[s].state = "new" => stream'[s].pids = <<>>
                      /\ stream'[s].state = "open" =>
                           /\ Len(stream'[s].pids) = stream'[s].n /\ stream'[s].n >= 1
                           /\ stream'[s].mode \in {"r", "w"}
                      /\ \A j \in DOMAIN stream'[s].pids :
                           child'[stream'[s].pids[j]].pc # "unborn"
    BY DEF States
  <2>0. \A j \in DOMAIN stream[s].pids :
          /\ stream[s].pids[j] \in Children
          /\ child[stream[s].pids[j]].pc # "unborn"
    BY DEF CallInv, States, TypeInv, StreamRec
  <2>1. \A j \in DOMAIN stream[s].pids : child'[stream[s].pids[j]].pc # "unborn"
    BY <1>1, <2>0
  <2>2. CASE stream'[s] = stream[s]
    BY <1>0, <2>1, <2>2 DEF CallInv, States, InPopen, At
  <2>3. CASE s = call.sid /\ stream'[s].state = "closing" /\ call'.pc = "wait"
             /\ stream'[s].pids = <<pid>>
    BY <1>1, <2>3 DEF InPopen, At
  <2> QED BY <2>2, <2>3
<1> QED BY <1>2, <1>3, <1>4, <1>5 DEF CallInv

LEMMA CloseCallInv ==
    ASSUME CallInv, Ppopen_close PROVE CallInv'
<1>0. InPopen /\ At("close") /\ UNCHANGED <<child, stream>>
  BY DEF Ppopen_close, At, InPopen
<1>1. fds' = [p \in Procs |-> fds'[p]] /\ \A p \in Procs : IsTable(fds'[p])
  BY CloseEffect DEF CallInv, Ppopen_close
<1>2. /\ call' \in CallRec /\ call'.pc = "link"
      /\ call'.sid = call.sid /\ call'.mode = call.mode
      /\ call'.n = call.n /\ call'.i = call.i /\ call'.pid = call.pid
  BY <1>0, InLoop DEF Ppopen_close, CallRec
<1>3. nproc' = nproc /\ nstream' = nstream
  BY <1>0, SameProcs, SameStreams
<1>4. TypeInv'
  BY <1>0, <1>1, <1>2 DEF CallInv, TypeInv
<1>5. InTurn'
  BY <1>0, <1>3 DEF CallInv, InTurn
<1>6. Loop' /\ Waits'
  BY <1>0, <1>2, <1>3 DEF CallInv, Loop, Waits, InPopen, At, cur
<1>7. States'
  BY <1>0, <1>2 DEF CallInv, States, InPopen, At
<1> QED BY <1>4, <1>5, <1>6, <1>7 DEF CallInv

LEMMA LinkCallInv ==
    ASSUME CallInv, Ppopen_pipeline_link PROVE CallInv'
<1> DEFINE sid == call.sid
<1>0. InPopen /\ At("link") /\ UNCHANGED child
  BY DEF Ppopen_pipeline_link, At, InPopen
<1>1. /\ stream' \in [Sids -> StreamRec] /\ call' \in CallRec
      /\ \A s \in Sids \ {sid} : stream'[s] = stream[s]
      /\ stream'[sid].pids = Append(stream[sid].pids, call.pid)
      /\ stream'[sid].mode = call.mode /\ stream'[sid].n = call.n
      /\ call.i = call.n => stream'[sid].state = "open" /\ call'.pc = "lua"
      /\ call.i # call.n =>
           /\ stream'[sid].state = "opening" /\ call'.pc = "pipe"
           /\ call'.sid = sid /\ call'.mode = call.mode
           /\ call'.n = call.n /\ call'.i = call.i + 1
      /\ call.mode \in {"r", "w"}
  BY LinkEffect
<1>2. fds' = [p \in Procs |-> fds'[p]] /\ \A p \in Procs : IsTable(fds'[p])
  BY CloseEffect DEF CallInv, TypeInv, Ppopen_pipeline_link
<1>3. /\ sid \in Sids /\ stream[sid].state = "opening"
      /\ stream[sid].pids \in Seq(Children) /\ Len(stream[sid].pids) = call.i - 1
      /\ call.n \in Nat /\ call.i \in Nat /\ call.i <= call.n /\ 1 <= call.i
      /\ nproc \in Nat
      /\ call.pid \in Children /\ child[call.pid].pc # "unborn"
      /\ nproc + (call.n - call.i) <= MaxProcs
  BY <1>0, InLoop DEF cur, StreamRec, CallInv, Loop, At
<1>4. nproc' = nproc /\ nstream' = nstream
  BY <1>0, <1>1, <1>3, SameProcs, SameStreams
<1>5. TypeInv'
  BY <1>0, <1>1, <1>2 DEF CallInv, TypeInv
<1>6. InTurn'
  BY <1>0, <1>1, <1>3, <1>4 DEF CallInv, InTurn
<1>7. Len(stream'[sid].pids) = call.i
  BY <1>1, <1>3
<1>8. Loop' /\ Waits'
  <2>1. CASE call.i = call.n
    BY <1>1, <2>1 DEF Loop, Waits, InPopen, At
  <2>2. CASE call.i # call.n
    <3>1. /\ call'.pc = "pipe" /\ call'.sid = sid /\ call'.mode = call.mode
          /\ call'.n = call.n /\ call'.i = call.i + 1
      BY <1>1, <2>2
    <3>2. call.i + 1 <= call.n /\ 1 <= call.i + 1
      BY <1>3, <2>2
    <3>3. nproc + (call.n - (call.i + 1)) + 1 <= MaxProcs
      BY <1>3, Constants
    <3>4. Len(stream'[sid].pids) = (call.i + 1) - 1
      BY <1>3, <1>7
    <3> QED BY <1>1, <1>3, <1>4, <3>1, <3>2, <3>3, <3>4
            DEF Loop, Waits, InPopen, At, cur
  <2> QED BY <2>1, <2>2
<1>9. States'
  <2>1. ASSUME NEW j \in DOMAIN stream'[sid].pids
        PROVE  child[stream'[sid].pids[j]].pc # "unborn"
    <3>1. j \in 1..call.i /\ stream[sid].pids \in Seq(Children)
      BY <1>1, <1>3, <1>7
    <3>2. CASE j = call.i
      BY <1>1, <1>3, <3>2
    <3>3. CASE j # call.i
      <4>1. j \in DOMAIN stream[sid].pids
        BY <1>3, <3>1, <3>3
      <4>2. stream'[sid].pids[j] = stream[sid].pids[j]
        BY <1>1, <1>3, <4>1
      <4> QED BY <1>3, <4>1, <4>2 DEF CallInv, States
    <3> QED BY <3>2, <3>3
  <2> SUFFICES ASSUME NEW s \in Sids
               PROVE  /\ stream'[s].state = "opening" <=> InPopen' /\ s = call'.sid
                      /\ stream'[s].state = "closing" <=> At("wait")' /\ s = call'.sid
                      /\ stream'[s].state = "new" => stream'[s].pids = <<>>
                      /\ stream'[s].state = "open" =>
                           /\ Len(stream'[s].pids) = stream'[s].n /\ stream'[s].n >= 1
                           /\ stream'[s].mode \in {"r", "w"}
                      /\ \A j \in DOMAIN stream'[s].pids :
                           child[stream'[s].pids[j]].pc # "unborn"
    BY <1>0 DEF States
  <2>2. CASE s = sid
    <3>1. CASE call.i = call.n
      BY <1>1, <1>3, <1>7, <2>1, <2>2, <3>1 DEF InPopen, At
    <3>2. CASE call.i # call.n
      BY <1>1, <1>3, <1>7, <2>1, <2>2, <3>2 DEF InPopen, At
    <3> QED BY <3>1, <3>2
  <2>3. CASE s # sid
    BY <1>0, <1>1, <2>3 DEF CallInv, States, InPopen, At
  <2> QED BY <2>2, <2>3
<1> QED BY <1>5, <1>6, <1>8, <1>9 DEF CallInv

LEMMA PcloseEffect ==
    ASSUME CallInv, NEW sid \in Sids, Ppclose(sid)
    PROVE  /\ stream' \in [Sids -> StreamRec] /\ call' \in CallRec
           /\ \A s \in Sids \ {sid} : stream'[s] = stream[s]
           /\ stream'[sid].state = "closing" /\ stream'[sid].pids = stream[sid].pids
           /\ stream'[sid].mode = stream[sid].mode /\ stream'[sid].n = stream[sid].n
           /\ call'.pc = "wait" /\ call'.sid = sid /\ call'.i = 1
<1>1. /\ stream' \in [Sids -> StreamRec]
      /\ \A s \in Sids \ {sid} : stream'[s] = stream[s]
      /\ stream'[sid].state = "closing" /\ stream'[sid].pids = stream[sid].pids
      /\ stream'[sid].mode = stream[sid].mode /\ stream'[sid].n = stream[sid].n
  BY DEF CallInv, TypeInv, Ppclose, StreamRec
<1>2. call' = [pc |-> "wait", sid |-> sid, mode |-> "r", n |-> 0, i |-> 1,
               rd |-> 0, wr |-> 0, pid |-> 0]
  BY DEF Ppclose, Idle
<1>3. 0 \in Fds /\ 0 \in 0..MaxProcs /\ sid \in 0..MaxStreams /\ "r" \in AllModes
  BY Constants DEF Fds, Sids, AllModes
<1>4. call' \in CallRec
  BY <1>2, <1>3 DEF CallRec
<1> QED BY <1>1, <1>2, <1>4

LEMMA PcloseCallInv ==
    ASSUME CallInv, NEW sid \in Sids, Ppclose(sid) PROVE CallInv'
<1>0. At("lua") /\ stream[sid].state = "open" /\ UNCHANGED child
  BY DEF Ppclose
<1>1. /\ stream' \in [Sids -> StreamRec] /\ call' \in CallRec
      /\ \A s \in Sids \ {sid} : stream'[s] = stream[s]
      /\ stream'[sid].state = "closing" /\ stream'[sid].pids = stream[sid].pids
      /\ call'.pc = "wait" /\ call'.sid = sid /\ call'.i = 1
  BY PcloseEffect
<1>2. fds' = [p \in Procs |-> fds'[p]] /\ \A p \in Procs : IsTable(fds'[p])
  BY CloseEffect DEF CallInv, Ppclose
<1>3. nproc' = nproc /\ nstream' = nstream
  BY <1>0, <1>1, SameProcs, SameStreams
<1>4. TypeInv'
  BY <1>0, <1>1, <1>2 DEF CallInv, TypeInv
<1>5. InTurn'
  BY <1>0, <1>1, <1>3 DEF CallInv, InTurn
<1>6. Loop' /\ Waits'
  <2>1. 1 \in 1..Len(stream[sid].pids)
    BY <1>0 DEF CallInv, States, TypeInv, StreamRec
  <2> QED BY <1>1, <2>1 DEF Loop, Waits, InPopen, At, cur
<1>7. States'
  BY <1>0, <1>1 DEF CallInv, States, InPopen, At
<1> QED BY <1>4, <1>5, <1>6, <1>7 DEF CallInv

LEMMA WaitCallInv ==
    ASSUME CallInv, NEW pid \in Children, Ppclose_wait(pid) PROVE CallInv'
<1> DEFINE sid == call.sid
<1>0. At("wait") /\ UNCHANGED fds
  BY DEF Ppclose_wait
<1>1. /\ pid = cur.pids[call.i] /\ sid \in Sids /\ call.i \in 1..Len(cur.pids)
      /\ child' \in [Children -> ChildRec]
      /\ \A c \in Children \ {pid} : child'[c] = child[c]
      /\ \/ child[pid].pc = "zombie" /\ child'[pid].pc = "reaped"
         \/ child' = child
      /\ stream' \in [Sids -> StreamRec] /\ call' \in CallRec
      /\ \A s \in Sids \ {sid} : stream'[s] = stream[s]
      /\ stream'[sid].pids = stream[sid].pids
      /\ \/ /\ call.i < Len(cur.pids) /\ UNCHANGED stream
            /\ call'.pc = "wait" /\ call'.sid = sid /\ call'.i = call.i + 1
         \/ stream'[sid].state = "closed" /\ call'.pc = "lua"
  BY WaitEffect
<1>2. \A c \in Children : child'[c].pc # "unborn" <=> child[c].pc # "unborn"
  BY <1>1
<1>3. stream[sid].state = "closing"
  BY <1>0, <1>1 DEF CallInv, States
<1>4. nproc' = nproc /\ nstream' = nstream
  BY <1>1, <1>2, <1>3, SameProcs, SameStreams
<1>5. TypeInv'
  BY <1>0, <1>1 DEF CallInv, TypeInv
<1>6. InTurn'
  BY <1>1, <1>2, <1>3, <1>4 DEF CallInv, InTurn
<1>7. Loop' /\ Waits'
  <2>1. Len(cur.pids) \in Nat
    BY <1>1 DEF CallInv, TypeInv, StreamRec, cur
  <2> QED BY <1>1, <2>1 DEF Loop, Waits, InPopen, At, cur
<1>8. States'
  <2>1. \A s \in Sids : \A j \in DOMAIN stream'[s].pids :
          child'[stream'[s].pids[j]].pc # "unborn"
    <3> SUFFICES ASSUME NEW s \in Sids, NEW j \in DOMAIN stream'[s].pids
                 PROVE  child'[stream'[s].pids[j]].pc # "unborn"
      OBVIOUS
    <3>1. stream'[s].pids = stream[s].pids
      BY <1>1
    <3>2. stream[s].pids[j] \in Children /\ child[stream[s].pids[j]].pc # "unborn"
      BY <3>1 DEF CallInv, States, TypeInv, StreamRec
    <3> QED BY <1>2, <3>1, <3>2
  <2> QED BY <1>0, <1>1, <1>3, <2>1 DEF CallInv, States, InPopen, At
<1> QED BY <1>5, <1>6, <1>7, <1>8 DEF CallInv

\* The fork of spawn, which then waits as pclose does.
LEMMA SpawnForkEffect ==
    ASSUME CallInv, Pspawn_fork, ~Throw
    PROVE  /\ At("fork") /\ Fork(nproc + 1, "exec") /\ call.mode = "spawn"
           /\ call' \in CallRec /\ call'.sid = call.sid
           /\ call'.pc = "wait" /\ call'.i = 1
           /\ stream' \in [Sids -> StreamRec]
           /\ \A s \in Sids \ {call.sid} : stream'[s] = stream[s]
           /\ stream'[call.sid].state = "closing"
           /\ stream'[call.sid].pids = <<nproc + 1>>
           /\ stream'[call.sid].mode = stream[call.sid].mode
           /\ stream'[call.sid].n = stream[call.sid].n
<1> DEFINE sid == call.sid
           ps == <<nproc + 1>>
<1>1. /\ At("fork") /\ Fork(nproc + 1, "exec") /\ call.mode = "spawn"
      /\ call' = [call EXCEPT !.pc = "wait"]
      /\ stream' = [stream EXCEPT ![sid].pids = ps, ![sid].state = "closing"]
  BY DEF Pspawn_fork
<1>2. nproc + 1 \in Children
  BY <1>1, ForkEffect
<1>3. InPopen
  BY <1>1 DEF InPopen, At
<1>4. call.i = 1
  BY <1>1, <1>3, InLoop DEF CallInv, Loop
<1>5. call' \in CallRec /\ call'.sid = call.sid /\ call'.pc = "wait" /\ call'.i = 1
  BY <1>1, <1>3, <1>4, InLoop DEF CallRec
<1>6. ps \in Seq(Children)
  BY <1>2
<1> HIDE DEF ps
<1>7. ASSUME NEW r \in StreamRec, NEW q,
             q = [r EXCEPT !.pids = ps, !.state = "closing"]
      PROVE  /\ q \in StreamRec /\ q.state = "closing" /\ q.pids = ps
             /\ q.mode = r.mode /\ q.n = r.n
  BY <1>6, <1>7 DEF StreamRec
<1>8. /\ sid \in Sids /\ stream \in [Sids -> StreamRec] /\ stream[sid] \in StreamRec
  BY <1>3, InLoop DEF cur
<1>9. /\ stream'[sid] = [stream[sid] EXCEPT !.pids = ps, !.state = "closing"]
      /\ stream' = [s \in Sids |-> stream'[s]]
      /\ \A s \in Sids \ {sid} : stream'[s] = stream[s]
  BY <1>1, <1>8
<1>10. /\ stream'[sid] \in StreamRec /\ stream'[sid].state = "closing"
       /\ stream'[sid].pids = ps
       /\ stream'[sid].mode = stream[sid].mode /\ stream'[sid].n = stream[sid].n
  BY <1>7, <1>8, <1>9
<1>11. stream' \in [Sids -> StreamRec]
  BY <1>8, <1>9, <1>10
<1> QED BY <1>1, <1>5, <1>9, <1>10, <1>11 DEF ps

LEMMA SpawnForkCallInv ==
    ASSUME CallInv, Pspawn_fork PROVE CallInv'
<1>1. CASE Throw
  <2>1. Pspawn_fork => InPopen
    BY DEF Pspawn_fork, InPopen, At
  <2>2. CASE UNCHANGED <<fds, child>>
    BY <1>1, <2>1, <2>2, ThrowCallInv DEF CallInv, TypeInv
  <2>3. CASE call' = [call EXCEPT !.pc = "wait"]
    <3>1. call'.pc = "lua"
      BY <1>1 DEF Throw, Idle
    <3>2. call'.pc = "wait"
      BY <2>3 DEF CallInv, TypeInv, CallRec
    <3> QED BY <3>1, <3>2
  <2> QED BY <2>2, <2>3 DEF Pspawn_fork
<1>2. CASE ~Throw
  BY <1>2, SpawnForkEffect, ForkCallInv
<1> QED BY <1>1, <1>2

\* popen_pipeline and spawn begin a call.
LEMMA CallsBegin ==
    ASSUME CallInv,
           \/ \E mode \in Modes \ {"spawn"}, n \in 1..MaxStages :
                  Ppopen_pipeline(mode, n)
           \/ Pspawn
    PROVE  \E mode \in AllModes, n \in Nat \ {0}, pc \in {"pipe", "fork"}, sid \in Sids :
             /\ mode = "spawn" => pc = "fork" /\ n = 1
             /\ mode # "spawn" => pc = "pipe"
             /\ Begins(sid, mode, n, pc) /\ Begun(sid, mode, n, pc)
<1>1. ASSUME NEW mode \in Modes \ {"spawn"}, NEW n \in 1..MaxStages,
             Ppopen_pipeline(mode, n)
      PROVE  \E m \in Nat \ {0}, sid \in Sids :
               /\ mode \in AllModes
               /\ Begins(sid, mode, m, "pipe") /\ Begun(sid, mode, m, "pipe")
  <2>1. mode \in AllModes /\ n \in Nat \ {0}
    BY Constants
  <2>2. Begins(nstream + 1, mode, n, "pipe")
    BY <1>1 DEF Ppopen_pipeline, Begins
  <2>3. Begun(nstream + 1, mode, n, "pipe")
    BY <2>1, <2>2, BeginEffect
  <2> QED BY <2>1, <2>2, <2>3 DEF Begun
<1>2. CASE Pspawn
  <2>1. "spawn" \in AllModes /\ 1 \in Nat \ {0} /\ "fork" \in {"pipe", "fork"}
    BY DEF AllModes
  <2>2. Begins(nstream + 1, "spawn", 1, "fork")
    BY <1>2, Constants DEF Pspawn, Begins, CallInv, InTurn
  <2>3. Begun(nstream + 1, "spawn", 1, "fork")
    BY <2>1, <2>2, BeginEffect
  <2>4. nstream + 1 \in Sids
    BY <2>3 DEF Begun
  <2> QED BY <2>1, <2>2, <2>3, <2>4
<1> QED BY <1>1, <1>2

LEMMA NextCallInv == CallInv /\ [Next]_vars => CallInv'
<1> SUFFICES ASSUME CallInv, [Next]_vars PROVE CallInv'
  OBVIOUS
<1>0. TypeInv
  BY DEF CallInv
<1>1. CASE UNCHANGED vars
  <2>1. nproc' = nproc /\ nstream' = nstream
    BY <1>1 DEF vars, nproc, nstream
  <2> QED BY <1>1, <2>1 DEF vars, CallInv, TypeInv, InTurn, Loop, Waits, States,
                            InPopen, At, cur
<1>2. CASE Ppopen_pipe
  BY <1>2, PipeCallInv
<1>3. CASE Ppopen_pipe_fails \/ Ppopen_fork_fails
  <2>1. InPopen /\ Throw /\ UNCHANGED <<fds, child>>
    BY <1>3 DEF Ppopen_pipe_fails, Ppopen_fork_fails, InPopen, At
  <2> QED BY <1>0, <2>1, ThrowCallInv DEF TypeInv
<1>4. CASE Ppopen_fork
  <2>1. /\ At("fork") /\ call.mode # "spawn" /\ Fork(nproc + 1, "move_out")
        /\ call' = [call EXCEPT !.pc = "close", !.pid = nproc + 1]
        /\ UNCHANGED stream
    BY <1>4 DEF Ppopen_fork
  <2>2. nproc + 1 \in 0..MaxProcs
    BY <2>1, ForkEffect, Constants DEF Children
  <2>3. /\ call' \in CallRec /\ call'.sid = call.sid
        /\ call'.pc = "close" /\ call'.pid = nproc + 1
        /\ call'.mode = call.mode /\ call'.n = call.n /\ call'.i = call.i
    <3> DEFINE pid == nproc + 1
    <3>1. /\ call' = [call EXCEPT !.pc = "close", !.pid = pid]
          /\ pid \in 0..MaxProcs /\ call \in CallRec
      BY <1>0, <2>1, <2>2 DEF TypeInv
    <3> HIDE DEF pid
    <3>2. /\ call' \in CallRec /\ call'.sid = call.sid
          /\ call'.pc = "close" /\ call'.pid = pid
          /\ call'.mode = call.mode /\ call'.n = call.n /\ call'.i = call.i
      BY <3>1 DEF CallRec
    <3> QED BY <3>2 DEF pid
  <2>4. stream' \in [Sids -> StreamRec]
    BY <1>0, <2>1 DEF TypeInv
  <2> QED BY <2>1, <2>3, <2>4, ForkCallInv
<1>5. CASE Ppopen_close
  BY <1>5, CloseCallInv
<1>6. CASE Ppopen_pipeline_link
  BY <1>6, LinkCallInv
<1>7. CASE Pspawn_fork
  BY <1>7, SpawnForkCallInv
<1>8. ASSUME NEW pid \in Children, Ppclose_wait(pid) PROVE CallInv'
  BY <1>8, WaitCallInv
<1>9. CASE \/ \E mode \in Modes \ {"spawn"}, n \in 1..MaxStages :
                  Ppopen_pipeline(mode, n)
           \/ Pspawn
  <2>1. PICK mode \in AllModes, n \in Nat \ {0}, pc \in {"pipe", "fork"},
             sid \in Sids :
          /\ mode = "spawn" => pc = "fork" /\ n = 1
          /\ mode # "spawn" => pc = "pipe"
          /\ Begins(sid, mode, n, pc)
    BY <1>9, CallsBegin
  <2> QED BY <2>1, BeginCallInv
<1>11. ASSUME NEW sid \in Sids, Ppclose(sid) PROVE CallInv'
  BY <1>11, PcloseCallInv
<1>12. ASSUME NEW sid \in Sids, Program_read(sid) \/ Program_write(sid) PROVE CallInv'
  <2>1. UNCHANGED <<fds, child, call>> /\ StreamsKept /\ stream' \in [Sids -> StreamRec]
    BY <1>0, <1>12, ProgramUses
  <2> QED BY <1>0, <2>1, MovesCallInv DEF TypeInv
<1>13. ASSUME NEW c \in Children, ChildStep(c) \/ Stray_exit(c) PROVE CallInv'
  <2>1. ChildMoves(c)
    BY <1>0, <1>13, ChildStepMoves
  <2>2. \A p \in Procs : IsTable(fds'[p])
    BY <1>0, <2>1 DEF ChildMoves, TypeInv
  <2>3. \A d \in Children :
          /\ child'[d].pc # "unborn" <=> child[d].pc # "unborn"
          /\ child'[d].pc = "move_in" => child'[d].prev # -1
    BY <1>0, <2>1 DEF ChildMoves, TypeInv
  <2> QED BY <2>1, <2>2, <2>3, MovesCallInv DEF ChildMoves
<1> QED
  BY <1>1, <1>2, <1>3, <1>4, <1>5, <1>6, <1>7, <1>8, <1>9, <1>11, <1>12,
     <1>13 DEF Next, CallStep, ProgramStep, Sids

\* Every variable of the model keeps its type, and each step of popen_pipeline,
\* pclose and spawn finds its locals and its stream as Loop, Waits and States
\* say: processes and streams are never mixed up between calls.
THEOREM TypeCorrect == Spec => []CallInv
<1>1. Init => CallInv
  BY InitCallInv
<1>2. CallInv /\ [Next]_vars => CallInv'
  BY NextCallInv
<1> QED BY <1>1, <1>2, PTL DEF Spec

-----------------------------------------------------------------------------
(* Every process is waited for.                                            *)

\* pclose and spawn have waited for the processes before the one they are at.
WaitedSoFar ==
    At("wait") => \A j \in 1..(call.i - 1) : child[cur.pids[j]].pc = "reaped"

ReapInv == WaitedSoFar /\ Reaped

\* A process that was waited for stays so, in every step.
LEMMA ReapedStays ==
    ASSUME CallInv, [Next]_vars, NEW c \in Children, child[c].pc = "reaped"
    PROVE  child'[c].pc = "reaped"
<1>0. TypeInv
  BY DEF CallInv
<1>1. CASE UNCHANGED child
  BY <1>1
<1>2. ASSUME NEW d \in Children, ChildStep(d) \/ Stray_exit(d)
      PROVE  child'[c].pc = "reaped"
  <2>1. ChildMoves(d)
    BY <1>0, <1>2, ChildStepMoves
  <2> QED BY <2>1 DEF ChildMoves
<1>3. ASSUME NEW pc \in {"move_out", "exec"}, At("fork"), Fork(nproc + 1, pc)
      PROVE  child'[c].pc = "reaped"
  <2>1. child[nproc + 1].pc = "unborn" /\ c # nproc + 1 => child'[c] = child[c]
    BY <1>3, ForkEffect
  <2>2. child[nproc + 1].pc = "unborn"
    BY <1>3, ForkEffect
  <2> QED BY <2>1, <2>2
<1>4. ASSUME NEW pid \in Children, Ppclose_wait(pid) PROVE child'[c].pc = "reaped"
  BY <1>4, WaitEffect
<1>5. CASE Ppopen_fork \/ Pspawn_fork
  BY <1>1, <1>3, <1>5 DEF Ppopen_fork, Pspawn_fork
<1>6. CASE \/ UNCHANGED vars \/ Ppopen_pipe \/ Ppopen_pipe_fails
           \/ Ppopen_fork_fails \/ Ppopen_close \/ Ppopen_pipeline_link
           \/ ProgramStep
  <2>1. UNCHANGED child
    BY <1>6 DEF vars, Ppopen_pipe, Ppopen_pipe_fails, Ppopen_fork_fails,
                Ppopen_close, Ppopen_pipeline_link, ProgramStep,
                Ppopen_pipeline, Pspawn, Ppclose, Program_read, Program_write
  <2> QED BY <2>1
<1> QED BY <1>2, <1>4, <1>5, <1>6 DEF Next, CallStep

\* A step that makes no stream closed, and does not go on with waiting, keeps
\* ReapInv.
LEMMA ReapKept ==
    ASSUME CallInv, [Next]_vars, ReapInv,
           call'.pc # "wait" \/ UNCHANGED call \/ call'.i = 1,
           \A s \in Sids :
              /\ stream'[s].state = "closed" => stream[s].state = "closed"
              /\ stream[s].state \in {"closed", "closing"} =>
                   stream'[s].pids = stream[s].pids
    PROVE  ReapInv'
<1>1. Reaped'
  <2> SUFFICES ASSUME NEW s \in Sids, stream'[s].state = "closed",
                      NEW j \in DOMAIN stream'[s].pids
               PROVE  child'[stream'[s].pids[j]].pc = "reaped"
    BY DEF Reaped, Sids
  <2>1. stream[s].state = "closed" /\ stream'[s].pids = stream[s].pids
    OBVIOUS
  <2>2. child[stream[s].pids[j]].pc = "reaped" /\ stream[s].pids[j] \in Children
    BY <2>1 DEF ReapInv, Reaped, CallInv, TypeInv, StreamRec, Sids
  <2> QED BY <2>1, <2>2, ReapedStays
<1>2. WaitedSoFar'
  <2> SUFFICES ASSUME At("wait")', NEW j \in 1..(call'.i - 1)
               PROVE  child'[cur'.pids[j]].pc = "reaped"
    BY DEF WaitedSoFar
  <2>1. UNCHANGED call /\ At("wait")
    BY DEF At, WaitedSoFar
  <2>2. call.sid \in Sids /\ stream[call.sid].state = "closing"
        /\ call.i \in 1..Len(cur.pids) /\ cur.pids \in Seq(Children)
    BY <2>1 DEF CallInv, Waits, States, TypeInv, StreamRec, cur
  <2>3. cur'.pids = cur.pids
    BY <2>1, <2>2 DEF cur
  <2>4. child[cur.pids[j]].pc = "reaped" /\ cur.pids[j] \in Children
    BY <2>1, <2>2 DEF ReapInv, WaitedSoFar
  <2> QED BY <2>3, <2>4, ReapedStays
<1> QED BY <1>1, <1>2 DEF ReapInv

\* One wait of pclose, if no signal interrupts it.
LEMMA WaitReapInv ==
    ASSUME CallInv, [Next]_vars, ReapInv, "EINTR" \notin Failures,
           NEW pid \in Children, Ppclose_wait(pid)
    PROVE  ReapInv'
<1> DEFINE sid == call.sid
<1>1. /\ pid = cur.pids[call.i] /\ sid \in Sids /\ call.i \in 1..Len(cur.pids)
      /\ child'[pid].pc = "reaped"
      /\ \A s \in Sids \ {sid} : stream'[s] = stream[s]
      /\ stream'[sid].pids = stream[sid].pids
      /\ \/ /\ call.i < Len(cur.pids) /\ UNCHANGED stream
            /\ call'.pc = "wait" /\ call'.sid = sid /\ call'.i = call.i + 1
         \/ /\ call.i = Len(cur.pids) /\ stream'[sid].state = "closed"
            /\ call'.pc = "lua"
  BY WaitEffect
<1>2. /\ At("wait") /\ cur.pids \in Seq(Children) /\ call.i \in Nat
      /\ stream[sid].state = "closing"
  BY <1>1 DEF Ppclose_wait, CallInv, TypeInv, StreamRec, CallRec, cur, States
<1>3. \A j \in 1..call.i : child'[cur.pids[j]].pc = "reaped"
  <2> SUFFICES ASSUME NEW j \in 1..call.i PROVE child'[cur.pids[j]].pc = "reaped"
    OBVIOUS
  <2>1. CASE j = call.i
    BY <1>1, <2>1
  <2>2. CASE j # call.i
    <3>1. j \in 1..(call.i - 1) /\ cur.pids[j] \in Children
      BY <1>1, <1>2, <2>2
    <3>2. child[cur.pids[j]].pc = "reaped"
      BY <1>2, <3>1 DEF ReapInv, WaitedSoFar
    <3> QED BY <3>1, <3>2, ReapedStays
  <2> QED BY <2>1, <2>2
<1>4. \A s \in Sids \ {sid} : stream[s].state = "closed" =>
        \A j \in DOMAIN stream[s].pids : child'[stream[s].pids[j]].pc = "reaped"
  <2> SUFFICES ASSUME NEW s \in Sids, stream[s].state = "closed",
                      NEW j \in DOMAIN stream[s].pids
               PROVE  child'[stream[s].pids[j]].pc = "reaped"
    OBVIOUS
  <2>1. child[stream[s].pids[j]].pc = "reaped" /\ stream[s].pids[j] \in Children
    BY DEF ReapInv, Reaped, CallInv, TypeInv, StreamRec, Sids
  <2> QED BY <2>1, ReapedStays
<1>5. CASE /\ call.i < Len(cur.pids) /\ UNCHANGED stream
           /\ call'.pc = "wait" /\ call'.sid = sid /\ call'.i = call.i + 1
  <2>1. WaitedSoFar'
    BY <1>2, <1>3, <1>5 DEF WaitedSoFar, cur
  <2>2. Reaped'
    BY <1>2, <1>4, <1>5 DEF Reaped, Sids
  <2> QED BY <2>1, <2>2 DEF ReapInv
<1>6. CASE /\ call.i = Len(cur.pids) /\ stream'[sid].state = "closed"
           /\ call'.pc = "lua"
  <2>1. WaitedSoFar'
    BY <1>6 DEF WaitedSoFar, At
  <2>2. \A j \in DOMAIN stream'[sid].pids : child'[stream'[sid].pids[j]].pc = "reaped"
    BY <1>1, <1>2, <1>3, <1>6 DEF cur
  <2>3. Reaped'
    BY <1>1, <1>4, <2>2 DEF Reaped, Sids
  <2> QED BY <2>1, <2>3 DEF ReapInv
<1> QED BY <1>1, <1>5, <1>6

LEMMA NextReapInv ==
    ASSUME CallInv, ReapInv, [Next]_vars, "EINTR" \notin Failures
    PROVE  ReapInv'
<1>0. TypeInv
  BY DEF CallInv
<1>1. CASE UNCHANGED vars
  BY <1>1, ReapKept DEF vars
<1>2. CASE Ppopen_pipe
  <2>1. \/ UNCHANGED stream /\ call'.pc = "fork"
        \/ Throw
    BY <1>2, PipeEffect
  <2>2. InPopen
    BY <1>2 DEF Ppopen_pipe, InPopen, At
  <2> QED BY <2>1, <2>2, ThrowEffect, ReapKept
<1>3. CASE Ppopen_pipe_fails \/ Ppopen_fork_fails
  <2>1. InPopen /\ Throw
    BY <1>3 DEF Ppopen_pipe_fails, Ppopen_fork_fails, InPopen, At
  <2> QED BY <2>1, ThrowEffect, ReapKept
<1>4. CASE Ppopen_fork \/ Ppopen_close
  <2>1. UNCHANGED stream /\ call'.pc # "wait"
    BY <1>0, <1>4 DEF Ppopen_fork, Ppopen_close, TypeInv, CallRec
  <2> QED BY <2>1, ReapKept
<1>5. CASE Ppopen_pipeline_link
  <2>1. InPopen
    BY <1>5 DEF Ppopen_pipeline_link, InPopen, At
  <2>2. stream[call.sid].state = "opening" /\ call.sid \in Sids
    BY <2>1, InLoop DEF cur
  <2>3. /\ \A s \in Sids \ {call.sid} : stream'[s] = stream[s]
        /\ stream'[call.sid].state # "closed" /\ call'.pc # "wait"
    BY <1>5, LinkEffect
  <2> QED BY <2>2, <2>3, ReapKept
<1>6. CASE Pspawn_fork
  <2>0. InPopen
    BY <1>6 DEF Pspawn_fork, InPopen, At
  <2>1. CASE Throw
    BY <2>0, <2>1, ThrowEffect, ReapKept
  <2>2. CASE ~Throw
    <3>1. stream[call.sid].state = "opening" /\ call.sid \in Sids
      BY <2>0, InLoop DEF cur
    <3>2. /\ call'.i = 1 /\ stream'[call.sid].state = "closing"
          /\ \A s \in Sids \ {call.sid} : stream'[s] = stream[s]
      BY <1>6, <2>2, SpawnForkEffect
    <3> QED BY <3>1, <3>2, ReapKept
  <2> QED BY <2>1, <2>2
<1>7. ASSUME NEW pid \in Children, Ppclose_wait(pid) PROVE ReapInv'
  BY <1>7, WaitReapInv
<1>8. CASE \/ \E mode \in Modes \ {"spawn"}, n \in 1..MaxStages :
                  Ppopen_pipeline(mode, n)
           \/ Pspawn
  <2>1. PICK mode \in AllModes, n \in Nat \ {0}, pc \in {"pipe", "fork"},
             sid \in Sids : Begun(sid, mode, n, pc)
    BY <1>8, CallsBegin
  <2> QED BY <2>1, ReapKept DEF Begun
<1>9. ASSUME NEW sid \in Sids, Ppclose(sid) PROVE ReapInv'
  <2>1. stream[sid].state = "open"
    BY <1>9 DEF Ppclose
  <2>2. /\ \A s \in Sids \ {sid} : stream'[s] = stream[s]
        /\ stream'[sid].state = "closing" /\ call'.i = 1
    BY <1>9, PcloseEffect
  <2> QED BY <2>1, <2>2, ReapKept
<1>10. ASSUME NEW sid \in Sids, Program_read(sid) \/ Program_write(sid)
       PROVE  ReapInv'
  BY <1>0, <1>10, ProgramUses, ReapKept DEF StreamsKept
<1>11. ASSUME NEW c \in Children, ChildStep(c) \/ Stray_exit(c) PROVE ReapInv'
  BY <1>0, <1>11, ChildStepMoves, ReapKept DEF ChildMoves, StreamsKept
<1> QED
  BY <1>1, <1>2, <1>3, <1>4, <1>5, <1>6, <1>7, <1>8, <1>9, <1>10, <1>11
  DEF Next, CallStep, ProgramStep, Sids

\* pclose and spawn wait for every process they started: if no signal handler
\* interrupts wait, every process of a stream that was closed has ended and
\* has been waited for, whatever pipelines, processes and failures there were.
THEOREM EveryProcessReaped ==
    ASSUME "EINTR" \notin Failures
    PROVE  Spec => []Reaped
<1>1. Init => CallInv /\ ReapInv
  <2>1. Init => ReapInv
    BY DEF Init, ReapInv, WaitedSoFar, Reaped, At, Idle, New
  <2> QED BY <2>1, InitCallInv
<1>2. CallInv /\ ReapInv /\ [Next]_vars => CallInv' /\ ReapInv'
  BY NextCallInv, NextReapInv
<1>3. ReapInv => Reaped
  BY DEF ReapInv
<1> QED BY <1>1, <1>2, <1>3, PTL DEF Spec

-----------------------------------------------------------------------------
(* The descriptors of the program.                                         *)

\* The end of the last pipe that the program keeps.
IsOuter(e, mode) == IF mode = "r" THEN e = Read(e.pipe) ELSE e = Write(e.pipe)

\* popen_pipeline has both ends of a pipe, one end of it, or an end of the
\* pipe before it.
HasPipe == call.pc \in {"fork", "close"} /\ call.mode # "spawn"
HasOne  == call.pc = "link"
HasPrev == InPopen /\ call.i # 1

IsOpen(s) == stream[s].state = "open"

\* The standard descriptors stay as they are, and every descriptor that a
\* call or an open stream has is open and is the end of a pipe that it is
\* meant to be.
EndsHeld ==
    /\ \A f \in Fds : StdFds[f] \in {None, Tty}
    /\ \A f \in Fds : StdFds[f] # None => fds[0][f] = StdFds[f]
    /\ \A s \in Sids : IsOpen(s) =>
         stream[s].fd \in Fds /\ IsOuter(fds[0][stream[s].fd], stream[s].mode)
    /\ HasPipe => /\ fds[0][call.rd] = Read(fds[0][call.rd].pipe)
                  /\ fds[0][call.wr] = Write(fds[0][call.rd].pipe)
    /\ HasOne => IsOuter(fds[0][parent_fd(call)], call.mode)
    /\ HasPrev => cur.fd \in Fds /\ IsOuter(fds[0][cur.fd], call.mode)

\* No descriptor is held twice.
HeldOnce ==
    /\ \A s, t \in Sids : IsOpen(s) /\ IsOpen(t) /\ stream[s].fd = stream[t].fd
                            => s = t
    /\ HasPipe => call.rd # call.wr
    /\ \A s \in Sids : IsOpen(s) =>
         /\ HasPipe => stream[s].fd \notin {call.rd, call.wr}
         /\ HasOne => stream[s].fd # parent_fd(call)
         /\ HasPrev => stream[s].fd # cur.fd
    /\ HasPrev => /\ HasPipe => cur.fd \notin {call.rd, call.wr}
                  /\ HasOne => cur.fd # parent_fd(call)

\* Unless a call has failed, no descriptor is open that nobody holds.
NoneElse ==
    (\A s \in Sids : stream[s].state # "failed") =>
        \A f \in Fds : fds[0][f] # StdFds[f] =>
            \/ \E s \in Sids : IsOpen(s) /\ stream[s].fd = f
            \/ HasPipe /\ f \in {call.rd, call.wr}
            \/ HasOne /\ f = parent_fd(call)
            \/ HasPrev /\ f = cur.fd

HeldInv == EndsHeld /\ HeldOnce /\ NoneElse

LEMMA EndsDiffer ==
    /\ \A e, m : IsOuter(e, m) => e # None /\ e # Tty
    /\ \A k : /\ Read(k) # None /\ Read(k) # Tty /\ Write(k) # None /\ Write(k) # Tty
             /\ Read(k).pipe = k /\ Write(k).pipe = k
             /\ Read(k).end = "read" /\ Write(k).end = "write"
    /\ None # Tty
BY DEF IsOuter, None, Tty, Read, Write

\* The descriptors of a call are descriptors.
LEMMA CallFds ==
    ASSUME CallInv
    PROVE  /\ call.rd \in Fds /\ call.wr \in Fds
           /\ parent_fd(call) \in {call.rd, call.wr}
           /\ child_fd(call) \in {call.rd, call.wr}
           /\ parent_fd(call) # child_fd(call) <=> call.rd # call.wr
BY DEF CallInv, TypeInv, CallRec, parent_fd, child_fd

\* A step that leaves the calls and the program's descriptors alone.
LEMMA HeldKept ==
    ASSUME CallInv, HeldInv, StreamsKept, UNCHANGED call,
           fds'[0] = fds[0], fds'[-1] = fds[-1]
    PROVE  HeldInv'
<1>1. HasPrev => cur'.fd = cur.fd
  BY DEF HasPrev, CallInv, Loop, StreamsKept, cur
<1>2. /\ HasPrev' <=> HasPrev
      /\ HasPipe' <=> HasPipe
      /\ HasOne' <=> HasOne
      /\ parent_fd(call)' = parent_fd(call) /\ StdFds' = StdFds
  BY DEF HasPrev, HasPipe, HasOne, InPopen, parent_fd, StdFds
<1>3. EndsHeld'
  BY <1>1, <1>2 DEF HeldInv, EndsHeld, IsOpen, StreamsKept
<1>4. HeldOnce'
  BY <1>1, <1>2 DEF HeldInv, HeldOnce, IsOpen, StreamsKept
<1>5. NoneElse'
  BY <1>1, <1>2 DEF HeldInv, NoneElse, IsOpen, StreamsKept
<1> QED BY <1>3, <1>4, <1>5 DEF HeldInv

\* A step after which the program is in no call, or waits, or begins one: only
\* the open streams hold descriptors.
LEMMA HeldIdle ==
    ASSUME CallInv, HeldInv, ~HasPipe', ~HasOne', ~HasPrev',
           fds'[-1] = fds[-1],
           \A f \in Fds : StdFds[f] # None => fds'[0][f] = fds[0][f],
           \A s \in Sids : IsOpen(s)' =>
              /\ IsOpen(s) /\ stream'[s] = stream[s]
              /\ fds'[0][stream[s].fd] = fds[0][stream[s].fd],
           NoneElse'
    PROVE  HeldInv'
<1>1. StdFds' = StdFds
  BY DEF StdFds
<1>2. EndsHeld'
  BY <1>1 DEF HeldInv, EndsHeld
<1>3. HeldOnce'
  BY DEF HeldInv, HeldOnce
<1> QED BY <1>2, <1>3 DEF HeldInv

\* A call fails, perhaps after pipe has opened two descriptors.
LEMMA ThrowHeld ==
    ASSUME CallInv, HeldInv, InPopen, Throw, fds'[-1] = fds[-1],
           \A f \in Fds : fds[0][f] # None => fds'[0][f] = fds[0][f]
    PROVE  HeldInv'
<1>1. /\ call.sid \in Sids /\ stream[call.sid].state = "opening"
      /\ call'.pc = "lua" /\ stream'[call.sid].state = "failed"
      /\ \A s \in Sids \ {call.sid} : stream'[s] = stream[s]
  BY ThrowEffect
<1>2. ~HasPipe' /\ ~HasOne' /\ ~HasPrev'
  BY <1>1 DEF HasPipe, HasOne, HasPrev, InPopen
<1>3. NoneElse'
  BY <1>1 DEF NoneElse
<1>4. ASSUME NEW s \in Sids, IsOpen(s)'
      PROVE  /\ IsOpen(s) /\ stream'[s] = stream[s]
             /\ fds'[0][stream[s].fd] = fds[0][stream[s].fd]
  BY <1>1, <1>4, EndsDiffer DEF IsOpen, HeldInv, EndsHeld
<1>5. \A f \in Fds : StdFds[f] # None => fds'[0][f] = fds[0][f]
  BY DEF HeldInv, EndsHeld
<1> QED BY <1>2, <1>3, <1>4, <1>5, HeldIdle

LEMMA PipeHeld ==
    ASSUME CallInv, HeldInv, Ppopen_pipe PROVE HeldInv'
<1>0. InPopen /\ At("pipe") /\ ~HasPipe /\ ~HasOne
  BY DEF Ppopen_pipe, At, InPopen, HasPipe, HasOne
<1>1. PICK rd, wr \in FreeFds : \E k :
        /\ rd # wr
        /\ fds' = [fds EXCEPT ![0] = [@ EXCEPT ![rd] = Read(k), ![wr] = Write(k)]]
        /\ \/ /\ call.mode \in {"r", "w"} /\ UNCHANGED stream
              /\ call'.pc = "fork"
              /\ call'.sid = call.sid /\ call'.mode = call.mode
              /\ call'.n = call.n /\ call'.i = call.i
              /\ call'.rd = rd /\ call'.wr = wr
           \/ Throw
  BY PipeEffect
<1>2. PICK k :
        fds' = [fds EXCEPT ![0] = [@ EXCEPT ![rd] = Read(k), ![wr] = Write(k)]]
  BY <1>1
<1>3. /\ rd \in Fds /\ wr \in Fds /\ fds[0][rd] = None /\ fds[0][wr] = None
      /\ rd # wr
  BY <1>1 DEF FreeFds
<1>4. /\ fds'[-1] = fds[-1]
      /\ fds'[0][rd] = Read(k) /\ fds'[0][wr] = Write(k)
      /\ \A f \in Fds \ {rd, wr} : fds'[0][f] = fds[0][f]
  <2>1. /\ fds = [p \in Procs |-> fds[p]] /\ fds[0] = [f \in Fds |-> fds[0][f]]
        /\ 0 \in Procs /\ -1 \in Procs
    BY ChildIsProc DEF CallInv, TypeInv, IsTable
  <2> QED BY <1>2, <1>3, <2>1
<1>5. CASE Throw
  BY <1>0, <1>3, <1>4, <1>5, ThrowHeld
<1>6. CASE /\ call.mode \in {"r", "w"} /\ UNCHANGED stream
           /\ call'.pc = "fork"
           /\ call'.sid = call.sid /\ call'.mode = call.mode
           /\ call'.n = call.n /\ call'.i = call.i
           /\ call'.rd = rd /\ call'.wr = wr
  <2>1. /\ HasPipe' /\ ~HasOne' /\ (HasPrev' <=> HasPrev) /\ cur' = cur
        /\ StdFds' = StdFds
    BY <1>0, <1>4, <1>6 DEF HasPipe, HasOne, HasPrev, InPopen, cur, StdFds
  <2>2. \A s \in Sids : /\ IsOpen(s)' <=> IsOpen(s)
                        /\ IsOpen(s) => stream[s].fd \in Fds \ {rd, wr}
    BY <1>3, <1>6, EndsDiffer DEF IsOpen, HeldInv, EndsHeld
  <2>3. HasPrev => cur.fd \in Fds \ {rd, wr}
    BY <1>3, EndsDiffer DEF HeldInv, EndsHeld
  <2>4. \A f \in Fds : StdFds[f] # None => f \notin {rd, wr}
    BY <1>3 DEF HeldInv, EndsHeld
  <2>5. EndsHeld'
    BY <1>4, <1>6, <2>1, <2>2, <2>3, <2>4, EndsDiffer DEF HeldInv, EndsHeld
  <2>6. HeldOnce'
    BY <1>3, <1>6, <2>1, <2>2, <2>3 DEF HeldInv, HeldOnce
  <2>7. NoneElse'
    BY <1>0, <1>4, <1>6, <2>1, <2>2 DEF HeldInv, NoneElse
  <2> QED BY <2>5, <2>6, <2>7 DEF HeldInv
<1> QED BY <1>1, <1>5, <1>6

\* A process is forked: the program's descriptors are as they were.
LEMMA ForkHeld ==
    ASSUME CallInv, HeldInv, Ppopen_fork PROVE HeldInv'
<1>1. /\ At("fork") /\ call.mode # "spawn" /\ Fork(nproc + 1, "move_out")
      /\ UNCHANGED stream /\ call' = [call EXCEPT !.pc = "close", !.pid = nproc + 1]
  BY DEF Ppopen_fork
<1>2. /\ call'.pc = "close" /\ call'.sid = call.sid /\ call'.mode = call.mode
      /\ call'.i = call.i /\ call'.rd = call.rd /\ call'.wr = call.wr
  BY <1>1 DEF CallInv, TypeInv, CallRec
<1>3. fds'[0] = fds[0] /\ fds'[-1] = fds[-1]
  BY <1>1, ForkEffect, ChildIsProc, Constants DEF Children
<1>4. /\ HasPipe' /\ HasPipe /\ ~HasOne' /\ ~HasOne /\ (HasPrev' <=> HasPrev)
      /\ cur' = cur /\ StdFds' = StdFds
  BY <1>1, <1>2, <1>3 DEF HasPipe, HasOne, HasPrev, InPopen, At, cur, StdFds
<1>5. \A s \in Sids : IsOpen(s)' <=> IsOpen(s)
  BY <1>1 DEF IsOpen
<1>6. EndsHeld'
  BY <1>1, <1>2, <1>3, <1>4, <1>5 DEF HeldInv, EndsHeld
<1>7. HeldOnce'
  BY <1>1, <1>2, <1>4, <1>5 DEF HeldInv, HeldOnce
<1>8. NoneElse'
  BY <1>1, <1>2, <1>3, <1>4, <1>5 DEF HeldInv, NoneElse
<1> QED BY <1>6, <1>7, <1>8 DEF HeldInv

LEMMA CloseHeld ==
    ASSUME CallInv, HeldInv, Ppopen_close PROVE HeldInv'
<1> DEFINE f0 == child_fd(call)
           f1 == parent_fd(call)
<1>0. /\ At("close") /\ InPopen /\ UNCHANGED stream
      /\ fds' = [fds EXCEPT ![0] = CloseFd(@, f0)]
      /\ call' = [call EXCEPT !.pc = "link"]
  BY DEF Ppopen_close, At, InPopen
<1>1. /\ call'.pc = "link" /\ call'.sid = call.sid /\ call'.mode = call.mode
      /\ call'.i = call.i /\ call'.rd = call.rd /\ call'.wr = call.wr
  BY <1>0 DEF CallInv, TypeInv, CallRec
<1>2. call.mode \in {"r", "w"}
  <2>1. call.mode # "spawn" /\ call.mode # "invalid" /\ call.mode \in AllModes
    BY <1>0 DEF CallInv, TypeInv, CallRec, Loop, At
  <2> QED BY <2>1 DEF AllModes
<1>3. /\ HasPipe /\ ~HasPipe' /\ ~HasOne /\ HasOne' /\ (HasPrev' <=> HasPrev)
      /\ cur' = cur /\ parent_fd(call)' = f1
  BY <1>0, <1>1, <1>2 DEF At, HasPipe, HasOne, HasPrev, InPopen, cur, parent_fd
<1>4. /\ f0 \in Fds /\ f1 \in Fds /\ f0 # f1 /\ {f0, f1} = {call.rd, call.wr}
  BY <1>3, CallFds DEF HeldInv, HeldOnce, parent_fd, child_fd
<1>5. /\ fds'[-1] = fds[-1] /\ fds'[0][f0] = None
      /\ \A g \in Fds \ {f0} : fds'[0][g] = fds[0][g]
  <2> HIDE DEF f0, f1
  <2>1. -1 \in Procs \ {0} /\ TypeInv
    BY ChildIsProc DEF CallInv
  <2> QED BY <1>0, <1>4, <2>1, CloseEffect
<1>6. StdFds' = StdFds /\ StdFds[f0] = None
  <2>1. fds[0][f0] # Tty /\ fds[0][f0] # None
    BY <1>3, EndsDiffer DEF HeldInv, EndsHeld, child_fd
  <2> QED BY <1>4, <1>5, <2>1 DEF HeldInv, EndsHeld, StdFds
<1>7. \A s \in Sids : /\ IsOpen(s)' <=> IsOpen(s)
                      /\ IsOpen(s) => stream[s].fd \in Fds \ {f0, f1}
  BY <1>0, <1>3, <1>4 DEF IsOpen, HeldInv, EndsHeld, HeldOnce
<1>8. HasPrev => cur.fd \in Fds \ {f0, f1}
  BY <1>3, <1>4 DEF HeldInv, EndsHeld, HeldOnce
<1>9. IsOuter(fds[0][f1], call.mode)
  BY <1>2, <1>3, EndsDiffer DEF HeldInv, EndsHeld, IsOuter, parent_fd
<1> HIDE DEF f0, f1
<1>10. EndsHeld'
  BY <1>0, <1>1, <1>3, <1>4, <1>5, <1>6, <1>7, <1>8, <1>9 DEF HeldInv, EndsHeld
<1>11. HeldOnce'
  BY <1>0, <1>3, <1>7, <1>8 DEF HeldInv, HeldOnce
<1>12. NoneElse'
  BY <1>0, <1>3, <1>4, <1>5, <1>6, <1>7 DEF HeldInv, NoneElse
<1> QED BY <1>10, <1>11, <1>12 DEF HeldInv

LEMMA LinkHeld ==
    ASSUME CallInv, HeldInv, Ppopen_pipeline_link PROVE HeldInv'
<1>0. /\ At("link") /\ InPopen
      /\ fds' = IF call.i = 1 THEN fds ELSE [fds EXCEPT ![0] = CloseFd(@, cur.fd)]
  BY DEF Ppopen_pipeline_link, At, InPopen
<1>s. PICK sid \in Sids, f1 \in Fds : sid = call.sid /\ f1 = parent_fd(call)
  BY <1>0, InLoop, CallFds
<1>1. /\ sid \in Sids /\ stream[sid].state = "opening"
      /\ \A s \in Sids \ {sid} : stream'[s] = stream[s]
      /\ stream'[sid].fd = f1 /\ stream'[sid].mode = call.mode
      /\ call.i = call.n => stream'[sid].state = "open" /\ call'.pc = "lua"
      /\ call.i # call.n =>
           /\ stream'[sid].state = "opening" /\ call'.pc = "pipe"
           /\ call'.sid = sid /\ call'.mode = call.mode
           /\ call'.i = call.i + 1
      /\ call.i \in Nat /\ 1 <= call.i
  <2>1. /\ sid \in Sids /\ stream[sid].state = "opening" /\ call.i \in Nat
        /\ 1 <= call.i
    BY <1>0, <1>s, InLoop DEF cur, CallInv, Loop
  <2> QED BY <1>s, <2>1, LinkEffect
<1>2. /\ ~HasPipe /\ HasOne /\ (HasPrev <=> call.i # 1)
      /\ ~HasPipe' /\ ~HasOne' /\ (HasPrev' <=> call.i # call.n)
      /\ HasPrev' => cur' = stream'[sid] /\ call'.mode = call.mode
  BY <1>0, <1>s, <1>1 DEF At, HasPipe, HasOne, HasPrev, InPopen, cur
<1>3. f1 \in Fds /\ IsOuter(fds[0][f1], call.mode)
  BY <1>s, <1>2 DEF HeldInv, EndsHeld
<1>4. /\ fds'[-1] = fds[-1]
      /\ HasPrev => fds'[0][cur.fd] = None
      /\ \A g \in Fds : ~HasPrev \/ g # cur.fd => fds'[0][g] = fds[0][g]
  <2>1. CASE call.i = 1
    BY <1>0, <1>2, <2>1
  <2>2. CASE call.i # 1
    <3>1. cur.fd \in Fds /\ -1 \in Procs \ {0} /\ TypeInv
      BY <1>2, <2>2, ChildIsProc DEF HeldInv, EndsHeld, CallInv
    <3>2. PICK g0 \in Fds : /\ g0 = cur.fd
                            /\ fds' = [fds EXCEPT ![0] = CloseFd(@, g0)]
      BY <1>0, <2>2, <3>1
    <3>3. HasPrev
      BY <1>2, <2>2
    <3>4. /\ \A p \in Procs \ {0} : fds'[p] = fds[p] /\ fds'[0][g0] = None
          /\ \A g \in Fds \ {g0} : fds'[0][g] = fds[0][g]
      BY <3>1, <3>2, CloseEffect
    <3> QED BY <3>1, <3>2, <3>3, <3>4
  <2> QED BY <2>1, <2>2
<1>5. StdFds' = StdFds /\ (HasPrev => cur.fd \in Fds /\ StdFds[cur.fd] = None)
  BY <1>4, EndsDiffer DEF HeldInv, EndsHeld, StdFds
<1>6. HasPrev => cur.fd # f1
  BY <1>s, <1>2 DEF HeldInv, HeldOnce
<1>7. \A s \in Sids \ {sid} :
        /\ IsOpen(s)' <=> IsOpen(s)
        /\ IsOpen(s) => /\ stream[s].fd \in Fds /\ stream[s].fd # f1
                        /\ HasPrev => stream[s].fd # cur.fd
  BY <1>s, <1>1, <1>2 DEF IsOpen, HeldInv, EndsHeld, HeldOnce
<1>8. ~IsOpen(sid) /\ (IsOpen(sid)' <=> call.i = call.n)
  BY <1>1 DEF IsOpen
<1>9. fds'[0][f1] = fds[0][f1]
  BY <1>3, <1>4, <1>6
<1>10. EndsHeld'
  <2>1. \A s \in Sids : IsOpen(s)' =>
          stream'[s].fd \in Fds /\ IsOuter(fds'[0][stream'[s].fd], stream'[s].mode)
    <3> SUFFICES ASSUME NEW s \in Sids, IsOpen(s)'
                 PROVE  /\ stream'[s].fd \in Fds
                        /\ IsOuter(fds'[0][stream'[s].fd], stream'[s].mode)
      OBVIOUS
    <3>1. CASE s = sid
      BY <1>1, <1>3, <1>9, <3>1
    <3>2. CASE s # sid
      BY <1>1, <1>4, <1>7, <3>2 DEF HeldInv, EndsHeld
    <3> QED BY <3>1, <3>2
  <2>2. \A f \in Fds : StdFds[f] # None => fds'[0][f] = StdFds[f]
    BY <1>4, <1>5 DEF HeldInv, EndsHeld
  <2>3. HasPrev' => cur'.fd \in Fds /\ IsOuter(fds'[0][cur'.fd], call'.mode)
    BY <1>1, <1>2, <1>3, <1>9
  <2> QED BY <1>2, <1>5, <2>1, <2>2, <2>3 DEF HeldInv, EndsHeld
<1>11. HeldOnce'
  BY <1>1, <1>2, <1>7, <1>8 DEF HeldInv, HeldOnce
<1>12. NoneElse'
  <2> SUFFICES ASSUME \A s \in Sids : stream'[s].state # "failed",
                      NEW f \in Fds, fds'[0][f] # StdFds'[f]
               PROVE  \/ \E s \in Sids : IsOpen(s)' /\ stream'[s].fd = f
                      \/ HasPrev' /\ f = cur'.fd
    BY DEF NoneElse
  <2>1. \A s \in Sids : stream[s].state # "failed"
    BY <1>1
  <2>2. fds[0][f] # StdFds[f] /\ ~(HasPrev /\ f = cur.fd)
    BY <1>4, <1>5
  <2>3. \/ \E s \in Sids : IsOpen(s) /\ stream[s].fd = f
        \/ f = f1
    BY <1>s, <1>2, <2>1, <2>2 DEF HeldInv, NoneElse
  <2>4. ASSUME NEW s \in Sids, IsOpen(s), stream[s].fd = f
        PROVE  \E t \in Sids : IsOpen(t)' /\ stream'[t].fd = f
    BY <1>1, <1>7, <1>8, <2>4
  <2>5. CASE f = f1
    BY <1>1, <1>2, <1>8, <2>5
  <2> QED BY <2>3, <2>4, <2>5
<1> QED BY <1>10, <1>11, <1>12 DEF HeldInv

LEMMA PcloseHeld ==
    ASSUME CallInv, HeldInv, NEW sid \in Sids, Ppclose(sid) PROVE HeldInv'
<1>1. /\ At("lua") /\ IsOpen(sid)
      /\ fds' = [fds EXCEPT ![0] = CloseFd(@, stream[sid].fd)]
  BY DEF Ppclose, IsOpen
<1>2. /\ \A s \in Sids \ {sid} : stream'[s] = stream[s]
      /\ stream'[sid].state = "closing" /\ call'.pc = "wait"
  BY PcloseEffect
<1>3. /\ ~HasPipe /\ ~HasOne /\ ~HasPrev /\ ~HasPipe' /\ ~HasOne' /\ ~HasPrev'
  BY <1>1, <1>2 DEF At, HasPipe, HasOne, HasPrev, InPopen
<1>4. stream[sid].fd \in Fds /\ StdFds[stream[sid].fd] = None
  BY <1>1, EndsDiffer DEF HeldInv, EndsHeld
<1>5. /\ fds'[-1] = fds[-1] /\ fds'[0][stream[sid].fd] = None
      /\ \A g \in Fds \ {stream[sid].fd} : fds'[0][g] = fds[0][g]
  <2>1. -1 \in Procs \ {0} /\ TypeInv
    BY ChildIsProc DEF CallInv
  <2> QED BY <1>1, <1>4, <2>1, CloseEffect
<1>6. ASSUME NEW s \in Sids, IsOpen(s)'
      PROVE  /\ IsOpen(s) /\ stream'[s] = stream[s] /\ s # sid
             /\ fds'[0][stream[s].fd] = fds[0][stream[s].fd]
  <2>1. s # sid /\ IsOpen(s) /\ stream'[s] = stream[s]
    BY <1>2, <1>6 DEF IsOpen
  <2>2. stream[s].fd \in Fds /\ stream[s].fd # stream[sid].fd
    BY <1>1, <2>1 DEF HeldInv, EndsHeld, HeldOnce
  <2> QED BY <1>5, <2>1, <2>2
<1>7. \A f \in Fds : StdFds[f] # None => fds'[0][f] = fds[0][f]
  BY <1>4, <1>5
<1>8. NoneElse'
  <2> SUFFICES ASSUME \A s \in Sids : stream'[s].state # "failed",
                      NEW f \in Fds, fds'[0][f] # StdFds'[f]
               PROVE  \E s \in Sids : IsOpen(s)' /\ stream'[s].fd = f
    BY DEF NoneElse
  <2>1. \A s \in Sids : stream[s].state # "failed"
    BY <1>1, <1>2 DEF IsOpen
  <2>2. f # stream[sid].fd /\ fds[0][f] # StdFds[f]
    BY <1>4, <1>5 DEF StdFds
  <2>3. PICK s \in Sids : IsOpen(s) /\ stream[s].fd = f
    BY <1>3, <2>1, <2>2 DEF HeldInv, NoneElse
  <2> QED BY <1>2, <2>2, <2>3 DEF IsOpen
<1> QED BY <1>3, <1>5, <1>6, <1>7, <1>8, HeldIdle

\* A call begins, or goes on with waiting: the streams that are open, or have
\* failed, and the program's descriptors are as they were.
LEMMA OtherHeld ==
    ASSUME CallInv, HeldInv, ~HasPipe, ~HasOne, ~HasPrev,
           ~HasPipe', ~HasOne', ~HasPrev',
           fds'[0] = fds[0], fds'[-1] = fds[-1],
           \A s \in Sids : /\ IsOpen(s)' <=> IsOpen(s)
                           /\ IsOpen(s) => stream'[s] = stream[s]
                           /\ stream[s].state = "failed" =>
                                stream'[s].state = "failed"
    PROVE  HeldInv'
<1>1. NoneElse'
  BY DEF HeldInv, NoneElse, StdFds
<1> QED BY <1>1, HeldIdle

LEMMA NextHeld ==
    ASSUME CallInv, HeldInv, [Next]_vars PROVE HeldInv'
<1>0. TypeInv
  BY DEF CallInv
<1>1. CASE UNCHANGED vars
  BY <1>1, HeldKept DEF vars, StreamsKept
<1>2. CASE Ppopen_pipe
  BY <1>2, PipeHeld
<1>3. CASE Ppopen_pipe_fails \/ Ppopen_fork_fails
  <2>1. InPopen /\ Throw /\ UNCHANGED fds
    BY <1>3 DEF Ppopen_pipe_fails, Ppopen_fork_fails, InPopen, At
  <2> QED BY <2>1, ThrowHeld
<1>4. CASE Ppopen_fork
  BY <1>4, ForkHeld
<1>5. CASE Ppopen_close
  BY <1>5, CloseHeld
<1>6. CASE Ppopen_pipeline_link
  BY <1>6, LinkHeld
<1>7. CASE Pspawn_fork
  <2>0. InPopen /\ At("fork") /\ call.mode = "spawn"
    BY <1>7 DEF Pspawn_fork, InPopen, At
  <2>1. CASE Throw /\ UNCHANGED fds
    BY <2>0, <2>1, ThrowHeld
  <2>2. CASE ~Throw
    <3>1. /\ At("fork") /\ Fork(nproc + 1, "exec") /\ call'.pc = "wait"
          /\ stream'[call.sid].state = "closing"
          /\ \A s \in Sids \ {call.sid} : stream'[s] = stream[s]
      BY <1>7, <2>2, SpawnForkEffect
    <3>2. fds'[0] = fds[0] /\ fds'[-1] = fds[-1]
      BY <3>1, ForkEffect, ChildIsProc, Constants DEF Children
    <3>3. stream[call.sid].state = "opening" /\ call.sid \in Sids /\ call.i = 1
      BY <2>0, InLoop DEF cur, CallInv, Loop
    <3>4. ~HasPipe /\ ~HasOne /\ ~HasPrev /\ ~HasPipe' /\ ~HasOne' /\ ~HasPrev'
      BY <2>0, <3>1, <3>3 DEF HasPipe, HasOne, HasPrev, InPopen, At
    <3> QED BY <3>1, <3>2, <3>3, <3>4, OtherHeld DEF IsOpen
  <2>3. Throw => UNCHANGED fds
    <3>1. CASE call' = [call EXCEPT !.pc = "wait"]
      <4>1. call'.pc = "wait"
        BY <1>0, <3>1 DEF TypeInv, CallRec
      <4> QED BY <4>1 DEF Throw, Idle
    <3> QED BY <1>7, <3>1 DEF Pspawn_fork
  <2> QED BY <2>1, <2>2, <2>3
<1>8. ASSUME NEW pid \in Children, Ppclose_wait(pid) PROVE HeldInv'
  <2>1. At("wait") /\ UNCHANGED fds
    BY <1>8 DEF Ppclose_wait
  <2>2. /\ call.sid \in Sids /\ \A s \in Sids \ {call.sid} : stream'[s] = stream[s]
        /\ stream'[call.sid] = stream[call.sid] \/ stream'[call.sid].state = "closed"
        /\ call'.pc \in {"wait", "lua"}
    BY <1>8, WaitEffect
  <2>3. stream[call.sid].state = "closing"
    BY <2>1, <2>2 DEF CallInv, States
  <2>4. ~HasPipe /\ ~HasOne /\ ~HasPrev /\ ~HasPipe' /\ ~HasOne' /\ ~HasPrev'
    BY <2>1, <2>2 DEF HasPipe, HasOne, HasPrev, InPopen, At
  <2> QED BY <2>1, <2>2, <2>3, <2>4, OtherHeld DEF IsOpen
<1>9. CASE \/ \E mode \in Modes \ {"spawn"}, n \in 1..MaxStages :
                  Ppopen_pipeline(mode, n)
           \/ Pspawn
  <2>1. PICK mode \in AllModes, n \in Nat \ {0}, pc \in {"pipe", "fork"},
             sid \in Sids : /\ mode # "spawn" => pc = "pipe"
                            /\ Begins(sid, mode, n, pc) /\ Begun(sid, mode, n, pc)
    BY <1>9, CallsBegin
  <2>2. ~HasPipe /\ ~HasOne /\ ~HasPrev /\ ~HasPipe' /\ ~HasOne' /\ ~HasPrev'
    BY <2>1 DEF HasPipe, HasOne, HasPrev, InPopen, At, Begins, Begun
  <2> QED BY <2>1, <2>2, OtherHeld DEF Begun, IsOpen
<1>10. ASSUME NEW sid \in Sids, Ppclose(sid) PROVE HeldInv'
  BY <1>10, PcloseHeld
<1>11. ASSUME NEW sid \in Sids, Program_read(sid) \/ Program_write(sid)
       PROVE  HeldInv'
  BY <1>0, <1>11, ProgramUses, HeldKept
<1>12. ASSUME NEW c \in Children, ChildStep(c) \/ Stray_exit(c) PROVE HeldInv'
  <2>1. ChildMoves(c)
    BY <1>0, <1>12, ChildStepMoves
  <2>2. fds'[0] = fds[0] /\ fds'[-1] = fds[-1]
    BY <2>1, ChildIsProc, Constants DEF ChildMoves, Children
  <2> QED BY <2>1, <2>2, HeldKept DEF ChildMoves
<1> QED
  BY <1>1, <1>2, <1>3, <1>4, <1>5, <1>6, <1>7, <1>8, <1>9, <1>10, <1>11, <1>12
  DEF Next, CallStep, ProgramStep, Sids

LEMMA InitHeld == Init => HeldInv
<1> SUFFICES ASSUME Init PROVE HeldInv
  OBVIOUS
<1>1. /\ ~HasPipe /\ ~HasOne /\ ~HasPrev
      /\ \A s \in Sids : ~IsOpen(s)
  BY DEF Init, Idle, New, HasPipe, HasOne, HasPrev, InPopen, IsOpen, Sids
<1>2. PICK c \in Closed :
        LET std == [f \in Fds |-> IF f \in {0, 1} \ c THEN Tty ELSE None]
        IN fds = [p \in Procs |-> IF p \in {-1, 0} THEN std ELSE AllClosed]
  BY DEF Init
<1>3. /\ fds[0] = StdFds
      /\ \A f \in Fds : StdFds[f] \in {None, Tty}
  BY <1>2, ChildIsProc DEF StdFds
<1> QED BY <1>1, <1>3 DEF HeldInv, EndsHeld, HeldOnce, NoneElse

\* The program keeps no end of a pipe that it should have closed and closes
\* none that it still needs: outside a call, and unless one has failed, it
\* holds no descriptor but its standard ones and one end for each open stream,
\* whatever descriptors it was started without.
THEOREM ParentHoldsItsEnds == Spec => []ParentHolds
<1>1. Init => CallInv /\ HeldInv
  BY InitCallInv, InitHeld
<1>2. CallInv /\ HeldInv /\ [Next]_vars => CallInv' /\ HeldInv'
  BY NextCallInv, NextHeld
<1>3. CallInv /\ HeldInv => ParentHolds
  <2> SUFFICES ASSUME HeldInv, At("lua") PROVE ParentHolds
    BY DEF ParentHolds
  <2>1. ~HasPipe /\ ~HasOne /\ ~HasPrev
    BY DEF At, HasPipe, HasOne, HasPrev, InPopen
  <2> QED BY <2>1 DEF HeldInv, NoneElse, ParentHolds, IsOpen, Sids
<1> QED BY <1>1, <1>2, <1>3, PTL DEF Spec

-----------------------------------------------------------------------------
(* The wiring.                                                             *)

\* The end of the pipe that is made for a child: the other end of the one the
\* program keeps.
IsInner(e, mode) == IF mode = "r" THEN e = Write(e.pipe) ELSE e = Read(e.pipe)

\* The round of popen_pipeline's loop in which a child was forked.
Round(c) == Task(child[c].mode, stream[child[c].sid].n, child[c].task)

\* A task of a pipeline, before or after it begins to run.
Alive(c) ==
    /\ child[c].mode # "spawn"
    /\ child[c].pc \in {"move_out", "close_parent", "move_in", "exec", "run"}

\* The end of its own pipe and the end of the previous pipe, wherever the
\* child has them by now.
OutEnd(c) ==
    fds[c][IF child[c].pc = "move_out" THEN child_fd(child[c])
                                       ELSE out_fd(child[c])]
InEnd(c) ==
    fds[c][IF child[c].pc \in {"move_out", "close_parent", "move_in"}
             THEN child[c].prev ELSE in_fd(child[c])]

\* Which child belongs to which stream, and that the rounds to come have none.
Placed(c) ==
    /\ child[c].sid \in Sids /\ stream[child[c].sid].state # "new"
    /\ child[c].mode = stream[child[c].sid].mode
    /\ child[c].mode # "spawn" =>
         /\ child[c].mode \in {"r", "w"}
         /\ Round(c) \in 1..stream[child[c].sid].n
         /\ child[c].prev = -1 <=> Round(c) = 1

InRound(c) ==
    child[c].mode # "spawn" /\ InPopen /\ child[c].sid = call.sid =>
        /\ Round(c) <= call.i
        /\ call.pc \in {"pipe", "fork"} => Round(c) < call.i

Place == \A c \in Children : child[c].pc # "unborn" => Placed(c) /\ InRound(c)

\* What a child has while it moves descriptors.
Moving(c) ==
    /\ child[c].rd # child[c].wr
    /\ child[c].prev \notin {child[c].rd, child[c].wr}
    /\ {child[c].rd, child[c].wr, child[c].prev} \cap {STDIN_FILENO, STDOUT_FILENO} = {}
    /\ IsInner(OutEnd(c), child[c].mode)
    /\ IF child[c].prev = -1 THEN fds[c][in_fd(child[c])] = Tty
                             ELSE IsOuter(InEnd(c), child[c].mode)

\* Neighbours have the two ends of one pipe.
JoinedTo(c, d) ==
    /\ Alive(c) /\ Alive(d) /\ child[c].sid = child[d].sid
    /\ Round(d) = Round(c) + 1
    => OutEnd(c).pipe = InEnd(d).pipe

Joined == \A c, d \in Children : JoinedTo(c, d)

\* The child forked last has the other end of the pipe that the program keeps
\* for an open stream, or for the next round.
Outermost(c) ==
    /\ IsOpen(child[c].sid) /\ Round(c) = stream[child[c].sid].n =>
         OutEnd(c).pipe = fds[0][stream[child[c].sid].fd].pipe
    /\ InPopen /\ child[c].sid = call.sid =>
         /\ HasPrev /\ Round(c) = call.i - 1 => OutEnd(c).pipe = fds[0][cur.fd].pipe
         /\ Round(c) = call.i => OutEnd(c).pipe = fds[0][parent_fd(call)].pipe

StdOpen == StdFds[STDIN_FILENO] = Tty /\ StdFds[STDOUT_FILENO] = Tty

WireInv ==
    /\ StdOpen /\ Place /\ Joined
    /\ \A c \in Children : Alive(c) => Moving(c) /\ Outermost(c)

\* A child has the same ends as before, perhaps elsewhere, or has ended.
SameChild(c) ==
    /\ child'[c].sid = child[c].sid /\ child'[c].mode = child[c].mode
    /\ child'[c].rd = child[c].rd /\ child'[c].wr = child[c].wr
    /\ child'[c].prev = child[c].prev /\ child'[c].task = child[c].task
    /\ child'[c].pc # "unborn" <=> child[c].pc # "unborn"
    /\ Alive(c)' =>
         /\ Alive(c) /\ OutEnd(c)' = OutEnd(c)
         /\ IF child[c].prev = -1 THEN fds'[c][in_fd(child[c])] = fds[c][in_fd(child[c])]
                                  ELSE InEnd(c)' = InEnd(c)

\* A stream in use keeps its mode and its tasks.
SameStreamsUsed ==
    \A s \in Sids : stream[s].state # "new" =>
        /\ stream'[s].state # "new"
        /\ stream'[s].mode = stream[s].mode /\ stream'[s].n = stream[s].n

LEMMA UnmovedIsSame ==
    ASSUME NEW c \in Children, child'[c] = child[c], fds'[c] = fds[c]
    PROVE  SameChild(c)
BY DEF SameChild, Alive, OutEnd, InEnd

\* If every child has its ends and every stream its tasks, children stay in
\* place and joined; and one that is outermost is so because of the program.
LEMMA SameRounds ==
    ASSUME CallInv, WireInv, SameStreamsUsed,
           NEW c \in Children, SameChild(c), child[c].pc # "unborn"
    PROVE  Placed(c)' /\ Round(c)' = Round(c) /\ Round(c) \in Int
<1>1. Placed(c)
  BY DEF WireInv, Place
<1>2. child[c].sid \in Sids /\ stream[child[c].sid].state # "new"
  BY <1>1 DEF Placed
<1>3. Round(c)' = Round(c)
  BY <1>2 DEF SameChild, SameStreamsUsed, Round
<1>4. Round(c) \in Int
  BY <1>2 DEF Round, Task, CallInv, TypeInv, StreamRec, ChildRec
<1> QED BY <1>1, <1>2, <1>3, <1>4 DEF Placed, SameChild, SameStreamsUsed

LEMMA SameWires ==
    ASSUME CallInv, WireInv, SameStreamsUsed,
           NEW C \in SUBSET Children, \A c \in C : SameChild(c)
    PROVE  /\ \A c, d \in C : JoinedTo(c, d)'
           /\ \A c \in C : child'[c].pc # "unborn" => Placed(c)'
           /\ \A c \in C : Alive(c)' => Moving(c)'
<1>1. ASSUME NEW c \in C, child'[c].pc # "unborn"
      PROVE  Placed(c)' /\ Round(c)' = Round(c)
  BY <1>1, SameRounds DEF SameChild
<1>2. ASSUME NEW c \in C, Alive(c)'
      PROVE  /\ Alive(c) /\ child'[c].pc # "unborn" /\ child[c].pc # "unborn"
             /\ Moving(c)
  BY <1>2 DEF SameChild, Alive, WireInv
<1>3. ASSUME NEW c \in C, Alive(c)' PROVE Moving(c)'
  <2>1. in_fd(child[c])' = in_fd(child[c])
    BY DEF SameChild, in_fd
  <2> QED BY <1>2, <1>3, <2>1 DEF Moving, SameChild
<1>4. \A c, d \in C : JoinedTo(c, d)'
  <2> SUFFICES ASSUME NEW c \in C, NEW d \in C,
                      Alive(c)', Alive(d)', child'[c].sid = child'[d].sid,
                      Round(d)' = Round(c)' + 1
               PROVE  OutEnd(c)'.pipe = InEnd(d)'.pipe
    BY DEF JoinedTo
  <2>1. Round(c)' = Round(c) /\ Round(d)' = Round(d) /\ Alive(c) /\ Alive(d)
    BY <1>1, <1>2
  <2>2. child[d].prev # -1
    <3>1. Placed(c) /\ Placed(d)
      BY <1>2 DEF WireInv, Place
    <3>2. child[c].mode # "spawn" /\ child[d].mode # "spawn"
      BY <2>1 DEF Alive
    <3>3. stream[child[c].sid].n \in Nat
      BY <3>1 DEF Placed, CallInv, TypeInv, StreamRec
    <3> QED BY <2>1, <3>1, <3>2, <3>3 DEF Placed
  <2>3. OutEnd(c)' = OutEnd(c) /\ InEnd(d)' = InEnd(d)
    BY <2>2 DEF SameChild
  <2>4. child[c].sid = child[d].sid
    BY DEF SameChild
  <2> QED BY <2>1, <2>3, <2>4 DEF WireInv, Joined, JoinedTo
<1> QED BY <1>1, <1>3, <1>4

\* A child moves its descriptors.
LEMMA ChildKeepsEnds ==
    ASSUME CallInv, WireInv, NEW c \in Children, ChildStep(c) \/ Stray_exit(c)
    PROVE  SameChild(c)
<1> DEFINE t == fds[c]
           m == child[c]
<1>0. /\ ChildMoves(c) /\ m \in ChildRec /\ IsTable(t)
      /\ fds = [p \in Procs |-> fds[p]] /\ c \in Procs
      /\ child \in [Children -> ChildRec]
      /\ {STDIN_FILENO, STDOUT_FILENO} \subseteq Fds
      /\ STDIN_FILENO # STDOUT_FILENO
  BY ChildStepMoves, ChildIsProc, Constants
  DEF CallInv, TypeInv, Fds, STDIN_FILENO, STDOUT_FILENO
<1>1. /\ child'[c].sid = m.sid /\ child'[c].mode = m.mode
      /\ child'[c].rd = m.rd /\ child'[c].wr = m.wr
      /\ child'[c].prev = m.prev /\ child'[c].task = m.task
      /\ child'[c].pc # "unborn" <=> m.pc # "unborn"
  BY <1>0 DEF ChildMoves
<1>2. /\ child_fd(child'[c]) = child_fd(m) /\ out_fd(child'[c]) = out_fd(m)
      /\ in_fd(child'[c]) = in_fd(m) /\ parent_fd(child'[c]) = parent_fd(m)
  BY <1>1 DEF child_fd, out_fd, in_fd, parent_fd
<1>3. /\ child_fd(m) \in Fds /\ parent_fd(m) \in Fds
      /\ out_fd(m) \in Fds /\ in_fd(m) \in Fds /\ out_fd(m) # in_fd(m)
  BY <1>0 DEF ChildRec, child_fd, out_fd, in_fd, parent_fd
<1>4. ASSUME Alive(c)
      PROVE  /\ child_fd(m) # parent_fd(m)
             /\ m.prev \notin {child_fd(m), parent_fd(m)}
             /\ {child_fd(m), parent_fd(m), m.prev} \cap {in_fd(m), out_fd(m)} = {}
  BY <1>4 DEF WireInv, Moving, child_fd, out_fd, in_fd, parent_fd
<1>5. ASSUME NEW at, NEW next, NEW table, ChildSteps(c, at, next, table)
      PROVE  m.pc = at /\ child'[c].pc = next /\ fds'[c] = table
  BY <1>0, <1>5 DEF ChildSteps, ChildRec
<1>6. m.mode = "spawn" => SameChild(c)
  BY <1>1 DEF SameChild, Alive
<1>13. child'[c].pc = "stray" => SameChild(c)
  BY <1>1 DEF SameChild, Alive
<1> HIDE DEF t, m
<1>7. CASE Child_move_out(c) /\ child[c].mode # "spawn" /\ child'[c].pc # "stray"
  <2>1. /\ m.pc = "move_out" /\ child'[c].pc = "close_parent"
        /\ fds'[c] = move_fd(t, child_fd(m), out_fd(m)) /\ Alive(c)
    BY <1>5, <1>7 DEF Child_move_out, move_fd_fails, Alive, t, m
  <2>2. \A f \in Fds : fds'[c][f] = IF f = out_fd(m) THEN t[child_fd(m)]
                                    ELSE IF f = child_fd(m) THEN None ELSE t[f]
    BY <1>0, <1>3, <1>4, <2>1 DEF move_fd, CloseFd, IsTable
  <2>3. m.prev # -1 => m.prev \in Fds
    BY <1>0 DEF ChildRec
  <2>4. fds'[c][out_fd(m)] = t[child_fd(m)] /\ fds'[c][in_fd(m)] = t[in_fd(m)]
    BY <1>3, <1>4, <2>1, <2>2
  <2>5. m.prev # -1 => fds'[c][m.prev] = t[m.prev]
    BY <1>4, <2>1, <2>2, <2>3
  <2> QED BY <1>1, <1>2, <2>1, <2>4, <2>5 DEF SameChild, OutEnd, InEnd, m, t
<1>8. CASE Child_close_parent(c) /\ child[c].mode # "spawn"
  <2>1. /\ m.pc = "close_parent" /\ child'[c].pc = AfterClose(c)
        /\ fds'[c] = CloseFd(t, parent_fd(m)) /\ Alive(c)
    BY <1>5, <1>8 DEF Child_close_parent, Alive, t, m
  <2>2. \A f \in Fds : f # parent_fd(m) => fds'[c][f] = t[f]
    BY <1>0, <1>3, <2>1 DEF CloseFd, IsTable
  <2>3. m.prev # -1 => m.prev \in Fds
    BY <1>0 DEF ChildRec
  <2>4. fds'[c][out_fd(m)] = t[out_fd(m)] /\ fds'[c][in_fd(m)] = t[in_fd(m)]
    BY <1>3, <1>4, <2>1, <2>2
  <2>5. m.prev # -1 => fds'[c][m.prev] = t[m.prev] /\ child'[c].pc = "move_in"
    BY <1>4, <2>1, <2>2, <2>3 DEF AfterClose, m
  <2>6. m.prev = -1 => child'[c].pc = "exec"
    BY <2>1 DEF AfterClose, m
  <2> QED BY <1>1, <1>2, <2>1, <2>4, <2>5, <2>6 DEF SameChild, OutEnd, InEnd, m, t
<1>9. CASE Child_move_in(c) /\ child[c].mode # "spawn" /\ child'[c].pc # "stray"
  <2>1. /\ m.pc = "move_in" /\ child'[c].pc = "exec"
        /\ fds'[c] = move_fd(t, m.prev, in_fd(m)) /\ Alive(c)
    BY <1>5, <1>9 DEF Child_move_in, move_fd_fails, Alive, t, m
  <2>2. m.prev \in Fds /\ m.prev # -1
    BY <1>0, <2>1 DEF ChildRec, CallInv, TypeInv, m
  <2>3. \A f \in Fds : fds'[c][f] = IF f = in_fd(m) THEN t[m.prev]
                                    ELSE IF f = m.prev THEN None ELSE t[f]
    BY <1>0, <1>3, <1>4, <2>1, <2>2 DEF move_fd, CloseFd, IsTable
  <2>4. fds'[c][out_fd(m)] = t[out_fd(m)] /\ fds'[c][in_fd(m)] = t[m.prev]
    BY <1>3, <1>4, <2>1, <2>3
  <2> QED BY <1>1, <1>2, <2>1, <2>2, <2>4 DEF SameChild, OutEnd, InEnd, m, t
<1>10. CASE Pexecx(c) /\ child[c].mode # "spawn" /\ child'[c].pc # "stray"
  <2>1. /\ m.pc = "exec"
        /\ \/ child'[c].pc = "zombie"
           \/ child'[c].pc = "run" /\ fds'[c] = t /\ Alive(c)
    BY <1>5, <1>10 DEF Pexecx, Alive, t, m
  <2>2. CASE child'[c].pc = "zombie"
    BY <1>1, <2>2 DEF SameChild, Alive, m
  <2>3. CASE child'[c].pc = "run" /\ fds'[c] = t /\ Alive(c)
    BY <1>1, <1>2, <2>1, <2>3 DEF SameChild, OutEnd, InEnd, m, t
  <2> QED BY <2>1, <2>2, <2>3
<1>11. CASE Task_eof(c) \/ Task_sigpipe(c) \/ Stray_exit(c)
  <2>1. child'[c].pc = "zombie"
    BY <1>5, <1>11 DEF Task_eof, Task_sigpipe, Exit, Stray_exit
  <2> QED BY <1>1, <2>1 DEF SameChild, Alive, m
<1>12. CASE Task_read(c) \/ Task_write(c)
  <2>1. fds'[c] = t /\ child'[c].pc = m.pc /\ m.pc = "run"
    BY <1>0, <1>12 DEF Task_read, Task_write, ChildRec, t, m
  <2> QED BY <1>1, <1>2, <2>1 DEF SameChild, OutEnd, InEnd, Alive, m, t
<1> QED BY <1>6, <1>7, <1>8, <1>9, <1>10, <1>11, <1>12, <1>13 DEF ChildStep, m

\* A step of the program, perhaps with a fork: the children of C have their
\* ends as before, and what the program does to its own is shown for each.
LEMMA WireStep ==
    ASSUME CallInv, WireInv, SameStreamsUsed, fds'[-1] = fds[-1],
           NEW C \in SUBSET Children, \A c \in C : SameChild(c),
           \A c \in C : child[c].pc # "unborn" /\ child[c].mode # "spawn" =>
              (InPopen' /\ child[c].sid = call'.sid =>
                 /\ Round(c) <= call'.i
                 /\ call'.pc \in {"pipe", "fork"} => Round(c) < call'.i),
           \A c \in C : Alive(c) =>
              /\ stream'[child[c].sid].state = "open"
                   /\ Round(c) = stream[child[c].sid].n =>
                   OutEnd(c).pipe = fds'[0][stream'[child[c].sid].fd].pipe
              /\ InPopen' /\ child[c].sid = call'.sid =>
                   /\ HasPrev' /\ Round(c) = call'.i - 1 =>
                        OutEnd(c).pipe = fds'[0][cur'.fd].pipe
                   /\ Round(c) = call'.i =>
                        OutEnd(c).pipe = fds'[0][parent_fd(call)'].pipe,
           \A c \in Children \ C :
              /\ Placed(c)' /\ InRound(c)'
              /\ Alive(c)' => Moving(c)' /\ Outermost(c)'
              /\ \A d \in Children : JoinedTo(c, d)' /\ JoinedTo(d, c)'
    PROVE  WireInv'
<1>1. /\ \A c, d \in C : JoinedTo(c, d)'
      /\ \A c \in C : child'[c].pc # "unborn" => Placed(c)'
      /\ \A c \in C : Alive(c)' => Moving(c)'
  BY SameWires
<1>2. StdOpen' /\ Joined'
  BY <1>1 DEF WireInv, StdOpen, StdFds, Joined
<1>3. ASSUME NEW c \in C, child'[c].pc # "unborn"
      PROVE  /\ child[c].pc # "unborn" /\ Round(c)' = Round(c)
             /\ child'[c].sid = child[c].sid /\ child'[c].mode = child[c].mode
             /\ stream'[child[c].sid].n = stream[child[c].sid].n
  <2>1. child[c].pc # "unborn"
    BY <1>3 DEF SameChild
  <2>2. child[c].sid \in Sids /\ stream[child[c].sid].state # "new"
    BY <2>1 DEF WireInv, Place, Placed
  <2> QED BY <2>1, <2>2, SameRounds DEF SameChild, SameStreamsUsed
<1>4. ASSUME NEW c \in C, child'[c].pc # "unborn" PROVE InRound(c)'
  BY <1>3, <1>4 DEF InRound
<1>5. Place'
  BY <1>1, <1>4 DEF Place
<1>6. ASSUME NEW c \in C, Alive(c)' PROVE Outermost(c)'
  <2>1. Alive(c) /\ OutEnd(c)' = OutEnd(c) /\ child'[c].pc # "unborn"
    BY <1>6 DEF SameChild, Alive
  <2> QED BY <1>3, <2>1 DEF Outermost, IsOpen
<1> QED BY <1>1, <1>2, <1>5, <1>6 DEF WireInv

LEMMA UsedIfKept ==
    ASSUME StreamsKept PROVE SameStreamsUsed
BY DEF StreamsKept, SameStreamsUsed

\* Where a child is placed.
LEMMA PlacedOf ==
    ASSUME CallInv, WireInv, NEW c \in Children, child[c].pc # "unborn"
    PROVE  /\ Placed(c) /\ child[c].sid \in Sids
           /\ stream[child[c].sid].state # "new"
           /\ child[c].mode # "spawn" => Round(c) \in Nat /\ Round(c) >= 1
<1>1. Placed(c) /\ child[c].sid \in Sids
  BY DEF WireInv, Place, Placed
<1>2. stream[child[c].sid].n \in Nat
  BY <1>1 DEF CallInv, TypeInv, StreamRec
<1> QED BY <1>1, <1>2 DEF Placed

\* Neither a call nor the program's descriptors change.
LEMMA WireKept ==
    ASSUME CallInv, WireInv, StreamsKept, UNCHANGED call,
           fds'[0] = fds[0], fds'[-1] = fds[-1],
           \A c \in Children : SameChild(c)
    PROVE  WireInv'
<1>1. SameStreamsUsed
  BY UsedIfKept
<1>2. /\ InPopen' <=> InPopen
      /\ HasPrev' <=> HasPrev
      /\ parent_fd(call)' = parent_fd(call)
  BY DEF InPopen, HasPrev, parent_fd
<1>3. InPopen => cur'.fd = cur.fd
  BY DEF StreamsKept, cur, CallInv, Loop
<1>4. ASSUME NEW c \in Children, child[c].pc # "unborn", child[c].mode # "spawn",
             InPopen', child[c].sid = call'.sid
      PROVE  /\ Round(c) <= call'.i
             /\ call'.pc \in {"pipe", "fork"} => Round(c) < call'.i
  BY <1>2, <1>4 DEF WireInv, Place, InRound
<1>5. ASSUME NEW c \in Children, Alive(c)
      PROVE  /\ stream'[child[c].sid].state = "open"
                   /\ Round(c) = stream[child[c].sid].n =>
                   OutEnd(c).pipe = fds'[0][stream'[child[c].sid].fd].pipe
             /\ InPopen' /\ child[c].sid = call'.sid =>
                   /\ HasPrev' /\ Round(c) = call'.i - 1 =>
                        OutEnd(c).pipe = fds'[0][cur'.fd].pipe
                   /\ Round(c) = call'.i =>
                        OutEnd(c).pipe = fds'[0][parent_fd(call)'].pipe
  <2>1. child[c].sid \in Sids /\ Outermost(c)
    BY <1>5, PlacedOf DEF Alive, WireInv
  <2> QED BY <1>2, <1>3, <2>1 DEF Outermost, IsOpen, StreamsKept
<1> QED BY <1>1, <1>4, <1>5, WireStep

\* A step after which the program is not in the loop of popen_pipeline: only
\* the open streams matter.
LEMMA WireIdle ==
    ASSUME CallInv, WireInv, SameStreamsUsed, ~InPopen', fds'[-1] = fds[-1],
           \A s \in Sids : stream'[s].state = "open" =>
              /\ IsOpen(s) /\ stream'[s].fd = stream[s].fd
              /\ fds'[0][stream[s].fd] = fds[0][stream[s].fd],
           \A c \in Children : SameChild(c)
    PROVE  WireInv'
<1>1. ASSUME NEW c \in Children, Alive(c), stream'[child[c].sid].state = "open",
             Round(c) = stream[child[c].sid].n
      PROVE  OutEnd(c).pipe = fds'[0][stream'[child[c].sid].fd].pipe
  <2>1. child[c].sid \in Sids /\ Outermost(c)
    BY <1>1, PlacedOf DEF Alive, WireInv
  <2> QED BY <1>1, <2>1 DEF Outermost, IsOpen
<1> QED BY <1>1, WireStep

\* A call fails.
LEMMA ThrowWire ==
    ASSUME CallInv, HeldInv, WireInv, InPopen, Throw, UNCHANGED child,
           fds'[-1] = fds[-1], \A c \in Children : fds'[c] = fds[c],
           \A f \in Fds : fds[0][f] # None => fds'[0][f] = fds[0][f]
    PROVE  WireInv'
<1>1. /\ call.sid \in Sids /\ stream[call.sid].state = "opening"
      /\ call'.pc = "lua" /\ stream'[call.sid].state = "failed"
      /\ \A s \in Sids \ {call.sid} : stream'[s] = stream[s]
      /\ stream'[call.sid].mode = stream[call.sid].mode
      /\ stream'[call.sid].n = stream[call.sid].n
  BY ThrowEffect
<1>2. SameStreamsUsed /\ ~InPopen'
  BY <1>1 DEF SameStreamsUsed, InPopen
<1>3. ASSUME NEW s \in Sids, stream'[s].state = "open"
      PROVE  /\ IsOpen(s) /\ stream'[s].fd = stream[s].fd
             /\ fds'[0][stream[s].fd] = fds[0][stream[s].fd]
  BY <1>1, <1>3, EndsDiffer DEF IsOpen, HeldInv, EndsHeld
<1>4. \A c \in Children : SameChild(c)
  BY UnmovedIsSame
<1> QED BY <1>2, <1>3, <1>4, WireIdle

LEMMA PcloseWire ==
    ASSUME CallInv, HeldInv, WireInv, NEW sid \in Sids, Ppclose(sid)
    PROVE  WireInv'
<1>1. /\ IsOpen(sid) /\ UNCHANGED child
      /\ fds' = [fds EXCEPT ![0] = CloseFd(@, stream[sid].fd)]
  BY DEF Ppclose, IsOpen
<1>2. /\ \A s \in Sids \ {sid} : stream'[s] = stream[s]
      /\ stream'[sid].state = "closing" /\ call'.pc = "wait"
      /\ stream'[sid].mode = stream[sid].mode /\ stream'[sid].n = stream[sid].n
  BY PcloseEffect
<1>3. /\ \A p \in Procs \ {0} : fds'[p] = fds[p]
      /\ \A g \in Fds \ {stream[sid].fd} : fds'[0][g] = fds[0][g]
  BY <1>1, CloseEffect DEF CallInv
<1>4. fds'[-1] = fds[-1] /\ \A c \in Children : fds'[c] = fds[c]
  BY <1>3, ChildIsProc, Constants DEF Children
<1>5. SameStreamsUsed /\ ~InPopen'
  BY <1>2 DEF SameStreamsUsed, InPopen
<1>6. ASSUME NEW s \in Sids, stream'[s].state = "open"
      PROVE  /\ IsOpen(s) /\ stream'[s].fd = stream[s].fd
             /\ fds'[0][stream[s].fd] = fds[0][stream[s].fd]
  <2>1. s # sid /\ IsOpen(s) /\ stream'[s] = stream[s]
    BY <1>2, <1>6 DEF IsOpen
  <2>2. stream[s].fd \in Fds /\ stream[s].fd # stream[sid].fd
    BY <1>1, <2>1 DEF HeldInv, EndsHeld, HeldOnce
  <2> QED BY <1>3, <2>1, <2>2
<1>7. \A c \in Children : SameChild(c)
  BY <1>1, <1>4, UnmovedIsSame
<1> QED BY <1>4, <1>5, <1>6, <1>7, WireIdle

LEMMA WaitWire ==
    ASSUME CallInv, WireInv, NEW pid \in Children, Ppclose_wait(pid)
    PROVE  WireInv'
<1>0. At("wait") /\ UNCHANGED fds
  BY DEF Ppclose_wait
<1>1. /\ call.sid \in Sids /\ \A s \in Sids \ {call.sid} : stream'[s] = stream[s]
      /\ stream'[call.sid] = stream[call.sid] \/ stream'[call.sid].state = "closed"
      /\ stream'[call.sid].mode = stream[call.sid].mode
      /\ stream'[call.sid].n = stream[call.sid].n
      /\ call'.pc \in {"wait", "lua"}
      /\ \A c \in Children \ {pid} : child'[c] = child[c]
      /\ \/ child[pid].pc = "zombie" /\ child'[pid].pc = "reaped"
            /\ child'[pid] = [child[pid] EXCEPT !.pc = "reaped"]
         \/ child' = child
  BY WaitEffect
<1>2. stream[call.sid].state = "closing"
  BY <1>0, <1>1 DEF CallInv, States
<1>3. SameStreamsUsed /\ ~InPopen'
  BY <1>1, <1>2 DEF SameStreamsUsed, InPopen
<1>4. ASSUME NEW s \in Sids, stream'[s].state = "open"
      PROVE  IsOpen(s) /\ stream'[s].fd = stream[s].fd
  BY <1>1, <1>2, <1>4 DEF IsOpen
<1>5. \A c \in Children : SameChild(c)
  <2>1. \A c \in Children : child'[c] = child[c] => SameChild(c)
    BY <1>0, UnmovedIsSame
  <2>2. CASE /\ child[pid].pc = "zombie" /\ child'[pid].pc = "reaped"
             /\ child'[pid] = [child[pid] EXCEPT !.pc = "reaped"]
    <3>1. ~Alive(pid)' /\ child[pid] \in ChildRec
      BY <2>2 DEF Alive, CallInv, TypeInv
    <3>2. /\ child'[pid].sid = child[pid].sid /\ child'[pid].mode = child[pid].mode
          /\ child'[pid].rd = child[pid].rd /\ child'[pid].wr = child[pid].wr
          /\ child'[pid].prev = child[pid].prev /\ child'[pid].task = child[pid].task
      BY <2>2, <3>1 DEF ChildRec
    <3>3. SameChild(pid)
      BY <2>2, <3>1, <3>2 DEF SameChild
    <3> QED BY <1>1, <2>1, <3>3
  <2> QED BY <1>1, <2>1, <2>2
<1> QED BY <1>0, <1>3, <1>4, <1>5, WireIdle

\* The calls of popen_pipeline and spawn begin with a stream that no child has.
LEMMA BeginWire ==
    ASSUME CallInv, HeldInv, WireInv, NEW mode, NEW n, NEW pc, NEW sid,
           Begun(sid, mode, n, pc)
    PROVE  WireInv'
<1>1. /\ sid \in Sids /\ stream[sid].state = "new"
      /\ call'.sid = sid /\ call'.i = 1
      /\ \A s \in Sids \ {sid} : stream'[s] = stream[s]
      /\ stream'[sid].state = "opening" /\ UNCHANGED <<fds, child>>
  BY DEF Begun
<1>2. SameStreamsUsed
  BY <1>1 DEF SameStreamsUsed
<1>3. \A c \in Children : SameChild(c)
  BY <1>1, UnmovedIsSame
<1>4. ASSUME NEW c \in Children, child[c].pc # "unborn"
      PROVE  child[c].sid \in Sids /\ child[c].sid # sid
  BY <1>1, <1>4, PlacedOf
<1>5. ASSUME NEW c \in Children, Alive(c), stream'[child[c].sid].state = "open",
             Round(c) = stream[child[c].sid].n
      PROVE  OutEnd(c).pipe = fds'[0][stream'[child[c].sid].fd].pipe
  <2>1. child[c].sid \in Sids /\ child[c].sid # sid /\ Outermost(c)
    BY <1>4, <1>5 DEF Alive, WireInv
  <2> QED BY <1>1, <1>5, <2>1 DEF Outermost, IsOpen
<1>6. \A c \in Children : Alive(c) => child[c].pc # "unborn"
  BY DEF Alive
<1> QED BY <1>1, <1>2, <1>3, <1>4, <1>5, <1>6, WireStep

\* A step within a round that keeps the ends the children are joined by.
LEMMA WireLoop ==
    ASSUME CallInv, WireInv, InPopen, InPopen', UNCHANGED <<stream, child>>,
           call'.sid = call.sid, call'.i = call.i,
           call'.pc \in {"pipe", "fork"} => call.pc \in {"pipe", "fork"},
           fds'[-1] = fds[-1], \A c \in Children : fds'[c] = fds[c],
           \A s \in Sids : IsOpen(s) =>
              fds'[0][stream[s].fd] = fds[0][stream[s].fd],
           HasPrev => fds'[0][cur.fd] = fds[0][cur.fd],
           call.pc \notin {"pipe", "fork"} =>
              fds'[0][parent_fd(call)'] = fds[0][parent_fd(call)]
    PROVE  WireInv'
<1>1. SameStreamsUsed /\ cur' = cur /\ (HasPrev' <=> HasPrev)
  BY DEF SameStreamsUsed, cur, HasPrev
<1>2. \A c \in Children : SameChild(c)
  BY UnmovedIsSame
<1>3. ASSUME NEW c \in Children, child[c].pc # "unborn", child[c].mode # "spawn",
             child[c].sid = call'.sid
      PROVE  /\ Round(c) <= call'.i
             /\ call.pc \in {"pipe", "fork"} => Round(c) < call'.i
             /\ Round(c) \in Int /\ call'.i \in Int
  BY <1>3, PlacedOf, InLoop DEF WireInv, Place, InRound
<1>4. ASSUME NEW c \in Children, Alive(c)
      PROVE  /\ stream'[child[c].sid].state = "open"
                   /\ Round(c) = stream[child[c].sid].n =>
                   OutEnd(c).pipe = fds'[0][stream'[child[c].sid].fd].pipe
             /\ InPopen' /\ child[c].sid = call'.sid =>
                   /\ HasPrev' /\ Round(c) = call'.i - 1 =>
                        OutEnd(c).pipe = fds'[0][cur'.fd].pipe
                   /\ Round(c) = call'.i =>
                        OutEnd(c).pipe = fds'[0][parent_fd(call)'].pipe
  <2>1. /\ child[c].sid \in Sids /\ Outermost(c)
        /\ child[c].pc # "unborn" /\ child[c].mode # "spawn"
    BY <1>4, PlacedOf DEF Alive, WireInv
  <2>2. child[c].sid = call'.sid /\ Round(c) = call'.i =>
          call.pc \notin {"pipe", "fork"}
    BY <1>3, <2>1
  <2> QED BY <1>1, <2>1, <2>2 DEF Outermost, IsOpen
<1> QED BY <1>1, <1>2, <1>3, <1>4, WireStep

LEMMA PipeWire ==
    ASSUME CallInv, HeldInv, WireInv, Ppopen_pipe PROVE WireInv'
<1>0. InPopen /\ call.pc = "pipe" /\ UNCHANGED child
  BY DEF Ppopen_pipe, At, InPopen
<1>1. PICK rd \in FreeFds, wr \in FreeFds : \E k :
        /\ fds' = [fds EXCEPT ![0] = [@ EXCEPT ![rd] = Read(k), ![wr] = Write(k)]]
        /\ \/ /\ call'.pc = "fork" /\ UNCHANGED stream
              /\ call'.sid = call.sid /\ call'.i = call.i
           \/ Throw
  BY PipeEffect
<1>2. /\ \A p \in Procs \ {0} : fds'[p] = fds[p]
      /\ \A f \in Fds : fds[0][f] # None => fds'[0][f] = fds[0][f]
  <2>1. PICK k : fds' = [fds EXCEPT ![0] = [@ EXCEPT ![rd] = Read(k), ![wr] = Write(k)]]
    BY <1>1
  <2>2. fds[0][rd] = None /\ fds[0][wr] = None
    BY DEF FreeFds
  <2>3. IsTable(fds[0]) /\ fds = [p \in Procs |-> fds[p]] /\ 0 \in Procs
    BY ChildIsProc DEF CallInv, TypeInv
  <2> DEFINE t == [fds[0] EXCEPT ![rd] = Read(k), ![wr] = Write(k)]
  <2>4. \A f \in Fds : fds[0][f] # None => t[f] = fds[0][f]
    BY <2>2, <2>3 DEF IsTable
  <2>5. fds' = [fds EXCEPT ![0] = t]
    BY <2>1
  <2> HIDE DEF t
  <2> QED BY <2>3, <2>4, <2>5
<1>3. fds'[-1] = fds[-1] /\ \A c \in Children : fds'[c] = fds[c]
  BY <1>2, ChildIsProc, Constants DEF Children
<1>4. CASE Throw
  BY <1>0, <1>2, <1>3, <1>4, ThrowWire
<1>5. CASE ~Throw
  <2>1. /\ call'.pc = "fork" /\ UNCHANGED stream
        /\ call'.sid = call.sid /\ call'.i = call.i
    BY <1>1, <1>5
  <2>2. InPopen'
    BY <2>1 DEF InPopen
  <2>3. \A s \in Sids : IsOpen(s) => fds'[0][stream[s].fd] = fds[0][stream[s].fd]
    BY <1>2, EndsDiffer DEF HeldInv, EndsHeld
  <2>4. HasPrev => fds'[0][cur.fd] = fds[0][cur.fd]
    BY <1>2, EndsDiffer DEF HeldInv, EndsHeld
  <2> QED BY <1>0, <1>3, <2>1, <2>2, <2>3, <2>4, WireLoop
<1> QED BY <1>4, <1>5

LEMMA CloseWire ==
    ASSUME CallInv, HeldInv, WireInv, Ppopen_close PROVE WireInv'
<1>1. /\ call.pc = "close" /\ InPopen /\ UNCHANGED <<stream, child>>
      /\ fds' = [fds EXCEPT ![0] = CloseFd(@, child_fd(call))]
      /\ call' = [call EXCEPT !.pc = "link"]
  BY DEF Ppopen_close, At, InPopen
<1>2. /\ call'.pc = "link" /\ call'.sid = call.sid /\ call'.i = call.i
      /\ call'.mode = call.mode /\ call'.rd = call.rd /\ call'.wr = call.wr
  BY <1>1 DEF CallInv, TypeInv, CallRec
<1>3. InPopen' /\ HasPipe /\ parent_fd(call)' = parent_fd(call)
  BY <1>1, <1>2 DEF InPopen, HasPipe, parent_fd, CallInv, Loop
<1>4. /\ \A p \in Procs \ {0} : fds'[p] = fds[p]
      /\ \A g \in Fds \ {child_fd(call)} : fds'[0][g] = fds[0][g]
  BY <1>1, CloseEffect DEF CallInv
<1>5. fds'[-1] = fds[-1] /\ \A c \in Children : fds'[c] = fds[c]
  BY <1>4, ChildIsProc, Constants DEF Children
<1>6. \A s \in Sids : IsOpen(s) => fds'[0][stream[s].fd] = fds[0][stream[s].fd]
  BY <1>3, <1>4, CallFds DEF HeldInv, EndsHeld, HeldOnce
<1>7. HasPrev => fds'[0][cur.fd] = fds[0][cur.fd]
  BY <1>3, <1>4, CallFds DEF HeldInv, EndsHeld, HeldOnce
<1>8. fds'[0][parent_fd(call)] = fds[0][parent_fd(call)]
  BY <1>3, <1>4, CallFds DEF HeldInv, HeldOnce
<1> QED BY <1>1, <1>2, <1>3, <1>5, <1>6, <1>7, <1>8, WireLoop

\* The child of this round is now the one before the next round, or the last.
LEMMA LinkWire ==
    ASSUME CallInv, HeldInv, WireInv, Ppopen_pipeline_link PROVE WireInv'
<1>0. /\ call.pc = "link" /\ InPopen /\ HasOne /\ UNCHANGED child
      /\ fds' = IF call.i = 1 THEN fds ELSE [fds EXCEPT ![0] = CloseFd(@, cur.fd)]
  BY DEF Ppopen_pipeline_link, At, InPopen, HasOne
<1>1. PICK sid \in Sids : sid = call.sid
  BY <1>0, InLoop
<1>2. /\ \A s \in Sids \ {sid} : stream'[s] = stream[s]
      /\ stream'[sid].fd = parent_fd(call)
      /\ stream'[sid].mode = stream[sid].mode /\ stream'[sid].n = stream[sid].n
      /\ stream[sid].n = call.n /\ stream[sid].state = "opening"
      /\ stream'[sid].state # "new"
      /\ call.i = call.n => call'.pc = "lua"
      /\ call.i # call.n => /\ stream'[sid].state = "opening" /\ call'.pc = "pipe"
                            /\ call'.sid = sid /\ call'.i = call.i + 1
      /\ call.i \in Nat /\ call.n \in Nat
  BY <1>0, <1>1, LinkEffect, InLoop DEF cur, CallInv, Loop
<1>3. /\ \A p \in Procs \ {0} : fds'[p] = fds[p]
      /\ \A g \in Fds : (HasPrev => g # cur.fd) => fds'[0][g] = fds[0][g]
  <2>1. CASE call.i = 1
    BY <1>0, <2>1
  <2>2. CASE call.i # 1
    <3>1. PICK f : f = cur.fd
      OBVIOUS
    <3>2. HasPrev /\ fds' = [fds EXCEPT ![0] = CloseFd(@, f)]
      BY <1>0, <2>2, <3>1 DEF HasPrev
    <3>3. /\ \A p \in Procs \ {0} : fds'[p] = fds[p]
          /\ \A g \in Fds \ {f} : fds'[0][g] = fds[0][g]
      BY <3>2, CloseEffect DEF CallInv
    <3> QED BY <3>1, <3>2, <3>3
  <2> QED BY <2>1, <2>2
<1>4. fds'[-1] = fds[-1] /\ \A c \in Children : fds'[c] = fds[c]
  BY <1>3, ChildIsProc, Constants DEF Children
<1>5. SameStreamsUsed /\ \A c \in Children : SameChild(c)
  BY <1>0, <1>2, <1>4, UnmovedIsSame DEF SameStreamsUsed
<1>6. fds'[0][parent_fd(call)] = fds[0][parent_fd(call)]
  BY <1>0, <1>3, CallFds DEF HeldInv, HeldOnce
<1>7. \A s \in Sids : IsOpen(s) => fds'[0][stream[s].fd] = fds[0][stream[s].fd]
  BY <1>3 DEF HeldInv, EndsHeld, HeldOnce
<1>8. InPopen' => /\ call.i # call.n /\ call'.sid = sid /\ call'.i = call.i + 1
                  /\ cur'.fd = parent_fd(call)
  BY <1>2 DEF InPopen, cur
<1>9. ASSUME NEW c \in Children, child[c].pc # "unborn", child[c].mode # "spawn",
             child[c].sid = sid
      PROVE  Round(c) <= call.i /\ Round(c) \in Int
  BY <1>0, <1>1, <1>9, PlacedOf DEF WireInv, Place, InRound
<1>10. ASSUME NEW c \in Children, Alive(c)
       PROVE  /\ stream'[child[c].sid].state = "open"
                   /\ Round(c) = stream[child[c].sid].n =>
                   OutEnd(c).pipe = fds'[0][stream'[child[c].sid].fd].pipe
              /\ InPopen' /\ child[c].sid = call'.sid =>
                   /\ HasPrev' /\ Round(c) = call'.i - 1 =>
                        OutEnd(c).pipe = fds'[0][cur'.fd].pipe
                   /\ Round(c) = call'.i =>
                        OutEnd(c).pipe = fds'[0][parent_fd(call)'].pipe
  <2>1. /\ child[c].sid \in Sids /\ Outermost(c)
        /\ child[c].pc # "unborn" /\ child[c].mode # "spawn"
    BY <1>10, PlacedOf DEF Alive, WireInv
  <2>2. CASE child[c].sid # sid
    BY <1>2, <1>7, <1>8, <2>1, <2>2 DEF Outermost, IsOpen
  <2>3. CASE child[c].sid = sid
    <3>1. Round(c) = call.i => OutEnd(c).pipe = fds[0][parent_fd(call)].pipe
      BY <1>0, <1>1, <2>1, <2>3 DEF Outermost
    <3>2. Round(c) <= call.i /\ Round(c) \in Int
      BY <1>9, <2>1, <2>3
    <3>3. stream'[sid].state = "open" => call.i = call.n
      BY <1>2
    <3>4. ASSUME InPopen'
          PROVE  /\ Round(c) # call'.i
                 /\ Round(c) = call'.i - 1 => Round(c) = call.i
      BY <1>2, <1>8, <3>2, <3>4
    <3> QED BY <1>2, <1>6, <1>8, <2>3, <3>1, <3>3, <3>4
  <2> QED BY <2>2, <2>3
<1>11. ASSUME NEW c \in Children, child[c].pc # "unborn", child[c].mode # "spawn",
              InPopen', child[c].sid = call'.sid
       PROVE  Round(c) < call'.i /\ Round(c) <= call'.i
  BY <1>2, <1>8, <1>9, <1>11
<1> QED BY <1>4, <1>5, <1>10, <1>11, WireStep

\* The other end of the pipe whose end the program keeps.
LEMMA ForkWire ==
    ASSUME CallInv, HeldInv, WireInv, Ppopen_fork PROVE WireInv'
<1>0. /\ call.pc = "fork" /\ At("fork") /\ InPopen /\ call.mode \in {"r", "w"}
      /\ HasPipe /\ UNCHANGED stream /\ Fork(nproc + 1, "move_out")
      /\ call' = [call EXCEPT !.pc = "close", !.pid = nproc + 1]
  BY DEF Ppopen_fork, At, InPopen, HasPipe, CallInv, TypeInv, CallRec, AllModes, Loop
<1>1. PICK sid \in Sids : sid = call.sid
  BY <1>0, InLoop
<1>2. PICK pid \in Children :
        /\ child[pid].pc = "unborn" /\ fds'[pid] = fds[0]
        /\ \A p \in Procs \ {pid} : fds'[p] = fds[p]
        /\ \A c \in Children \ {pid} : child'[c] = child[c]
        /\ child'[pid].pc = "move_out" /\ child'[pid].sid = call.sid
        /\ child'[pid].mode = call.mode
        /\ child'[pid].rd = call.rd /\ child'[pid].wr = call.wr
        /\ child'[pid].prev = IF call.i = 1 THEN -1 ELSE cur.fd
        /\ child'[pid].task = Task(call.mode, call.n, call.i)
  BY <1>0, ForkEffect
<1>3. /\ call'.pc = "close" /\ call'.sid = call.sid /\ call'.i = call.i
      /\ call'.mode = call.mode /\ call'.rd = call.rd /\ call'.wr = call.wr
  BY <1>0 DEF CallInv, TypeInv, CallRec
<1>4. /\ fds'[-1] = fds[-1] /\ fds'[0] = fds[0]
      /\ \A c \in Children \ {pid} : fds'[c] = fds[c]
  BY <1>2, ChildIsProc, Constants DEF Children
<1>5. /\ InPopen' /\ cur' = cur /\ parent_fd(call)' = parent_fd(call)
      /\ HasPrev' <=> HasPrev
  BY <1>0, <1>3 DEF InPopen, HasPrev, cur, parent_fd
<1>6. SameStreamsUsed /\ \A c \in Children \ {pid} : SameChild(c)
  BY <1>0, <1>2, <1>4, UnmovedIsSame DEF SameStreamsUsed
<1>7. /\ cur.state = "opening" /\ cur.mode = call.mode /\ cur.n = call.n
      /\ call.i \in Nat /\ call.n \in Nat /\ 1 <= call.i /\ call.i <= call.n
      /\ cur = stream[sid]
  BY <1>0, <1>1, InLoop DEF CallInv, Loop, cur
<1>8. Round(pid)' = call.i
  <2>1. Round(pid)' = Task(call.mode, call.n, Task(call.mode, call.n, call.i))
    BY <1>0, <1>1, <1>2, <1>7 DEF Round
  <2> QED BY <1>7, <2>1 DEF Task
<1>9. HasPrev => cur.fd \in Fds /\ cur.fd # -1
  BY Constants DEF HeldInv, EndsHeld, Fds
<1>10. Placed(pid)' /\ InRound(pid)'
  <2>1. child'[pid].prev = -1 <=> call.i = 1
    BY <1>0, <1>2, <1>9 DEF HasPrev
  <2> QED BY <1>0, <1>1, <1>2, <1>3, <1>7, <1>8, <2>1 DEF Placed, InRound
<1>11. /\ OutEnd(pid)' = fds[0][child_fd(call)]
       /\ HasPrev => InEnd(pid)' = fds[0][cur.fd]
       /\ in_fd(child[pid])' = in_fd(call)
  <2>1. child_fd(child[pid])' = child_fd(call) /\ in_fd(child[pid])' = in_fd(call)
    BY <1>2 DEF child_fd, in_fd
  <2>2. HasPrev => child'[pid].prev = cur.fd
    BY <1>2 DEF HasPrev
  <2> QED BY <1>2, <2>1, <2>2 DEF OutEnd, InEnd
<1>12. Moving(pid)'
  <2>1. /\ fds[0][STDIN_FILENO] = Tty /\ fds[0][STDOUT_FILENO] = Tty
        /\ fds[0][call.rd] = Read(fds[0][call.rd].pipe)
        /\ fds[0][call.wr] = Write(fds[0][call.rd].pipe)
        /\ call.rd # call.wr
        /\ HasPrev => IsOuter(fds[0][cur.fd], call.mode)
        /\ HasPrev => cur.fd \notin {call.rd, call.wr}
    <3>1. {STDIN_FILENO, STDOUT_FILENO} \subseteq Fds
      BY Constants DEF Fds, STDIN_FILENO, STDOUT_FILENO
    <3> QED BY <1>0, <3>1, EndsDiffer DEF WireInv, StdOpen, HeldInv, EndsHeld, HeldOnce
  <2>2. /\ {call.rd, call.wr} \cap {STDIN_FILENO, STDOUT_FILENO} = {}
        /\ HasPrev => cur.fd \notin {STDIN_FILENO, STDOUT_FILENO}
    BY <2>1, EndsDiffer
  <2>3. /\ call.rd \in Fds /\ call.wr \in Fds /\ -1 \notin Fds
        /\ -1 \notin {STDIN_FILENO, STDOUT_FILENO}
        /\ in_fd(call) \in {STDIN_FILENO, STDOUT_FILENO}
    BY CallFds, Constants DEF Fds, STDIN_FILENO, STDOUT_FILENO, in_fd
  <2>4. IsInner(fds[0][child_fd(call)], call.mode)
    BY <1>0, <2>1, EndsDiffer DEF IsInner, child_fd
  <2>5. \/ HasPrev /\ child'[pid].prev = cur.fd
        \/ child'[pid].prev = -1
    BY <1>0, <1>2 DEF HasPrev
  <2>6. /\ child'[pid].rd # child'[pid].wr
        /\ child'[pid].prev \notin {child'[pid].rd, child'[pid].wr}
        /\ {child'[pid].rd, child'[pid].wr, child'[pid].prev}
             \cap {STDIN_FILENO, STDOUT_FILENO} = {}
    BY <1>2, <2>1, <2>2, <2>3, <2>5
  <2>7. IsInner(OutEnd(pid)', child'[pid].mode)
    BY <1>2, <1>11, <2>4
  <2>8. IF child'[pid].prev = -1 THEN fds'[pid][in_fd(child[pid])'] = Tty
                                 ELSE IsOuter(InEnd(pid)', child'[pid].mode)
    BY <1>2, <1>11, <2>1, <2>3, <2>5
  <2> QED BY <2>6, <2>7, <2>8 DEF Moving
<1>13. Outermost(pid)'
  <2>1. OutEnd(pid)'.pipe = fds'[0][parent_fd(call)'].pipe
    BY <1>0, <1>4, <1>5, <1>11, EndsDiffer DEF HeldInv, EndsHeld, parent_fd, child_fd
  <2>2. ~IsOpen(child[pid].sid)'
    BY <1>0, <1>1, <1>2, <1>7 DEF IsOpen
  <2> QED BY <1>3, <1>7, <1>8, <2>1, <2>2 DEF Outermost
<1>14. ASSUME NEW c \in Children \ {pid}, child[c].pc # "unborn",
              child[c].mode # "spawn", child[c].sid = call'.sid
       PROVE  Round(c) < call'.i /\ Round(c) <= call'.i /\ Round(c) \in Int
  BY <1>0, <1>3, <1>7, <1>14, PlacedOf DEF WireInv, Place, InRound
<1>15. ASSUME NEW c \in Children \ {pid}, Alive(c)
       PROVE  /\ stream'[child[c].sid].state = "open"
                   /\ Round(c) = stream[child[c].sid].n =>
                   OutEnd(c).pipe = fds'[0][stream'[child[c].sid].fd].pipe
              /\ InPopen' /\ child[c].sid = call'.sid =>
                   /\ HasPrev' /\ Round(c) = call'.i - 1 =>
                        OutEnd(c).pipe = fds'[0][cur'.fd].pipe
                   /\ Round(c) = call'.i =>
                        OutEnd(c).pipe = fds'[0][parent_fd(call)'].pipe
  <2>1. /\ child[c].sid \in Sids /\ Outermost(c)
        /\ child[c].pc # "unborn" /\ child[c].mode # "spawn"
    BY <1>15, PlacedOf DEF Alive, WireInv
  <2> QED BY <1>0, <1>3, <1>4, <1>5, <2>1 DEF Outermost, IsOpen
<1>16. ASSUME NEW d \in Children PROVE JoinedTo(pid, d)' /\ JoinedTo(d, pid)'
  <2>1. CASE d = pid
    BY <1>7, <1>8, <2>1 DEF JoinedTo
  <2>2. CASE d # pid
    <3> SUFFICES ASSUME Alive(d)', child'[d].sid = child'[pid].sid,
                        \/ Round(d)' = Round(pid)' + 1
                        \/ Round(pid)' = Round(d)' + 1
                 PROVE  /\ Round(pid)' = Round(d)' + 1
                        /\ OutEnd(d)'.pipe = InEnd(pid)'.pipe
      <4>1. Round(pid)' = Round(d)' + 1 => Round(d)' # Round(pid)' + 1
        BY <1>7, <1>8
      <4> QED BY <4>1 DEF JoinedTo
    <3>1. /\ Alive(d) /\ OutEnd(d)' = OutEnd(d) /\ child[d].sid = call.sid
          /\ child[d].pc # "unborn" /\ child[d].mode # "spawn"
      BY <1>2, <1>6, <2>2 DEF SameChild, Alive
    <3>2. Round(d)' = Round(d)
      BY <1>6, <2>2, <3>1, SameRounds
    <3>3. Round(d) < call.i /\ Round(d) \in Int
      BY <1>3, <1>14, <2>2, <3>1
    <3>4. Round(d) = call.i - 1 /\ Round(pid)' = Round(d)' + 1
      BY <1>7, <1>8, <3>2, <3>3
    <3>5. HasPrev
      <4>1. Round(d) >= 1
        BY <3>1, PlacedOf
      <4> QED BY <1>0, <1>7, <3>3, <3>4, <4>1 DEF HasPrev
    <3>6. OutEnd(d).pipe = fds[0][cur.fd].pipe
      BY <1>0, <3>1, <3>4, <3>5 DEF WireInv, Outermost
    <3> QED BY <1>11, <3>1, <3>4, <3>5, <3>6
  <2> QED BY <2>1, <2>2
<1> QED BY <1>4, <1>6, <1>10, <1>12, <1>13, <1>14, <1>15, <1>16, WireStep

\* The process that spawn forks has no pipe.
LEMMA SpawnForkWire ==
    ASSUME CallInv, HeldInv, WireInv, Pspawn_fork PROVE WireInv'
<1>0. InPopen /\ At("fork") /\ call.mode = "spawn"
  BY DEF Pspawn_fork, InPopen, At
<1>1. CASE Throw
  <2>1. UNCHANGED <<fds, child>>
    <3>1. CASE call' = [call EXCEPT !.pc = "wait"]
      <4>1. call'.pc = "wait"
        BY <3>1 DEF CallInv, TypeInv, CallRec
      <4> QED BY <1>1, <4>1 DEF Throw, Idle
    <3> QED BY <3>1 DEF Pspawn_fork
  <2> QED BY <1>0, <1>1, <2>1, ThrowWire
<1>2. CASE ~Throw
  <2>1. PICK sid \in Sids : sid = call.sid
    BY <1>0, InLoop
  <2>2. /\ Fork(nproc + 1, "exec") /\ call'.pc = "wait"
        /\ \A s \in Sids \ {sid} : stream'[s] = stream[s]
        /\ stream'[sid].state = "closing"
        /\ stream'[sid].mode = stream[sid].mode /\ stream'[sid].n = stream[sid].n
    BY <1>2, <2>1, SpawnForkEffect
  <2>3. PICK pid \in Children :
          /\ child[pid].pc = "unborn"
          /\ \A p \in Procs \ {pid} : fds'[p] = fds[p]
          /\ \A c \in Children \ {pid} : child'[c] = child[c]
          /\ child'[pid].sid = call.sid /\ child'[pid].mode = call.mode
    BY <1>0, <2>2, ForkEffect
  <2>4. /\ fds'[-1] = fds[-1] /\ fds'[0] = fds[0]
        /\ \A c \in Children \ {pid} : fds'[c] = fds[c]
    BY <2>3, ChildIsProc, Constants DEF Children
  <2>5. stream[sid].state = "opening" /\ stream[sid].mode = "spawn"
    BY <1>0, <2>1, InLoop DEF cur, CallInv, Loop
  <2>6. SameStreamsUsed /\ ~InPopen' /\ \A c \in Children \ {pid} : SameChild(c)
    BY <2>2, <2>3, <2>4, UnmovedIsSame DEF SameStreamsUsed, InPopen
  <2>7. Placed(pid)' /\ InRound(pid)' /\ ~Alive(pid)'
    BY <1>0, <2>1, <2>2, <2>3, <2>5 DEF Placed, InRound, Alive
  <2>8. \A d \in Children : JoinedTo(pid, d)' /\ JoinedTo(d, pid)'
    BY <2>7 DEF JoinedTo
  <2>9. ASSUME NEW c \in Children \ {pid}, Alive(c),
               stream'[child[c].sid].state = "open",
               Round(c) = stream[child[c].sid].n
        PROVE  OutEnd(c).pipe = fds'[0][stream'[child[c].sid].fd].pipe
    <3>1. child[c].sid \in Sids /\ Outermost(c)
      BY <2>9, PlacedOf DEF Alive, WireInv
    <3> QED BY <2>2, <2>4, <2>9, <3>1 DEF Outermost, IsOpen
  <2> QED BY <2>4, <2>6, <2>7, <2>8, <2>9, WireStep
<1> QED BY <1>1, <1>2

LEMMA NextWire ==
    ASSUME CallInv, HeldInv, WireInv, [Next]_vars PROVE WireInv'
<1>0. TypeInv
  BY DEF CallInv
<1>1. CASE UNCHANGED vars
  <2>1. /\ StreamsKept /\ UNCHANGED <<call, fds>>
        /\ \A c \in Children : SameChild(c)
    BY <1>1, UnmovedIsSame DEF vars, StreamsKept
  <2> QED BY <2>1, WireKept
<1>2. CASE Ppopen_pipe
  BY <1>2, PipeWire
<1>3. CASE Ppopen_pipe_fails \/ Ppopen_fork_fails
  <2>1. InPopen /\ Throw /\ UNCHANGED <<fds, child>>
    BY <1>3 DEF Ppopen_pipe_fails, Ppopen_fork_fails, InPopen, At
  <2> QED BY <2>1, ThrowWire
<1>4. CASE Ppopen_fork
  BY <1>4, ForkWire
<1>5. CASE Ppopen_close
  BY <1>5, CloseWire
<1>6. CASE Ppopen_pipeline_link
  BY <1>6, LinkWire
<1>7. CASE Pspawn_fork
  BY <1>7, SpawnForkWire
<1>8. ASSUME NEW pid \in Children, Ppclose_wait(pid) PROVE WireInv'
  BY <1>8, WaitWire
<1>9. CASE \/ \E mode \in Modes \ {"spawn"}, n \in 1..MaxStages :
                  Ppopen_pipeline(mode, n)
           \/ Pspawn
  <2>1. PICK mode \in AllModes, n \in Nat \ {0}, pc \in {"pipe", "fork"},
             sid \in Sids : Begun(sid, mode, n, pc)
    BY <1>9, CallsBegin
  <2> QED BY <2>1, BeginWire
<1>10. ASSUME NEW sid \in Sids, Ppclose(sid) PROVE WireInv'
  BY <1>10, PcloseWire
<1>11. ASSUME NEW sid \in Sids, Program_read(sid) \/ Program_write(sid)
       PROVE  WireInv'
  <2>1. StreamsKept /\ UNCHANGED <<call, fds, child>>
    BY <1>0, <1>11, ProgramUses DEF Program_read, Program_write
  <2>2. \A c \in Children : SameChild(c)
    BY <2>1, UnmovedIsSame
  <2> QED BY <2>1, <2>2, WireKept
<1>12. ASSUME NEW c \in Children, ChildStep(c) \/ Stray_exit(c) PROVE WireInv'
  <2>1. ChildMoves(c)
    BY <1>0, <1>12, ChildStepMoves
  <2>2. /\ fds'[0] = fds[0] /\ fds'[-1] = fds[-1]
        /\ \A d \in Children \ {c} : fds'[d] = fds[d] /\ child'[d] = child[d]
    BY <2>1, ChildIsProc, Constants DEF ChildMoves, Children
  <2>3. \A d \in Children : SameChild(d)
    BY <1>12, <2>2, ChildKeepsEnds, UnmovedIsSame
  <2> QED BY <2>1, <2>2, <2>3, WireKept DEF ChildMoves
<1> QED
  BY <1>1, <1>2, <1>3, <1>4, <1>5, <1>6, <1>7, <1>8, <1>9, <1>10, <1>11, <1>12
  DEF Next, CallStep, ProgramStep, Sids

LEMMA InitWire ==
    ASSUME \A c \in Closed : c = {} PROVE Init => WireInv
<1> SUFFICES ASSUME Init PROVE WireInv
  OBVIOUS
<1>1. \A c \in Children : child[c].pc = "unborn" /\ ~Alive(c)
  BY DEF Init, Unborn, Alive
<1>2. StdOpen
  <2>1. PICK c \in Closed :
          LET std == [f \in Fds |-> IF f \in {0, 1} \ c THEN Tty ELSE None]
          IN fds = [p \in Procs |-> IF p \in {-1, 0} THEN std ELSE AllClosed]
    BY DEF Init
  <2>2. c = {} /\ -1 \in Procs /\ {0, 1} \subseteq Fds
    BY ChildIsProc, Constants DEF Fds
  <2> QED BY <2>1, <2>2 DEF StdOpen, StdFds, STDIN_FILENO, STDOUT_FILENO
<1> QED BY <1>1, <1>2 DEF WireInv, Place, Joined, JoinedTo

-----------------------------------------------------------------------------
(* What a task has besides its standard input and output.                  *)

\* The descriptors that popen_pipeline has opened and not closed.
Mine ==
    (IF HasPipe THEN {call.rd, call.wr} ELSE {})
      \cup (IF HasOne THEN {parent_fd(call)} ELSE {})
      \cup (IF HasPrev THEN {cur.fd} ELSE {})

\* They were closed when it was called, and the others are as they were.
ProgramHad ==
    InPopen => \A f \in Fds : IF f \in Mine THEN had[call.sid][f] = None
                                            ELSE fds[0][f] = had[call.sid][f]

\* Those of them that a child has not moved or closed yet.
Extra(c) ==
    CASE child[c].pc = "move_out"     -> {child[c].rd, child[c].wr, child[c].prev}
      [] child[c].pc = "close_parent" -> {parent_fd(child[c]), child[c].prev}
      [] child[c].pc = "move_in"      -> {child[c].prev}
      [] OTHER                        -> {}

ChildHad(c) ==
    \A f \in Fds \ {STDIN_FILENO, STDOUT_FILENO} :
        IF f \in Extra(c) THEN had[child[c].sid][f] = None
                          ELSE fds[c][f] = had[child[c].sid][f]

HadInv ==
    /\ had = [s \in Sids |-> had[s]]
    /\ \A s \in Sids : stream[s].state # "new" =>
         had[s][STDIN_FILENO] = Tty /\ had[s][STDOUT_FILENO] = Tty
    /\ ProgramHad
    /\ \A c \in Children : Alive(c) => ChildHad(c)

\* A step that begins no call: what is left to show is what the call has and
\* what the children do.
LEMMA HadStep ==
    ASSUME CallInv, WireInv, HadInv, UNCHANGED had, SameStreamsUsed,
           \A s \in Sids : stream[s].state = "new" => stream'[s].state = "new",
           InPopen' => ProgramHad',
           \A c \in Children :
              \/ child'[c] = child[c] /\ fds'[c] = fds[c]
              \/ Alive(c)' => ChildHad(c)'
    PROVE  HadInv'
<1>1. ASSUME NEW c \in Children, child'[c] = child[c], fds'[c] = fds[c], Alive(c)'
      PROVE  ChildHad(c)'
  <2>1. Alive(c) /\ Extra(c)' = Extra(c)
    BY <1>1 DEF Alive, Extra, parent_fd
  <2> QED BY <1>1, <2>1 DEF HadInv, ChildHad
<1>2. ProgramHad'
  BY DEF ProgramHad
<1> QED BY <1>1, <1>2 DEF HadInv

\* Where the program is in no call that makes a pipeline, it need not hold
\* what it had.
LEMMA BeginHad ==
    ASSUME CallInv, HeldInv, WireInv, HadInv,
           NEW sid \in Sids, NEW mode, NEW n, NEW pc \in {"pipe", "fork"},
           mode # "spawn" => pc = "pipe",
           Begun(sid, mode, n, pc), had' = [had EXCEPT ![sid] = fds[0]]
    PROVE  HadInv'
<1>1. /\ stream[sid].state = "new" /\ call'.sid = sid /\ call'.i = 1
      /\ call'.mode = mode /\ call'.pc = pc /\ UNCHANGED <<fds, child>>
      /\ \A s \in Sids \ {sid} : stream'[s] = stream[s]
  BY DEF Begun
<1>2. /\ had'[sid] = fds[0] /\ \A s \in Sids \ {sid} : had'[s] = had[s]
      /\ had' = [s \in Sids |-> had'[s]]
  BY DEF HadInv
<1>3. /\ fds[0][STDIN_FILENO] = Tty /\ fds[0][STDOUT_FILENO] = Tty
  <2>1. {STDIN_FILENO, STDOUT_FILENO} \subseteq Fds
    BY Constants DEF Fds, STDIN_FILENO, STDOUT_FILENO
  <2> QED BY <2>1, EndsDiffer DEF WireInv, StdOpen, HeldInv, EndsHeld
<1>4. ~HasPipe' /\ ~HasOne' /\ ~HasPrev'
  BY <1>1 DEF HasPipe, HasOne, HasPrev
<1>5. ProgramHad'
  BY <1>1, <1>2, <1>4 DEF ProgramHad, Mine
<1>6. ASSUME NEW c \in Children, Alive(c)' PROVE ChildHad(c)'
  <2>1. Alive(c) /\ Extra(c)' = Extra(c)
    BY <1>1, <1>6 DEF Alive, Extra, parent_fd
  <2>2. child[c].sid \in Sids /\ child[c].sid # sid
    BY <1>1, <2>1, PlacedOf DEF Alive
  <2> QED BY <1>1, <1>2, <2>1, <2>2 DEF HadInv, ChildHad
<1>7. \A s \in Sids : stream'[s].state # "new" =>
         had'[s][STDIN_FILENO] = Tty /\ had'[s][STDOUT_FILENO] = Tty
  BY <1>1, <1>2, <1>3 DEF HadInv
<1> QED BY <1>2, <1>5, <1>6, <1>7 DEF HadInv

\* The descriptors that pipe returns were closed when the call began.
LEMMA PipeHad ==
    ASSUME CallInv, HeldInv, WireInv, HadInv, Ppopen_pipe PROVE HadInv'
<1>0. InPopen /\ call.pc = "pipe" /\ UNCHANGED <<child, had>> /\ ~HasPipe /\ ~HasOne
  BY DEF Ppopen_pipe, At, InPopen, HasPipe, HasOne
<1>1. PICK rd \in FreeFds, wr \in FreeFds : \E k :
        /\ fds' = [fds EXCEPT ![0] = [@ EXCEPT ![rd] = Read(k), ![wr] = Write(k)]]
        /\ \/ /\ UNCHANGED stream /\ call'.pc = "fork"
              /\ call'.sid = call.sid /\ call'.mode = call.mode
              /\ call'.i = call.i /\ call'.rd = rd /\ call'.wr = wr
           \/ Throw
  BY PipeEffect
<1>2. /\ \A p \in Procs \ {0} : fds'[p] = fds[p]
      /\ \A f \in Fds \ {rd, wr} : fds'[0][f] = fds[0][f]
      /\ rd \in Fds /\ wr \in Fds /\ fds[0][rd] = None /\ fds[0][wr] = None
  <2>1. PICK k : fds' = [fds EXCEPT ![0] = [@ EXCEPT ![rd] = Read(k), ![wr] = Write(k)]]
    BY <1>1
  <2>2. IsTable(fds[0]) /\ fds = [p \in Procs |-> fds[p]] /\ 0 \in Procs
    BY ChildIsProc DEF CallInv, TypeInv
  <2> DEFINE t == [fds[0] EXCEPT ![rd] = Read(k), ![wr] = Write(k)]
  <2>3. \A f \in Fds \ {rd, wr} : t[f] = fds[0][f]
    BY <2>2 DEF IsTable
  <2>4. fds' = [fds EXCEPT ![0] = t]
    BY <2>1
  <2> HIDE DEF t
  <2> QED BY <2>2, <2>3, <2>4 DEF FreeFds
<1>3. \A c \in Children : fds'[c] = fds[c]
  BY <1>2, ChildIsProc, Constants DEF Children
<1>4. CASE Throw
  <2>1. /\ call.sid \in Sids /\ stream[call.sid].state = "opening"
        /\ call'.pc = "lua" /\ stream'[call.sid].state = "failed"
        /\ \A s \in Sids \ {call.sid} : stream'[s] = stream[s]
        /\ stream'[call.sid].mode = stream[call.sid].mode
        /\ stream'[call.sid].n = stream[call.sid].n
    BY <1>0, <1>4, ThrowEffect
  <2>2. ~InPopen' /\ SameStreamsUsed
    BY <2>1 DEF InPopen, SameStreamsUsed
  <2> QED BY <1>0, <1>3, <2>1, <2>2, HadStep
<1>5. CASE ~Throw
  <2>1. /\ UNCHANGED stream /\ call'.pc = "fork"
        /\ call'.sid = call.sid /\ call'.mode = call.mode
        /\ call'.i = call.i /\ call'.rd = rd /\ call'.wr = wr
    BY <1>1, <1>5
  <2>2. call.mode # "spawn" /\ HasPipe' /\ ~HasOne' /\ (HasPrev' <=> HasPrev)
    BY <1>0, <2>1 DEF HasPipe, HasOne, HasPrev, InPopen, CallInv, Loop
  <2>3. Mine' = Mine \cup {rd, wr} /\ Mine \subseteq {cur.fd} /\ (Mine # {} => HasPrev)
    BY <1>0, <2>1, <2>2 DEF Mine, cur
  <2>4. rd \notin Mine /\ wr \notin Mine
    BY <1>2, <2>3, EndsDiffer DEF HeldInv, EndsHeld
  <2>5. ProgramHad'
    <3> SUFFICES ASSUME NEW f \in Fds
                 PROVE  IF f \in Mine' THEN had[call.sid][f] = None
                                       ELSE fds'[0][f] = had[call.sid][f]
      BY <1>0, <2>1 DEF ProgramHad
    <3>1. IF f \in Mine THEN had[call.sid][f] = None ELSE fds[0][f] = had[call.sid][f]
      BY <1>0 DEF HadInv, ProgramHad
    <3> QED BY <1>2, <2>3, <2>4, <3>1
  <2>6. SameStreamsUsed
    BY <2>1 DEF SameStreamsUsed
  <2> QED BY <1>0, <1>3, <2>1, <2>5, <2>6, HadStep
<1> QED BY <1>4, <1>5

\* A child begins with what the program has.
LEMMA ForkHad ==
    ASSUME CallInv, HeldInv, WireInv, HadInv, Ppopen_fork PROVE HadInv'
<1>0. /\ call.pc = "fork" /\ At("fork") /\ InPopen /\ call.mode # "spawn"
      /\ HasPipe /\ ~HasOne /\ UNCHANGED <<stream, had>>
      /\ Fork(nproc + 1, "move_out")
      /\ call' = [call EXCEPT !.pc = "close", !.pid = nproc + 1]
  BY DEF Ppopen_fork, At, InPopen, HasPipe, HasOne
<1>1. PICK pid \in Children :
        /\ fds'[pid] = fds[0]
        /\ \A p \in Procs \ {pid} : fds'[p] = fds[p]
        /\ \A c \in Children \ {pid} : child'[c] = child[c]
        /\ child'[pid].pc = "move_out" /\ child'[pid].sid = call.sid
        /\ child'[pid].rd = call.rd /\ child'[pid].wr = call.wr
        /\ child'[pid].prev = IF call.i = 1 THEN -1 ELSE cur.fd
  BY <1>0, ForkEffect
<1>2. /\ call'.pc = "close" /\ call'.sid = call.sid /\ call'.i = call.i
      /\ call'.mode = call.mode /\ call'.rd = call.rd /\ call'.wr = call.wr
  BY <1>0 DEF CallInv, TypeInv, CallRec
<1>3. fds'[0] = fds[0] /\ \A c \in Children \ {pid} : fds'[c] = fds[c]
  BY <1>1, ChildIsProc, Constants DEF Children
<1>4. Mine' = Mine
  BY <1>0, <1>2 DEF Mine, HasPipe, HasOne, HasPrev, InPopen, cur
<1>5. ProgramHad'
  BY <1>0, <1>2, <1>3, <1>4 DEF HadInv, ProgramHad
<1>6. ChildHad(pid)'
  <2>1. Extra(pid)' \cap Fds = Mine \cap Fds
    <3>1. Extra(pid)' = {call.rd, call.wr, child'[pid].prev}
      BY <1>1 DEF Extra
    <3>2. -1 \notin Fds
      BY Constants DEF Fds
    <3> QED BY <1>0, <1>1, <3>1, <3>2 DEF Mine, HasPrev
  <2> QED BY <1>0, <1>1, <2>1 DEF ChildHad, HadInv, ProgramHad
<1>7. SameStreamsUsed
  BY <1>0 DEF SameStreamsUsed
<1> QED BY <1>0, <1>1, <1>3, <1>5, <1>6, <1>7, HadStep

LEMMA CloseHad ==
    ASSUME CallInv, HeldInv, WireInv, HadInv, Ppopen_close PROVE HadInv'
<1>1. /\ call.pc = "close" /\ InPopen /\ UNCHANGED <<stream, child, had>>
      /\ fds' = [fds EXCEPT ![0] = CloseFd(@, child_fd(call))]
      /\ call' = [call EXCEPT !.pc = "link"]
  BY DEF Ppopen_close, At, InPopen
<1>2. /\ call'.pc = "link" /\ call'.sid = call.sid /\ call'.i = call.i
      /\ call'.mode = call.mode /\ call'.rd = call.rd /\ call'.wr = call.wr
  BY <1>1 DEF CallInv, TypeInv, CallRec
<1>3. /\ HasPipe /\ ~HasOne /\ ~HasPipe' /\ HasOne' /\ (HasPrev' <=> HasPrev)
      /\ parent_fd(call)' = parent_fd(call) /\ cur' = cur
  BY <1>1, <1>2
  DEF InPopen, HasPipe, HasOne, HasPrev, parent_fd, cur, CallInv, Loop
<1>4. /\ \A p \in Procs \ {0} : fds'[p] = fds[p]
      /\ \A g \in Fds \ {child_fd(call)} : fds'[0][g] = fds[0][g]
      /\ child_fd(call) \in Fds => fds'[0][child_fd(call)] = None
  BY <1>1, CloseEffect DEF CallInv
<1>5. \A c \in Children : fds'[c] = fds[c]
  BY <1>4, ChildIsProc, Constants DEF Children
<1>6. Mine' = Mine \ {child_fd(call)} /\ child_fd(call) \in Mine
  <2>1. call.rd # call.wr /\ (HasPrev => cur.fd \notin {call.rd, call.wr})
    BY <1>3 DEF HeldInv, HeldOnce
  <2>2. {parent_fd(call), child_fd(call)} = {call.rd, call.wr}
    BY DEF parent_fd, child_fd
  <2>3. Mine = {parent_fd(call), child_fd(call)} \cup (IF HasPrev THEN {cur.fd} ELSE {})
    BY <1>3, <2>2 DEF Mine
  <2>4. Mine' = {parent_fd(call)} \cup (IF HasPrev THEN {cur.fd} ELSE {})
    BY <1>3 DEF Mine
  <2>5. parent_fd(call) # child_fd(call)
    BY <2>1, CallFds
  <2>6. HasPrev => cur.fd # child_fd(call)
    BY <2>1, CallFds
  <2> QED BY <2>3, <2>4, <2>5, <2>6
<1>7. ProgramHad'
  <2> SUFFICES ASSUME NEW f \in Fds
               PROVE  IF f \in Mine' THEN had[call.sid][f] = None
                                     ELSE fds'[0][f] = had[call.sid][f]
    BY <1>1, <1>2 DEF ProgramHad
  <2>1. IF f \in Mine THEN had[call.sid][f] = None ELSE fds[0][f] = had[call.sid][f]
    BY <1>1 DEF HadInv, ProgramHad
  <2> QED BY <1>4, <1>6, <2>1
<1>8. SameStreamsUsed
  BY <1>1 DEF SameStreamsUsed
<1> QED BY <1>1, <1>5, <1>7, <1>8, HadStep

LEMMA LinkHad ==
    ASSUME CallInv, HeldInv, WireInv, HadInv, Ppopen_pipeline_link PROVE HadInv'
<1>0. /\ call.pc = "link" /\ InPopen /\ HasOne /\ ~HasPipe /\ UNCHANGED <<child, had>>
      /\ fds' = IF call.i = 1 THEN fds ELSE [fds EXCEPT ![0] = CloseFd(@, cur.fd)]
  BY DEF Ppopen_pipeline_link, At, InPopen, HasOne, HasPipe
<1>1. PICK sid \in Sids : sid = call.sid
  BY <1>0, InLoop
<1>2. /\ \A s \in Sids \ {sid} : stream'[s] = stream[s]
      /\ stream'[sid].fd = parent_fd(call)
      /\ stream'[sid].mode = stream[sid].mode /\ stream'[sid].n = stream[sid].n
      /\ stream[sid].state = "opening" /\ stream'[sid].state # "new"
      /\ call.i = call.n => call'.pc = "lua"
      /\ call.i # call.n => /\ call'.pc = "pipe" /\ call'.sid = sid
                            /\ call'.i = call.i + 1
      /\ call.i \in Nat /\ 1 <= call.i
  BY <1>0, <1>1, LinkEffect, InLoop DEF cur, CallInv, Loop
<1>3. /\ \A p \in Procs \ {0} : fds'[p] = fds[p]
      /\ \A g \in Fds : IF HasPrev /\ g = cur.fd THEN fds'[0][g] = None
                                                 ELSE fds'[0][g] = fds[0][g]
  <2>1. CASE call.i = 1
    BY <1>0, <2>1 DEF HasPrev
  <2>2. CASE call.i # 1
    <3>1. PICK f : f = cur.fd
      OBVIOUS
    <3>2. HasPrev /\ fds' = [fds EXCEPT ![0] = CloseFd(@, f)]
      BY <1>0, <2>2, <3>1 DEF HasPrev
    <3>3. /\ \A p \in Procs \ {0} : fds'[p] = fds[p]
          /\ \A g \in Fds \ {f} : fds'[0][g] = fds[0][g]
          /\ f \in Fds => fds'[0][f] = None
      BY <3>2, CloseEffect DEF CallInv
    <3> QED BY <3>1, <3>2, <3>3
  <2> QED BY <2>1, <2>2
<1>4. \A c \in Children : fds'[c] = fds[c]
  BY <1>3, ChildIsProc, Constants DEF Children
<1>5. SameStreamsUsed
  BY <1>2 DEF SameStreamsUsed
<1>6. ASSUME InPopen' PROVE ProgramHad'
  <2>1. call'.pc = "pipe" /\ call'.sid = sid /\ call'.i = call.i + 1
    BY <1>2, <1>6 DEF InPopen
  <2>2. ~HasPipe' /\ ~HasOne' /\ HasPrev' /\ cur'.fd = parent_fd(call)
    BY <1>2, <2>1 DEF HasPipe, HasOne, HasPrev, InPopen, cur
  <2>3. Mine' = {parent_fd(call)}
    BY <2>2 DEF Mine
  <2>4. Mine = {parent_fd(call)} \cup (IF HasPrev THEN {cur.fd} ELSE {})
    BY <1>0 DEF Mine
  <2> SUFFICES ASSUME NEW f \in Fds
               PROVE  IF f \in Mine' THEN had[sid][f] = None
                                     ELSE fds'[0][f] = had[sid][f]
    BY <1>0, <2>1 DEF ProgramHad
  <2>5. IF f \in Mine THEN had[sid][f] = None ELSE fds[0][f] = had[sid][f]
    BY <1>0, <1>1 DEF HadInv, ProgramHad
  <2> QED BY <1>3, <2>3, <2>4, <2>5
<1> QED BY <1>0, <1>2, <1>4, <1>5, <1>6, HadStep

\* A child closes each end once it has it where it belongs.
LEMMA ChildStepHad ==
    ASSUME CallInv, WireInv, HadInv, NEW c \in Children,
           ChildStep(c) \/ Stray_exit(c)
    PROVE  Alive(c)' => ChildHad(c)'
<1> SUFFICES ASSUME Alive(c)' PROVE ChildHad(c)'
  OBVIOUS
<1> DEFINE t == fds[c]
           m == child[c]
           h == had[child[c].sid]
<1>0. /\ ChildMoves(c) /\ SameChild(c) /\ m \in ChildRec /\ IsTable(t)
      /\ fds = [p \in Procs |-> fds[p]] /\ c \in Procs
      /\ child \in [Children -> ChildRec] /\ UNCHANGED had
  BY ChildStepMoves, ChildKeepsEnds, ChildIsProc
  DEF CallInv, TypeInv, ChildStep, Child_move_out, Child_close_parent, Child_move_in,
      move_fd_fails, Pexecx, Task_read, Task_eof, Task_write, Task_sigpipe, Stray_exit,
      Exit, ChildSteps
<1>1. /\ child'[c].sid = m.sid /\ child'[c].mode = m.mode
      /\ child'[c].rd = m.rd /\ child'[c].wr = m.wr /\ child'[c].prev = m.prev
      /\ parent_fd(child'[c]) = parent_fd(m)
  BY <1>0 DEF SameChild, parent_fd
<1>2. Alive(c) /\ ChildHad(c) /\ Moving(c) /\ child'[c].pc # "stray"
  BY <1>0 DEF SameChild, HadInv, WireInv, Alive
<1>3. /\ child_fd(m) \in Fds /\ parent_fd(m) \in Fds
      /\ out_fd(m) \in {STDIN_FILENO, STDOUT_FILENO}
      /\ in_fd(m) \in {STDIN_FILENO, STDOUT_FILENO}
      /\ {STDIN_FILENO, STDOUT_FILENO} \subseteq Fds
      /\ {parent_fd(m), child_fd(m)} = {m.rd, m.wr}
      /\ child_fd(m) # parent_fd(m) /\ m.prev \notin {child_fd(m), parent_fd(m)}
      /\ {child_fd(m), parent_fd(m), m.prev} \cap {STDIN_FILENO, STDOUT_FILENO} = {}
      /\ m.prev = -1 \/ m.prev \in Fds
      /\ -1 \notin Fds
  BY <1>0, <1>2, Constants
  DEF Moving, child_fd, parent_fd, out_fd, in_fd, ChildRec, Fds, STDIN_FILENO,
      STDOUT_FILENO
<1>4. ASSUME NEW at, NEW next, NEW table, ChildSteps(c, at, next, table)
      PROVE  m.pc = at /\ child'[c].pc = next /\ fds'[c] = table
  BY <1>0, <1>4 DEF ChildSteps, ChildRec
<1>5. \A f \in Fds \ {STDIN_FILENO, STDOUT_FILENO} :
         IF f \in Extra(c) THEN h[f] = None ELSE t[f] = h[f]
  BY <1>2 DEF ChildHad
<1>6. ASSUME \A f \in Fds \ {STDIN_FILENO, STDOUT_FILENO} :
                IF f \in Extra(c)' THEN h[f] = None ELSE fds'[c][f] = h[f]
      PROVE  ChildHad(c)'
  BY <1>0, <1>1, <1>6 DEF ChildHad
<1> HIDE DEF t, m, h
<1>7. CASE Child_move_out(c)
  <2>1. /\ m.pc = "move_out" /\ child'[c].pc = "close_parent"
        /\ fds'[c] = move_fd(t, child_fd(m), out_fd(m))
    BY <1>2, <1>4, <1>7 DEF Child_move_out, move_fd_fails, t, m
  <2>2. \A f \in Fds \ {STDIN_FILENO, STDOUT_FILENO} :
           fds'[c][f] = IF f = child_fd(m) THEN None ELSE t[f]
    BY <1>0, <1>3, <2>1 DEF move_fd, CloseFd, IsTable
  <2>3. Extra(c) = {m.rd, m.wr, m.prev} /\ Extra(c)' = {parent_fd(m), m.prev}
    BY <1>1, <2>1 DEF Extra, m
  <2>4. Extra(c) = Extra(c)' \cup {child_fd(m)} /\ child_fd(m) \notin Extra(c)'
    BY <1>3, <2>3
  <2> QED BY <1>5, <1>6, <2>2, <2>4
<1>8. CASE Child_close_parent(c)
  <2>1. /\ m.pc = "close_parent" /\ child'[c].pc = AfterClose(c)
        /\ fds'[c] = CloseFd(t, parent_fd(m))
    BY <1>4, <1>8 DEF Child_close_parent, t, m
  <2>2. \A f \in Fds : fds'[c][f] = IF f = parent_fd(m) THEN None ELSE t[f]
    BY <1>0, <1>3, <2>1 DEF CloseFd, IsTable
  <2>3. /\ Extra(c) = {parent_fd(m), m.prev}
        /\ Extra(c)' = IF m.prev = -1 THEN {} ELSE {m.prev}
    BY <1>1, <2>1 DEF Extra, AfterClose, m
  <2> QED BY <1>3, <1>5, <1>6, <2>2, <2>3
<1>9. CASE Child_move_in(c)
  <2>1. /\ m.pc = "move_in" /\ child'[c].pc = "exec"
        /\ fds'[c] = move_fd(t, m.prev, in_fd(m))
    BY <1>2, <1>4, <1>9 DEF Child_move_in, move_fd_fails, t, m
  <2>2. m.prev \in Fds
    BY <1>0, <1>3, <2>1 DEF CallInv, TypeInv, m
  <2>3. \A f \in Fds \ {STDIN_FILENO, STDOUT_FILENO} :
           fds'[c][f] = IF f = m.prev THEN None ELSE t[f]
    BY <1>0, <1>3, <2>1, <2>2 DEF move_fd, CloseFd, IsTable
  <2>4. Extra(c) = {m.prev} /\ Extra(c)' = {}
    BY <1>1, <2>1 DEF Extra, m
  <2> QED BY <1>5, <1>6, <2>3, <2>4
<1>10. CASE \/ Pexecx(c) \/ Task_eof(c) \/ Task_sigpipe(c) \/ Stray_exit(c)
            \/ Task_read(c) \/ Task_write(c)
  <2>1. fds'[c] = t /\ child'[c].pc \in {"run"} /\ m.pc \in {"exec", "run"}
    <3>1. child'[c].pc # "zombie"
      BY DEF Alive
    <3>2. CASE Task_read(c) \/ Task_write(c)
      BY <1>0, <3>2 DEF Task_read, Task_write, ChildRec, t, m
    <3>3. CASE Pexecx(c) \/ Task_eof(c) \/ Task_sigpipe(c) \/ Stray_exit(c)
      BY <1>2, <1>4, <3>1, <3>3
      DEF Pexecx, Task_eof, Task_sigpipe, Stray_exit, Exit, t, m
    <3> QED BY <1>10, <3>2, <3>3
  <2>2. Extra(c) = {} /\ Extra(c)' = {}
    BY <2>1 DEF Extra, m
  <2> QED BY <1>5, <1>6, <2>1, <2>2
<1> QED BY <1>7, <1>8, <1>9, <1>10 DEF ChildStep

LEMMA NextHad ==
    ASSUME CallInv, HeldInv, WireInv, HadInv, [Next]_vars PROVE HadInv'
<1>0. TypeInv
  BY DEF CallInv
<1>1. CASE UNCHANGED vars
  <2>1. UNCHANGED <<fds, child, stream, call, had>> /\ SameStreamsUsed
    BY <1>1 DEF vars, SameStreamsUsed
  <2>2. ProgramHad'
    BY <2>1 DEF HadInv, ProgramHad, Mine, HasPipe, HasOne, HasPrev, InPopen, parent_fd, cur
  <2> QED BY <2>1, <2>2, HadStep
<1>2. CASE Ppopen_pipe
  BY <1>2, PipeHad
<1>3. ASSUME InPopen, Throw, UNCHANGED <<fds, child, had>> PROVE HadInv'
  <2>1. /\ call.sid \in Sids /\ stream[call.sid].state = "opening"
        /\ call'.pc = "lua" /\ stream'[call.sid].state = "failed"
        /\ \A s \in Sids \ {call.sid} : stream'[s] = stream[s]
        /\ stream'[call.sid].mode = stream[call.sid].mode
        /\ stream'[call.sid].n = stream[call.sid].n
    BY <1>3, ThrowEffect
  <2>2. ~InPopen' /\ SameStreamsUsed
    BY <2>1 DEF InPopen, SameStreamsUsed
  <2> QED BY <1>3, <2>1, <2>2, HadStep
<1>4. CASE Ppopen_pipe_fails \/ Ppopen_fork_fails
  BY <1>3, <1>4 DEF Ppopen_pipe_fails, Ppopen_fork_fails, InPopen, At
<1>5. CASE Ppopen_fork
  BY <1>5, ForkHad
<1>6. CASE Ppopen_close
  BY <1>6, CloseHad
<1>7. CASE Ppopen_pipeline_link
  BY <1>7, LinkHad
<1>8. CASE Pspawn_fork
  <2>0. InPopen /\ At("fork") /\ call.mode = "spawn" /\ UNCHANGED had
    BY <1>8 DEF Pspawn_fork, InPopen, At
  <2>1. CASE Throw
    <3>1. UNCHANGED <<fds, child>>
      <4>1. CASE call' = [call EXCEPT !.pc = "wait"]
        <5>1. call'.pc = "wait"
          BY <4>1 DEF CallInv, TypeInv, CallRec
        <5> QED BY <2>1, <5>1 DEF Throw, Idle
      <4> QED BY <1>8, <4>1 DEF Pspawn_fork
    <3> QED BY <1>3, <2>0, <2>1, <3>1
  <2>2. CASE ~Throw
    <3>1. PICK sid \in Sids : sid = call.sid
      BY <2>0, InLoop
    <3>2. /\ Fork(nproc + 1, "exec") /\ call'.pc = "wait"
          /\ \A s \in Sids \ {sid} : stream'[s] = stream[s]
          /\ stream'[sid].state = "closing" /\ stream[sid].state = "opening"
          /\ stream'[sid].mode = stream[sid].mode /\ stream'[sid].n = stream[sid].n
      BY <1>8, <2>0, <2>2, <3>1, SpawnForkEffect, InLoop DEF cur
    <3>3. PICK pid \in Children :
            /\ \A p \in Procs \ {pid} : fds'[p] = fds[p]
            /\ \A c \in Children \ {pid} : child'[c] = child[c]
            /\ child'[pid].mode = call.mode
      BY <2>0, <3>2, ForkEffect
    <3>4. ~Alive(pid)' /\ \A c \in Children \ {pid} : fds'[c] = fds[c]
      BY <2>0, <3>3, ChildIsProc, Constants DEF Alive, Children
    <3>5. ~InPopen' /\ SameStreamsUsed
      BY <3>2 DEF InPopen, SameStreamsUsed
    <3> QED BY <2>0, <3>2, <3>3, <3>4, <3>5, HadStep
  <2> QED BY <2>1, <2>2
<1>9. ASSUME NEW pid \in Children, Ppclose_wait(pid) PROVE HadInv'
  <2>0. UNCHANGED <<fds, had>> /\ At("wait")
    BY <1>9 DEF Ppclose_wait
  <2>1. /\ call.sid \in Sids /\ \A s \in Sids \ {call.sid} : stream'[s] = stream[s]
        /\ stream'[call.sid] = stream[call.sid] \/ stream'[call.sid].state = "closed"
        /\ stream'[call.sid].mode = stream[call.sid].mode
        /\ stream'[call.sid].n = stream[call.sid].n
        /\ call'.pc \in {"wait", "lua"}
        /\ \A c \in Children \ {pid} : child'[c] = child[c]
        /\ child'[pid].pc = "reaped" \/ child' = child
    BY <1>9, WaitEffect
  <2>2. stream[call.sid].state = "closing"
    BY <2>0, <2>1 DEF CallInv, States
  <2>3. ~InPopen' /\ SameStreamsUsed
    BY <2>1, <2>2 DEF InPopen, SameStreamsUsed
  <2>4. \A c \in Children : child'[c] = child[c] \/ ~Alive(c)'
    BY <2>1 DEF Alive
  <2> QED BY <2>0, <2>1, <2>2, <2>3, <2>4, HadStep
<1>10. ASSUME NEW mode \in Modes \ {"spawn"}, NEW n \in 1..MaxStages,
              Ppopen_pipeline(mode, n)
       PROVE  HadInv'
  <2>1. mode \in AllModes /\ n \in Nat \ {0}
    BY Constants
  <2>2. /\ Begins(nstream + 1, mode, n, "pipe")
        /\ had' = [had EXCEPT ![nstream + 1] = fds[0]]
    BY <1>10 DEF Ppopen_pipeline, Begins
  <2>3. Begun(nstream + 1, mode, n, "pipe")
    BY <2>1, <2>2, BeginEffect
  <2>4. nstream + 1 \in Sids
    BY <2>3 DEF Begun
  <2> QED BY <2>2, <2>3, <2>4, BeginHad
<1>11. CASE Pspawn
  <2>1. "spawn" \in AllModes /\ 1 \in Nat \ {0}
    BY DEF AllModes
  <2>2. /\ Begins(nstream + 1, "spawn", 1, "fork")
        /\ had' = [had EXCEPT ![nstream + 1] = fds[0]]
    BY <1>11, Constants DEF Pspawn, Begins, CallInv, InTurn
  <2>3. Begun(nstream + 1, "spawn", 1, "fork")
    BY <2>1, <2>2, BeginEffect
  <2>4. nstream + 1 \in Sids
    BY <2>3 DEF Begun
  <2> QED BY <2>2, <2>3, <2>4, BeginHad
<1>12. ASSUME NEW sid \in Sids, Ppclose(sid) PROVE HadInv'
  <2>0. /\ UNCHANGED <<child, had>> /\ stream[sid].state = "open"
        /\ fds' = [fds EXCEPT ![0] = CloseFd(@, stream[sid].fd)]
    BY <1>12 DEF Ppclose
  <2>1. /\ \A s \in Sids \ {sid} : stream'[s] = stream[s]
        /\ stream'[sid].state = "closing" /\ call'.pc = "wait"
        /\ stream'[sid].mode = stream[sid].mode /\ stream'[sid].n = stream[sid].n
    BY <1>12, PcloseEffect
  <2>2. \A p \in Procs \ {0} : fds'[p] = fds[p]
    BY <2>0, CloseEffect DEF CallInv
  <2>3. \A c \in Children : fds'[c] = fds[c]
    BY <2>2, ChildIsProc, Constants DEF Children
  <2>4. ~InPopen' /\ SameStreamsUsed
    BY <2>0, <2>1 DEF InPopen, SameStreamsUsed
  <2> QED BY <2>0, <2>1, <2>3, <2>4, HadStep
<1>13. ASSUME StreamsKept, UNCHANGED <<call, had>>, fds'[0] = fds[0],
              \A c \in Children : \/ child'[c] = child[c] /\ fds'[c] = fds[c]
                                  \/ Alive(c)' => ChildHad(c)'
       PROVE  HadInv'
  <2>1. SameStreamsUsed /\ (InPopen => cur'.fd = cur.fd)
    BY <1>13, UsedIfKept DEF StreamsKept, cur, CallInv, Loop
  <2>2. InPopen' => Mine' = Mine
    BY <1>13, <2>1 DEF Mine, HasPipe, HasOne, HasPrev, InPopen, parent_fd
  <2>3. InPopen' => ProgramHad'
    BY <1>13, <2>2 DEF HadInv, ProgramHad, InPopen
  <2> QED BY <1>13, <2>1, <2>3, HadStep DEF StreamsKept
<1>14. ASSUME NEW sid \in Sids, Program_read(sid) \/ Program_write(sid)
       PROVE  HadInv'
  <2>1. StreamsKept /\ UNCHANGED <<call, fds, child, had>>
    BY <1>0, <1>14, ProgramUses DEF Program_read, Program_write
  <2> QED BY <1>13, <2>1
<1>15. ASSUME NEW c \in Children, ChildStep(c) \/ Stray_exit(c) PROVE HadInv'
  <2>1. ChildMoves(c) /\ UNCHANGED had
    BY <1>0, <1>15, ChildStepMoves
    DEF ChildStep, Child_move_out, Child_close_parent, Child_move_in, move_fd_fails,
        Pexecx, Task_read, Task_eof, Task_write, Task_sigpipe, Stray_exit, Exit, ChildSteps
  <2>2. /\ fds'[0] = fds[0]
        /\ \A d \in Children \ {c} : fds'[d] = fds[d] /\ child'[d] = child[d]
    BY <2>1, ChildIsProc, Constants DEF ChildMoves, Children
  <2>3. Alive(c)' => ChildHad(c)'
    BY <1>15, ChildStepHad
  <2> QED BY <1>13, <2>1, <2>2, <2>3 DEF ChildMoves
<1> QED
  BY <1>1, <1>2, <1>4, <1>5, <1>6, <1>7, <1>8, <1>9, <1>10, <1>11, <1>12, <1>14, <1>15
  DEF Next, CallStep, ProgramStep, Sids

LEMMA InitHad == Init => HadInv
<1> SUFFICES ASSUME Init PROVE HadInv
  OBVIOUS
<1>1. \A c \in Children : ~Alive(c)
  BY DEF Init, Unborn, Alive
<1>2. ~InPopen /\ \A s \in Sids : stream[s].state = "new"
  BY DEF Init, Idle, InPopen, New, Sids
<1> QED BY <1>1, <1>2 DEF HadInv, ProgramHad, Init, Sids

\* A running task has its ends in place.
LEMMA RunningEnds ==
    ASSUME CallInv, WireInv, NEW c \in Children,
           child[c].pc = "run", child[c].mode # "spawn"
    PROVE  /\ Alive(c) /\ Placed(c) /\ Moving(c) /\ Outermost(c)
           /\ child[c].mode \in {"r", "w"}
           /\ child[c].mode = stream[child[c].sid].mode
           /\ Round(c) \in 1..stream[child[c].sid].n
           /\ stream[child[c].sid].n \in Nat /\ child[c].task \in Int
           /\ child[c].mode = "r" =>
                /\ Round(c) = child[c].task
                /\ OutEnd(c) = fds[c][STDOUT_FILENO] /\ InEnd(c) = fds[c][STDIN_FILENO]
                /\ OutEnd(c) = Write(OutEnd(c).pipe)
                /\ IF Round(c) = 1 THEN InEnd(c) = Tty ELSE InEnd(c) = Read(InEnd(c).pipe)
           /\ child[c].mode = "w" =>
                /\ Round(c) = stream[child[c].sid].n + 1 - child[c].task
                /\ OutEnd(c) = fds[c][STDIN_FILENO] /\ InEnd(c) = fds[c][STDOUT_FILENO]
                /\ OutEnd(c) = Read(OutEnd(c).pipe)
                /\ IF Round(c) = 1 THEN InEnd(c) = Tty ELSE InEnd(c) = Write(InEnd(c).pipe)
<1>1. Alive(c) /\ Placed(c) /\ Moving(c) /\ Outermost(c)
  BY DEF Alive, WireInv, Place
<1>2. /\ child[c].mode \in {"r", "w"} /\ child[c].mode = stream[child[c].sid].mode
      /\ Round(c) \in 1..stream[child[c].sid].n
      /\ child[c].prev = -1 <=> Round(c) = 1
      /\ child[c].sid \in Sids
  BY <1>1 DEF Placed
<1>3. stream[child[c].sid].n \in Nat /\ child[c].task \in Int
  BY <1>2 DEF CallInv, TypeInv, StreamRec, ChildRec
<1>4. OutEnd(c) = fds[c][out_fd(child[c])] /\ InEnd(c) = fds[c][in_fd(child[c])]
  BY DEF OutEnd, InEnd
<1>5. /\ IsInner(OutEnd(c), child[c].mode)
      /\ IF Round(c) = 1 THEN InEnd(c) = Tty ELSE IsOuter(InEnd(c), child[c].mode)
  BY <1>1, <1>2, <1>4 DEF Moving
<1>6. Round(c) = IF child[c].mode = "w" THEN stream[child[c].sid].n + 1 - child[c].task
                                        ELSE child[c].task
  BY DEF Round, Task
<1> QED BY <1>1, <1>2, <1>3, <1>4, <1>5, <1>6 DEF out_fd, in_fd, IsInner, IsOuter

LEMMA InvWired ==
    ASSUME CallInv, HeldInv, WireInv, HadInv PROVE Wired
<1> SUFFICES ASSUME NEW c \in Children, child[c].pc = "run", child[c].mode # "spawn"
             PROVE  LET s == stream[child[c].sid]
                        t == child[c].task
                        stdin  == fds[c][STDIN_FILENO]
                        stdout == fds[c][STDOUT_FILENO]
                    IN /\ IF s.mode = "r" \/ t < s.n THEN stdout.end = "write"
                                          ELSE stdout = had[child[c].sid][STDOUT_FILENO]
                       /\ IF s.mode = "w" \/ t > 1 THEN stdin.end = "read"
                                          ELSE stdin = had[child[c].sid][STDIN_FILENO]
                       /\ \A d \in Stage(child[c].sid, t + 1) :
                            child[d].pc = "run" =>
                              fds[d][STDIN_FILENO] = [stdout EXCEPT !.end = "read"]
                       /\ s.state = "open" =>
                            /\ s.mode = "r" /\ t = s.n =>
                                 fds[0][s.fd] = Read(stdout.pipe)
                            /\ s.mode = "w" /\ t = 1 =>
                                 fds[0][s.fd] = Write(stdin.pipe)
                       /\ \A f \in Fds \ {STDIN_FILENO, STDOUT_FILENO} :
                            fds[c][f] = had[child[c].sid][f]
  BY DEF Wired
<1> DEFINE s == stream[child[c].sid]
           t == child[c].task
           stdin  == fds[c][STDIN_FILENO]
           stdout == fds[c][STDOUT_FILENO]
<1>1. /\ s.mode \in {"r", "w"} /\ s.mode = child[c].mode /\ Round(c) \in 1..s.n
      /\ s.n \in Nat /\ t \in Int /\ Alive(c) /\ Placed(c) /\ Outermost(c)
      /\ s.mode = "r" => /\ Round(c) = t /\ OutEnd(c) = stdout /\ InEnd(c) = stdin
                         /\ stdout = Write(stdout.pipe)
                         /\ IF Round(c) = 1 THEN stdin = Tty ELSE stdin = Read(stdin.pipe)
      /\ s.mode = "w" => /\ Round(c) = s.n + 1 - t /\ OutEnd(c) = stdin
                         /\ InEnd(c) = stdout /\ stdin = Read(stdin.pipe)
                         /\ IF Round(c) = 1 THEN stdout = Tty
                                            ELSE stdout = Write(stdout.pipe)
  BY RunningEnds
<1>2. /\ had[child[c].sid][STDIN_FILENO] = Tty
      /\ had[child[c].sid][STDOUT_FILENO] = Tty
  BY <1>1 DEF HadInv, Placed
<1>3. ASSUME NEW k PROVE [Write(k) EXCEPT !.end = "read"] = Read(k)
  BY DEF Read, Write
<1>4. ASSUME NEW d \in Stage(child[c].sid, t + 1), child[d].pc = "run"
      PROVE  fds[d][STDIN_FILENO] = [stdout EXCEPT !.end = "read"]
  <2>1. d \in Children /\ child[d].sid = child[c].sid /\ child[d].task = t + 1
    BY DEF Stage
  <2>2. child[d].mode = s.mode /\ Placed(d)
    BY <1>4, <2>1, PlacedOf DEF Placed
  <2>3. child[d].mode # "spawn"
    BY <1>1, <2>2
  <2>4. JoinedTo(c, d) /\ JoinedTo(d, c)
    BY <2>1 DEF WireInv, Joined
  <2>5. CASE s.mode = "r"
    <3>1. /\ Alive(d) /\ Round(d) = t + 1 /\ InEnd(d) = fds[d][STDIN_FILENO]
          /\ IF Round(d) = 1 THEN InEnd(d) = Tty ELSE InEnd(d) = Read(InEnd(d).pipe)
      BY <1>4, <2>1, <2>2, <2>3, <2>5, RunningEnds
    <3>2. Round(c) = t /\ t >= 1 /\ Round(d) # 1
      BY <1>1, <2>5, <3>1
    <3>3. stdout.pipe = InEnd(d).pipe
      BY <1>1, <2>1, <2>4, <2>5, <3>1, <3>2 DEF JoinedTo
    <3> QED BY <1>1, <1>3, <2>5, <3>1, <3>2, <3>3
  <2>6. CASE s.mode = "w"
    <3>1. /\ Alive(d) /\ Round(d) = s.n + 1 - (t + 1)
          /\ OutEnd(d) = fds[d][STDIN_FILENO] /\ OutEnd(d) = Read(OutEnd(d).pipe)
          /\ Round(d) \in 1..s.n
      BY <1>4, <2>1, <2>2, <2>3, <2>6, RunningEnds
    <3>2. Round(c) = Round(d) + 1 /\ Round(c) # 1
      BY <1>1, <2>6, <3>1
    <3>3. OutEnd(d).pipe = stdout.pipe
      BY <1>1, <2>1, <2>4, <2>6, <3>1, <3>2 DEF JoinedTo
    <3> QED BY <1>1, <1>3, <2>6, <3>1, <3>2, <3>3
  <2> QED BY <1>1, <2>5, <2>6
<1>5. ASSUME s.state = "open"
      PROVE  /\ s.mode = "r" /\ t = s.n => fds[0][s.fd] = Read(stdout.pipe)
             /\ s.mode = "w" /\ t = 1 => fds[0][s.fd] = Write(stdin.pipe)
  <2>1. child[c].sid \in Sids /\ IsOpen(child[c].sid)
    BY <1>1, <1>5 DEF Placed, IsOpen
  <2>2. IsOuter(fds[0][s.fd], s.mode)
    BY <2>1 DEF HeldInv, EndsHeld
  <2>3. Round(c) = s.n => OutEnd(c).pipe = fds[0][s.fd].pipe
    BY <1>1, <2>1 DEF Outermost
  <2> HIDE DEF s, t, stdin, stdout
  <2> QED BY <1>1, <2>2, <2>3 DEF IsOuter
<1>6. /\ IF s.mode = "r" \/ t < s.n THEN stdout.end = "write"
                                    ELSE stdout = had[child[c].sid][STDOUT_FILENO]
      /\ IF s.mode = "w" \/ t > 1 THEN stdin.end = "read"
                                  ELSE stdin = had[child[c].sid][STDIN_FILENO]
  <2> HIDE DEF s, t, stdin, stdout
  <2>1. CASE s.mode = "r"
    BY <1>1, <1>2, <2>1, EndsDiffer
  <2>2. CASE s.mode = "w"
    BY <1>1, <1>2, <2>2, EndsDiffer
  <2> QED BY <1>1, <2>1, <2>2
<1>7. \A f \in Fds \ {STDIN_FILENO, STDOUT_FILENO} : fds[c][f] = had[child[c].sid][f]
  <2>1. Extra(c) = {} /\ ChildHad(c)
    BY <1>1 DEF HadInv, Extra
  <2> QED BY <2>1 DEF ChildHad
<1> QED BY <1>4, <1>5, <1>6, <1>7

\* popen_pipeline joins its tasks in order, in whatever order the processes
\* take their steps and whichever calls fail: every task that runs reads what
\* the task before it writes, the program has the outer end, and all else is what
\* the program had when it made the call: no other end of a pipe stays open in a
\* task. The program has to be started with both standard descriptors: move_fd
\* is otherwise given descriptors that are standard ones already.
THEOREM TasksWired ==
    ASSUME \A c \in Closed : c = {} PROVE Spec => []Wired
<1>1. Init => CallInv /\ HeldInv /\ WireInv /\ HadInv
  BY InitCallInv, InitHeld, InitWire, InitHad
<1>2. CallInv /\ HeldInv /\ WireInv /\ HadInv /\ [Next]_vars
        => CallInv' /\ HeldInv' /\ WireInv' /\ HadInv'
  BY NextCallInv, NextHeld, NextWire, NextHad
<1>3. CallInv /\ HeldInv /\ WireInv /\ HadInv => Wired
  BY InvWired
<1> QED BY <1>1, <1>2, <1>3, PTL DEF Spec

-----------------------------------------------------------------------------
(* The processes of a stream.                                              *)

\* A process that runs a task of a pipeline, and the one of a round.
Forked(c) == child[c].pc # "unborn" /\ child[c].mode # "spawn"
TaskOf(c, s, i) == Forked(c) /\ child[c].sid = s /\ Round(c) = i

\* pfd.pids has the process of each round, in the order of the rounds, and a
\* round has no other.
PidsInv ==
    /\ call.pc \in {"close", "link"} => TaskOf(call.pid, call.sid, call.i)
    /\ \A s \in Sids : stream[s].mode # "spawn" =>
         /\ \A j \in DOMAIN stream[s].pids : TaskOf(stream[s].pids[j], s, j)
         /\ stream[s].state \in {"closing", "closed"} =>
              Len(stream[s].pids) = stream[s].n /\ stream[s].n >= 1
    /\ \A c, d \in Children :
         Forked(c) /\ Forked(d) /\ child[c].sid = child[d].sid
           /\ Round(c) = Round(d) => c = d

\* A process keeps its stream and its round.
LEMMA TasksKept ==
    ASSUME CallInv, WireInv, SameStreamsUsed, NEW c \in Children, SameChild(c)
    PROVE  /\ Forked(c)' <=> Forked(c)
           /\ Forked(c) => child'[c].sid = child[c].sid /\ Round(c)' = Round(c)
           /\ \A s, i : TaskOf(c, s, i)' <=> TaskOf(c, s, i)
<1>1. /\ Forked(c)' <=> Forked(c)
      /\ child'[c].sid = child[c].sid
  BY DEF SameChild, Forked
<1>2. Forked(c) => Round(c)' = Round(c)
  BY SameRounds DEF Forked
<1> QED BY <1>1, <1>2 DEF TaskOf

\* A step that forks no task and adds no process to a stream.
LEMMA PidsKept ==
    ASSUME CallInv, WireInv, PidsInv, SameStreamsUsed,
           \A c \in Children : SameChild(c),
           call'.pc \in {"close", "link"} =>
              /\ call.pc \in {"close", "link"} /\ call'.pid = call.pid
              /\ call'.sid = call.sid /\ call'.i = call.i,
           \A s \in Sids :
              /\ stream'[s].pids = stream[s].pids
              /\ stream'[s].state \in {"closing", "closed"} =>
                   stream[s].state \in {"open", "closing", "closed"}
    PROVE  PidsInv'
<1>1. \A c \in Children :
        /\ Forked(c)' <=> Forked(c)
        /\ Forked(c) => child'[c].sid = child[c].sid /\ Round(c)' = Round(c)
        /\ \A s, i : TaskOf(c, s, i)' <=> TaskOf(c, s, i)
  BY TasksKept
<1>2. call.pc \in {"close", "link"} => call.pid \in Children
  BY DEF CallInv, Loop, InPopen
<1>3. call'.pc \in {"close", "link"} => TaskOf(call.pid, call.sid, call.i)'
  <2> SUFFICES ASSUME call'.pc \in {"close", "link"}
               PROVE  TaskOf(call.pid, call.sid, call.i)'
    OBVIOUS
  <2>1. PICK pid \in Children, s \in {call.sid}, i \in {call.i} :
          /\ pid = call.pid /\ s = call.sid /\ i = call.i
          /\ pid = call'.pid /\ s = call'.sid /\ i = call'.i
    BY <1>2
  <2>2. TaskOf(pid, s, i)
    BY <2>1 DEF PidsInv
  <2>3. TaskOf(pid, s, i)'
    BY <1>1, <2>2
  <2> QED BY <2>1, <2>3 DEF TaskOf, Forked, Round
<1>4. ASSUME NEW s \in Sids, stream'[s].mode # "spawn"
      PROVE  /\ \A j \in DOMAIN stream[s].pids : TaskOf(stream[s].pids[j], s, j)'
             /\ stream'[s].state \in {"closing", "closed"} =>
                  Len(stream'[s].pids) = stream'[s].n /\ stream'[s].n >= 1
  <2>1. CASE stream[s].state = "new"
    BY <2>1 DEF CallInv, States
  <2>2. CASE stream[s].state # "new"
    <3>1. stream'[s].mode = stream[s].mode /\ stream'[s].n = stream[s].n
      BY <2>2 DEF SameStreamsUsed
    <3>2. \A j \in DOMAIN stream[s].pids : stream[s].pids[j] \in Children
      BY DEF CallInv, TypeInv, StreamRec
    <3>3. stream[s].state \in {"open", "closing", "closed"} =>
            Len(stream[s].pids) = stream[s].n /\ stream[s].n >= 1
      BY <1>4, <3>1 DEF CallInv, States, PidsInv
    <3>4. ASSUME NEW j \in DOMAIN stream[s].pids
          PROVE  TaskOf(stream[s].pids[j], s, j)'
      <4>1. PICK d \in Children : d = stream[s].pids[j]
        BY <3>2
      <4>2. d = stream'[s].pids[j]
        BY <4>1
      <4>3. TaskOf(d, s, j)
        BY <1>4, <3>1, <4>1 DEF PidsInv
      <4>4. TaskOf(d, s, j)'
        BY <1>1, <4>3
      <4> QED BY <4>2, <4>4 DEF TaskOf, Forked, Round
    <3> QED BY <3>1, <3>3, <3>4
  <2> QED BY <2>1, <2>2
<1>5. ASSUME NEW c \in Children, NEW d \in Children, Forked(c)', Forked(d)',
             child'[c].sid = child'[d].sid, Round(c)' = Round(d)'
      PROVE  c = d
  BY <1>1, <1>5 DEF PidsInv
<1>6. \A s \in Sids : stream'[s].pids = stream[s].pids
  OBVIOUS
<1> QED BY <1>3, <1>4, <1>5, <1>6 DEF PidsInv

\* The process of the round is not in pfd.pids yet.
LEMMA ForkPids ==
    ASSUME CallInv, WireInv, WireInv', PidsInv, Ppopen_fork PROVE PidsInv'
<1>0. /\ At("fork") /\ call.pc = "fork" /\ InPopen /\ call.mode # "spawn"
      /\ UNCHANGED stream /\ Fork(nproc + 1, "move_out")
      /\ call' = [call EXCEPT !.pc = "close", !.pid = nproc + 1]
  BY DEF Ppopen_fork, At, InPopen
<1>1. PICK pid \in Children :
        /\ pid = nproc + 1 /\ child[pid].pc = "unborn"
        /\ \A p \in Procs \ {pid} : fds'[p] = fds[p]
        /\ \A c \in Children \ {pid} : child'[c] = child[c]
        /\ child'[pid].pc = "move_out" /\ child'[pid].sid = call.sid
        /\ child'[pid].mode = call.mode
        /\ child'[pid].task = Task(call.mode, call.n, call.i)
  BY <1>0, ForkEffect
<1>2. /\ call'.pc = "close" /\ call'.sid = call.sid /\ call'.i = call.i
      /\ call'.pid = pid
  <2>1. call \in CallRec /\ pid \in 0..MaxProcs
    BY <1>0, InLoop, Constants DEF Children
  <2> QED BY <1>0, <1>1, <2>1 DEF CallRec
<1>3. SameStreamsUsed /\ \A c \in Children \ {pid} : SameChild(c)
  <2>1. \A c \in Children \ {pid} : fds'[c] = fds[c]
    BY <1>1, ChildIsProc
  <2> QED BY <1>0, <1>1, <2>1, UnmovedIsSame DEF SameStreamsUsed
<1>4. /\ cur.mode = call.mode /\ cur.n = call.n /\ call.sid \in Sids
      /\ call.i \in Nat /\ call.n \in Nat /\ cur = stream[call.sid]
  BY <1>0, InLoop DEF CallInv, Loop, cur
<1>5. Round(pid)' = call.i
  <2>1. Round(pid)' = Task(call.mode, call.n, Task(call.mode, call.n, call.i))
    BY <1>0, <1>1, <1>4 DEF Round
  <2> QED BY <1>4, <2>1 DEF Task
<1>6. /\ Forked(pid)' /\ child'[pid].sid = call.sid /\ ~Forked(pid)
  BY <1>0, <1>1 DEF Forked
<1>7. \A c \in Children \ {pid} :
        /\ Forked(c)' <=> Forked(c)
        /\ Forked(c) => child'[c].sid = child[c].sid /\ Round(c)' = Round(c)
        /\ \A s, i : TaskOf(c, s, i)' <=> TaskOf(c, s, i)
  BY <1>3, TasksKept
<1>8. TaskOf(call.pid, call.sid, call.i)'
  BY <1>2, <1>5, <1>6 DEF TaskOf, Forked, Round
<1>9. ASSUME NEW s \in Sids, stream[s].mode # "spawn", NEW j \in DOMAIN stream[s].pids
      PROVE  TaskOf(stream[s].pids[j], s, j)'
  <2>1. PICK d \in Children : d = stream[s].pids[j]
    BY DEF CallInv, TypeInv, StreamRec
  <2>2. TaskOf(d, s, j)
    BY <1>9, <2>1 DEF PidsInv
  <2>3. d # pid
    BY <1>6, <2>2 DEF TaskOf
  <2>4. TaskOf(d, s, j)'
    BY <1>7, <2>2, <2>3
  <2> QED BY <1>0, <2>1, <2>4 DEF TaskOf, Forked, Round
<1>10. ASSUME NEW c \in Children \ {pid}, Forked(c), child[c].sid = call.sid
       PROVE  Round(c)' # Round(pid)'
  <2>1. Round(c) < call.i /\ Round(c) \in Nat
    BY <1>0, <1>10, PlacedOf DEF Forked, WireInv, Place, InRound
  <2> QED BY <1>4, <1>5, <1>7, <1>10, <2>1
<1>11. ASSUME NEW c \in Children, NEW d \in Children, Forked(c)', Forked(d)',
              child'[c].sid = child'[d].sid, Round(c)' = Round(d)'
       PROVE  c = d
  <2>1. CASE c # pid /\ d # pid
    BY <1>7, <1>11, <2>1 DEF PidsInv
  <2>2. CASE c # pid /\ d = pid
    BY <1>6, <1>7, <1>10, <1>11, <2>2
  <2>3. CASE c = pid /\ d # pid
    BY <1>6, <1>7, <1>10, <1>11, <2>3
  <2> QED BY <2>1, <2>2, <2>3
<1>12. \A s \in Sids : /\ stream'[s].pids = stream[s].pids /\ stream'[s].n = stream[s].n
                       /\ stream'[s].mode = stream[s].mode
                       /\ stream'[s].state = stream[s].state
  BY <1>0
<1> QED BY <1>8, <1>9, <1>11, <1>12 DEF PidsInv

\* Now it is.
LEMMA LinkPids ==
    ASSUME CallInv, HeldInv, WireInv, PidsInv, Ppopen_pipeline_link PROVE PidsInv'
<1>0. /\ call.pc = "link" /\ InPopen /\ UNCHANGED child
  BY DEF Ppopen_pipeline_link, At, InPopen
<1>1. PICK sid \in Sids : sid = call.sid
  BY <1>0, InLoop
<1>2. /\ stream' \in [Sids -> StreamRec]
      /\ \A s \in Sids \ {sid} : stream'[s] = stream[s]
      /\ stream'[sid].pids = Append(stream[sid].pids, call.pid)
      /\ stream'[sid].mode = stream[sid].mode /\ stream'[sid].n = stream[sid].n
      /\ stream[sid].state = "opening"
      /\ stream'[sid].state \in {"opening", "open"}
      /\ call'.pc \in {"lua", "pipe"}
      /\ stream[sid].pids \in Seq(Children) /\ Len(stream[sid].pids) = call.i - 1
      /\ call.i \in Nat /\ call.pid \in Children /\ stream[sid].mode # "spawn"
  BY <1>0, <1>1, LinkEffect, InLoop DEF cur, CallInv, Loop, StreamRec
<1>3. \A c \in Children : fds'[c] = fds[c]
  <2>1. \A p \in Procs \ {0} : fds'[p] = fds[p]
    <3>1. CASE call.i = 1
      BY <3>1 DEF Ppopen_pipeline_link
    <3>2. CASE call.i # 1
      BY <3>2, CloseEffect DEF Ppopen_pipeline_link, CallInv
    <3> QED BY <3>1, <3>2
  <2> QED BY <2>1, ChildIsProc, Constants DEF Children
<1>4. SameStreamsUsed /\ \A c \in Children : SameChild(c)
  BY <1>0, <1>2, <1>3, UnmovedIsSame DEF SameStreamsUsed
<1>5. \A c \in Children :
        /\ Forked(c)' <=> Forked(c)
        /\ Forked(c) => child'[c].sid = child[c].sid /\ Round(c)' = Round(c)
        /\ \A s, i : TaskOf(c, s, i)' <=> TaskOf(c, s, i)
  BY <1>4, TasksKept
<1>6. ASSUME NEW s \in Sids, stream[s].mode # "spawn", NEW j \in DOMAIN stream'[s].pids
      PROVE  TaskOf(stream[s].pids[j], s, j)'
  <2>1. \E d \in Children : d = stream'[s].pids[j] /\ TaskOf(d, s, j)
    <3>1. CASE s # sid
      <4>1. j \in DOMAIN stream[s].pids /\ stream'[s].pids[j] = stream[s].pids[j]
        BY <1>2, <1>6, <3>1
      <4>2. stream[s].pids[j] \in Children
        BY <4>1 DEF CallInv, TypeInv, StreamRec
      <4> QED BY <1>6, <4>1, <4>2 DEF PidsInv
    <3>2. CASE s = sid /\ j # call.i
      <4>1. PICK ps \in Seq(Children) :
              ps = stream[sid].pids /\ stream'[sid].pids = Append(ps, call.pid)
        BY <1>2
      <4>2. j \in 1..(Len(ps) + 1) /\ Len(ps) = call.i - 1
        BY <1>2, <1>6, <3>2, <4>1
      <4>3. j \in 1..Len(ps) /\ Append(ps, call.pid)[j] = ps[j] /\ ps[j] \in Children
        BY <1>2, <3>2, <4>2
      <4>4. j \in DOMAIN stream[s].pids /\ stream'[s].pids[j] = stream[s].pids[j]
              /\ stream[s].pids[j] \in Children
        BY <3>2, <4>1, <4>3
      <4> QED BY <1>6, <4>4 DEF PidsInv
    <3>3. CASE s = sid /\ j = call.i
      <4>1. stream'[s].pids[j] = call.pid
        BY <1>2, <3>3
      <4> QED BY <1>0, <1>1, <1>2, <3>3, <4>1 DEF PidsInv
    <3> QED BY <3>1, <3>2, <3>3
  <2>2. PICK d \in Children : d = stream'[s].pids[j] /\ TaskOf(d, s, j)
    BY <2>1
  <2>3. TaskOf(d, s, j)'
    BY <1>5, <2>2
  <2> QED BY <2>2, <2>3 DEF TaskOf, Forked, Round
<1>7. ASSUME NEW c \in Children, NEW d \in Children, Forked(c)', Forked(d)',
             child'[c].sid = child'[d].sid, Round(c)' = Round(d)'
      PROVE  c = d
  BY <1>5, <1>7 DEF PidsInv
<1>8. ASSUME NEW s \in Sids, stream'[s].mode # "spawn",
             stream'[s].state \in {"closing", "closed"}
      PROVE  Len(stream'[s].pids) = stream'[s].n /\ stream'[s].n >= 1
  <2>1. s # sid
    BY <1>2, <1>8
  <2> QED BY <1>2, <1>8, <2>1 DEF PidsInv
<1>9. \A s \in Sids : stream'[s].mode = stream[s].mode
  BY <1>2
<1> QED BY <1>2, <1>6, <1>7, <1>8, <1>9 DEF PidsInv

\* A call fails.
LEMMA ThrowPids ==
    ASSUME CallInv, WireInv, PidsInv, InPopen, Throw, UNCHANGED child,
           \A c \in Children : fds'[c] = fds[c]
    PROVE  PidsInv'
<1>1. /\ call.sid \in Sids /\ stream[call.sid].state = "opening"
      /\ call'.pc = "lua" /\ stream'[call.sid].state = "failed"
      /\ \A s \in Sids \ {call.sid} : stream'[s] = stream[s]
      /\ stream'[call.sid].mode = stream[call.sid].mode
      /\ stream'[call.sid].n = stream[call.sid].n
      /\ stream'[call.sid].pids = stream[call.sid].pids
  BY ThrowEffect
<1>2. SameStreamsUsed
  BY <1>1 DEF SameStreamsUsed
<1>3. \A c \in Children : SameChild(c)
  BY UnmovedIsSame
<1> QED BY <1>1, <1>2, <1>3, PidsKept

\* The process that spawn forks runs no task of a pipeline.
LEMMA SpawnForkPids ==
    ASSUME CallInv, WireInv, PidsInv, Pspawn_fork PROVE PidsInv'
<1>0. InPopen /\ At("fork") /\ call.mode = "spawn"
  BY DEF Pspawn_fork, InPopen, At
<1>1. CASE Throw
  <2>1. UNCHANGED <<fds, child>>
    <3>1. CASE call' = [call EXCEPT !.pc = "wait"]
      <4>1. call'.pc = "wait"
        BY <3>1 DEF CallInv, TypeInv, CallRec
      <4> QED BY <1>1, <4>1 DEF Throw, Idle
    <3> QED BY <3>1 DEF Pspawn_fork
  <2> QED BY <1>0, <1>1, <2>1, ThrowPids
<1>2. CASE ~Throw
  <2>1. PICK sid \in Sids : sid = call.sid
    BY <1>0, InLoop
  <2>2. /\ Fork(nproc + 1, "exec") /\ call'.pc = "wait"
        /\ \A s \in Sids \ {sid} : stream'[s] = stream[s]
        /\ stream'[sid].state = "closing"
        /\ stream'[sid].mode = stream[sid].mode /\ stream'[sid].n = stream[sid].n
    BY <1>2, <2>1, SpawnForkEffect
  <2>3. PICK pid \in Children :
          /\ child[pid].pc = "unborn"
          /\ \A p \in Procs \ {pid} : fds'[p] = fds[p]
          /\ \A c \in Children \ {pid} : child'[c] = child[c]
          /\ child'[pid].mode = call.mode
    BY <1>0, <2>2, ForkEffect
  <2>4. \A c \in Children \ {pid} : fds'[c] = fds[c]
    BY <2>3, ChildIsProc
  <2>5. stream[sid].state = "opening" /\ stream[sid].mode = "spawn"
    BY <1>0, <2>1, InLoop DEF cur, CallInv, Loop
  <2>6. SameStreamsUsed /\ \A c \in Children \ {pid} : SameChild(c)
    BY <2>2, <2>3, <2>4, <2>5, UnmovedIsSame DEF SameStreamsUsed
  <2>7. ~Forked(pid) /\ ~Forked(pid)'
    BY <1>0, <2>3 DEF Forked
  <2>8. \A c \in Children \ {pid} :
          /\ Forked(c)' <=> Forked(c)
          /\ Forked(c) => child'[c].sid = child[c].sid /\ Round(c)' = Round(c)
          /\ \A s, i : TaskOf(c, s, i)' <=> TaskOf(c, s, i)
    BY <2>6, TasksKept
  <2>9. ASSUME NEW s \in Sids, stream'[s].mode # "spawn",
               NEW j \in DOMAIN stream'[s].pids
        PROVE  TaskOf(stream[s].pids[j], s, j)'
    <3>1. s # sid /\ stream'[s] = stream[s]
      BY <2>2, <2>5, <2>9
    <3>2. PICK d \in Children : d = stream[s].pids[j]
      BY <2>9, <3>1 DEF CallInv, TypeInv, StreamRec
    <3>3. TaskOf(d, s, j)
      BY <2>9, <3>1, <3>2 DEF PidsInv
    <3>4. TaskOf(d, s, j)'
      BY <2>7, <2>8, <3>3 DEF TaskOf
    <3> QED BY <3>1, <3>2, <3>4 DEF TaskOf, Forked, Round
  <2>10. ASSUME NEW c \in Children, NEW d \in Children, Forked(c)', Forked(d)',
                child'[c].sid = child'[d].sid, Round(c)' = Round(d)'
         PROVE  c = d
    BY <2>7, <2>8, <2>10 DEF PidsInv
  <2>11. ASSUME NEW s \in Sids, stream'[s].mode # "spawn",
                stream'[s].state \in {"closing", "closed"}
         PROVE  Len(stream'[s].pids) = stream'[s].n /\ stream'[s].n >= 1
    <3>1. s # sid /\ stream'[s] = stream[s]
      BY <2>2, <2>5, <2>11
    <3> QED BY <2>11, <3>1 DEF PidsInv
  <2> QED BY <2>2, <2>9, <2>10, <2>11 DEF PidsInv
<1> QED BY <1>1, <1>2

\* A process that was waited for is at rest.
LEMMA ReapedIsSame ==
    ASSUME CallInv, NEW pid \in Children, Ppclose_wait(pid)
    PROVE  \A c \in Children : SameChild(c)
<1>0. UNCHANGED fds
  BY DEF Ppclose_wait
<1>1. /\ \A c \in Children \ {pid} : child'[c] = child[c]
      /\ \/ child[pid].pc = "zombie" /\ child'[pid].pc = "reaped"
            /\ child'[pid] = [child[pid] EXCEPT !.pc = "reaped"]
         \/ child' = child
  BY WaitEffect
<1>2. \A c \in Children : child'[c] = child[c] => SameChild(c)
  BY <1>0, UnmovedIsSame
<1>3. CASE /\ child[pid].pc = "zombie" /\ child'[pid].pc = "reaped"
           /\ child'[pid] = [child[pid] EXCEPT !.pc = "reaped"]
  <2>1. ~Alive(pid)' /\ child[pid] \in ChildRec
    BY <1>3 DEF Alive, CallInv, TypeInv
  <2>2. /\ child'[pid].sid = child[pid].sid /\ child'[pid].mode = child[pid].mode
        /\ child'[pid].rd = child[pid].rd /\ child'[pid].wr = child[pid].wr
        /\ child'[pid].prev = child[pid].prev /\ child'[pid].task = child[pid].task
    BY <1>3, <2>1 DEF ChildRec
  <2>3. SameChild(pid)
    BY <1>3, <2>1, <2>2 DEF SameChild
  <2> QED BY <1>1, <1>2, <2>3
<1> QED BY <1>1, <1>2, <1>3

\* The processes of a stream stay its own, in the order of the rounds.
LEMMA NextPids ==
    ASSUME CallInv, HeldInv, WireInv, WireInv', PidsInv, [Next]_vars PROVE PidsInv'
<1>0. TypeInv
  BY DEF CallInv
<1>1. ASSUME StreamsKept, UNCHANGED call, \A c \in Children : SameChild(c)
      PROVE  PidsInv'
  <2>1. SameStreamsUsed
    BY <1>1, UsedIfKept
  <2> QED BY <1>1, <2>1, PidsKept DEF StreamsKept
<1>2. CASE UNCHANGED vars
  <2>1. StreamsKept /\ UNCHANGED call /\ \A c \in Children : SameChild(c)
    BY <1>2, UnmovedIsSame DEF vars, StreamsKept
  <2> QED BY <1>1, <2>1
<1>3. CASE Ppopen_pipe
  <2>1. InPopen /\ UNCHANGED child /\ \A c \in Children : fds'[c] = fds[c]
    <3>1. \A c \in Children : c # 0
      BY Constants DEF Children
    <3>2. InPopen /\ UNCHANGED child
      BY <1>3 DEF Ppopen_pipe, At, InPopen
    <3>3. fds = [p \in Procs |-> fds[p]]
      BY <1>0 DEF TypeInv
    <3>4. PICK t : fds' = [fds EXCEPT ![0] = t]
      BY <1>3, PipeEffect
    <3> QED BY <3>1, <3>2, <3>3, <3>4, ChildIsProc
  <2>2. CASE Throw
    BY <2>1, <2>2, ThrowPids
  <2>3. CASE ~Throw
    <3>1. call'.pc = "fork" /\ UNCHANGED stream
      BY <1>3, <2>3, PipeEffect
    <3>2. \A c \in Children : SameChild(c)
      BY <2>1, UnmovedIsSame
    <3>3. SameStreamsUsed
      BY <3>1 DEF SameStreamsUsed
    <3> QED BY <3>1, <3>2, <3>3, PidsKept
  <2> QED BY <2>2, <2>3
<1>4. CASE Ppopen_pipe_fails \/ Ppopen_fork_fails
  <2>1. InPopen /\ Throw /\ UNCHANGED <<fds, child>>
    BY <1>4 DEF Ppopen_pipe_fails, Ppopen_fork_fails, InPopen, At
  <2> QED BY <2>1, ThrowPids
<1>5. CASE Ppopen_fork
  BY <1>5, ForkPids
<1>6. CASE Ppopen_close
  <2>1. /\ call.pc = "close" /\ UNCHANGED <<stream, child>>
        /\ call' = [call EXCEPT !.pc = "link"]
        /\ fds' = [fds EXCEPT ![0] = CloseFd(@, child_fd(call))]
    BY <1>6 DEF Ppopen_close, At
  <2>2. call'.pid = call.pid /\ call'.sid = call.sid /\ call'.i = call.i
    BY <1>0, <2>1 DEF TypeInv, CallRec
  <2>3. \A p \in Procs \ {0} : fds'[p] = fds[p]
    BY <1>0, <2>1, CloseEffect
  <2>4. \A c \in Children : SameChild(c)
    BY <2>1, <2>3, ChildIsProc, Constants, UnmovedIsSame DEF Children
  <2>5. SameStreamsUsed
    BY <2>1 DEF SameStreamsUsed
  <2> QED BY <2>1, <2>2, <2>4, <2>5, PidsKept
<1>7. CASE Ppopen_pipeline_link
  BY <1>7, LinkPids
<1>8. CASE Pspawn_fork
  BY <1>8, SpawnForkPids
<1>9. ASSUME NEW pid \in Children, Ppclose_wait(pid) PROVE PidsInv'
  <2>0. At("wait") /\ UNCHANGED fds
    BY <1>9 DEF Ppclose_wait
  <2>1. /\ call.sid \in Sids /\ \A s \in Sids \ {call.sid} : stream'[s] = stream[s]
        /\ stream'[call.sid] = stream[call.sid] \/ stream'[call.sid].state = "closed"
        /\ stream'[call.sid].mode = stream[call.sid].mode
        /\ stream'[call.sid].n = stream[call.sid].n
        /\ stream'[call.sid].pids = stream[call.sid].pids
        /\ call'.pc \in {"wait", "lua"}
    BY <1>9, WaitEffect
  <2>2. stream[call.sid].state = "closing"
    BY <2>0, <2>1 DEF CallInv, States
  <2>3. \A c \in Children : SameChild(c)
    BY <1>9, <2>0, ReapedIsSame
  <2>4. SameStreamsUsed
    BY <2>1, <2>2 DEF SameStreamsUsed
  <2> QED BY <2>1, <2>2, <2>3, <2>4, PidsKept
<1>10. CASE \/ \E mode \in Modes \ {"spawn"}, n \in 1..MaxStages :
                  Ppopen_pipeline(mode, n)
            \/ Pspawn
  <2>1. PICK mode \in AllModes, n \in Nat \ {0}, pc \in {"pipe", "fork"},
             sid \in Sids : Begun(sid, mode, n, pc)
    BY <1>10, CallsBegin
  <2>2. /\ stream[sid].state = "new" /\ call'.pc = pc
        /\ \A s \in Sids \ {sid} : stream'[s] = stream[s]
        /\ stream'[sid].state = "opening" /\ stream'[sid].pids = stream[sid].pids
        /\ UNCHANGED <<fds, child>>
    BY <2>1 DEF Begun
  <2>3. SameStreamsUsed /\ \A c \in Children : SameChild(c)
    BY <2>2, UnmovedIsSame DEF SameStreamsUsed
  <2> QED BY <2>2, <2>3, PidsKept
<1>11. ASSUME NEW sid \in Sids, Ppclose(sid) PROVE PidsInv'
  <2>1. /\ stream[sid].state = "open" /\ UNCHANGED child
        /\ fds' = [fds EXCEPT ![0] = CloseFd(@, stream[sid].fd)]
    BY <1>11 DEF Ppclose
  <2>2. /\ \A s \in Sids \ {sid} : stream'[s] = stream[s]
        /\ stream'[sid].state = "closing" /\ stream'[sid].pids = stream[sid].pids
        /\ stream'[sid].mode = stream[sid].mode /\ stream'[sid].n = stream[sid].n
        /\ call'.pc = "wait"
    BY <1>11, PcloseEffect
  <2>3. \A p \in Procs \ {0} : fds'[p] = fds[p]
    BY <1>0, <2>1, CloseEffect
  <2>4. \A c \in Children : SameChild(c)
    BY <2>1, <2>3, ChildIsProc, Constants, UnmovedIsSame DEF Children
  <2>5. SameStreamsUsed
    BY <2>2 DEF SameStreamsUsed
  <2> QED BY <2>1, <2>2, <2>4, <2>5, PidsKept
<1>12. ASSUME NEW sid \in Sids, Program_read(sid) \/ Program_write(sid)
       PROVE  PidsInv'
  <2>1. StreamsKept /\ UNCHANGED <<call, fds, child>>
    BY <1>0, <1>12, ProgramUses
  <2>2. \A c \in Children : SameChild(c)
    BY <2>1, UnmovedIsSame
  <2> QED BY <1>1, <2>1, <2>2
<1>13. ASSUME NEW c \in Children, ChildStep(c) \/ Stray_exit(c) PROVE PidsInv'
  <2>1. ChildMoves(c)
    BY <1>0, <1>13, ChildStepMoves
  <2>2. \A d \in Children \ {c} : fds'[d] = fds[d] /\ child'[d] = child[d]
    BY <2>1, ChildIsProc DEF ChildMoves
  <2>3. \A d \in Children : SameChild(d)
    BY <1>13, <2>2, ChildKeepsEnds, UnmovedIsSame
  <2> QED BY <1>1, <2>1, <2>3 DEF ChildMoves
<1> QED
  BY <1>2, <1>3, <1>4, <1>5, <1>6, <1>7, <1>8, <1>9, <1>10, <1>11, <1>12, <1>13
  DEF Next, CallStep, ProgramStep, Sids

\* No process has been forked yet.
LEMMA InitPids == Init => PidsInv
<1> SUFFICES ASSUME Init PROVE PidsInv
  OBVIOUS
<1>1. \A c \in Children : ~Forked(c)
  BY DEF Init, Unborn, Forked
<1>2. call.pc = "lua"
  BY DEF Init, Idle
<1>3. \A s \in Sids : stream[s].pids = <<>> /\ stream[s].state = "new"
  BY DEF Init, New, Sids
<1> QED BY <1>1, <1>2, <1>3 DEF PidsInv

-----------------------------------------------------------------------------
(* Pipes.                                                                  *)

\* FS_PigeonHole with its function bound last.
LEMMA PigeonHole ==
    \A A, B : \A f \in [A -> B] :
        IsFiniteSet(A) /\ IsFiniteSet(B) /\ Cardinality(B) < Cardinality(A) =>
            \E x, y \in A : x # y /\ f[x] = f[y]
<1> SUFFICES ASSUME NEW A, NEW B, NEW f \in [A -> B], IsFiniteSet(A), IsFiniteSet(B),
                    Cardinality(B) < Cardinality(A)
             PROVE  \E x, y \in A : x # y /\ f[x] = f[y]
  OBVIOUS
<1> QED BY FS_PigeonHole

\* There are as many pipes as descriptors, and one that is free: a pipe is
\* left that nobody has, and pipe gives one of these.
LEMMA PipesLeft ==
    ASSUME TypeInv, FreeFds # {}, NEW k, k = UnusedPipe
    PROVE  k \in Pipes /\ Holders(Read(k)) = {} /\ Holders(Write(k)) = {}
<1> DEFINE N == (MaxProcs + 2) * (MaxFd + 1)
           S == {l \in Pipes : Holders(Read(l)) \cup Holders(Write(l)) = {}}
           Slots == Procs \X Fds
           Pipe(x) == fds[x[1]][x[2]].pipe
<1>1. N \in Nat
  <2>1. MaxProcs + 2 \in Nat /\ MaxFd + 1 \in Nat
    BY Constants
  <2> QED BY <2>1
<1>2. IsFiniteSet(Slots) /\ Cardinality(Slots) = N
  <2>1. IsFiniteSet(Procs) /\ Cardinality(Procs) = MaxProcs + 2
    <3>1. /\ IsFiniteSet(-1..MaxProcs)
          /\ Cardinality(-1..MaxProcs) = IF -1 > MaxProcs THEN 0 ELSE MaxProcs - (-1) + 1
      BY Constants, FS_Interval
    <3> QED BY <3>1, Constants DEF Procs
  <2>2. IsFiniteSet(Fds) /\ Cardinality(Fds) = MaxFd + 1
    <3>1. /\ IsFiniteSet(0..MaxFd)
          /\ Cardinality(0..MaxFd) = IF 0 > MaxFd THEN 0 ELSE MaxFd - 0 + 1
      BY Constants, FS_Interval
    <3> QED BY <3>1, Constants DEF Fds
  <2>3. IsFiniteSet(Slots) /\ Cardinality(Slots) = Cardinality(Procs) * Cardinality(Fds)
    BY <2>1, <2>2, FS_Product
  <2> QED BY <2>1, <2>2, <2>3
<1>3. Pipes = 1..N
  BY DEF Pipes
<1> HIDE DEF N, Slots
<1>4. IsFiniteSet(0..N) /\ Cardinality(0..N) = N + 1
  <2>1. /\ IsFiniteSet(0..N)
        /\ Cardinality(0..N) = IF 0 > N THEN 0 ELSE N - 0 + 1
    BY <1>1, FS_Interval
  <2> QED BY <1>1, <2>1
<1>5. S # {}
  <2> SUFFICES ASSUME S = {} PROVE FALSE
    OBVIOUS
  <2>1. ASSUME NEW l \in 0..N PROVE \E x \in Slots : Pipe(x) = l
    <3>1. CASE l = 0
      <4>1. PICK f \in Fds : fds[0][f] = None
        BY DEF FreeFds
      <4>2. <<0, f>> \in Slots /\ None.pipe = 0
        BY <4>1, ChildIsProc DEF Slots, None
      <4>3. Pipe(<<0, f>>) = 0
        BY <4>1, <4>2
      <4> QED BY <3>1, <4>2, <4>3
    <3>2. CASE l # 0
      <4>1. l \in Pipes
        BY <1>1, <1>3, <3>2
      <4>2. PICK p \in Procs, f \in Fds : fds[p][f] \in {Read(l), Write(l)}
        BY <4>1 DEF Holders
      <4>3. <<p, f>> \in Slots /\ Read(l).pipe = l /\ Write(l).pipe = l
        BY DEF Slots, Read, Write
      <4>4. Pipe(<<p, f>>) = l
        BY <4>2, <4>3
      <4> QED BY <4>3, <4>4
    <3> QED BY <3>1, <3>2
  <2> DEFINE slot == [l \in 0..N |-> CHOOSE x \in Slots : Pipe(x) = l]
  <2>2. \A l \in 0..N : slot[l] \in Slots /\ Pipe(slot[l]) = l
    BY <2>1
  <2>3. slot \in [0..N -> Slots]
    BY <2>2
  <2>4. Cardinality(Slots) < Cardinality(0..N)
    BY <1>1, <1>2, <1>4
  <2> HIDE DEF slot, Pipe
  <2>5. PICK l \in 0..N, m \in 0..N : l # m /\ slot[l] = slot[m]
    <3> DEFINE Nums == 0..N
    <3>1. /\ IsFiniteSet(Nums) /\ IsFiniteSet(Slots) /\ slot \in [Nums -> Slots]
          /\ Cardinality(Slots) < Cardinality(Nums)
      BY <1>2, <1>4, <2>3, <2>4
    <3> HIDE DEF Nums
    <3>2. \E l, m \in Nums : l # m /\ slot[l] = slot[m]
      BY <3>1, PigeonHole
    <3> QED BY <3>2 DEF Nums
  <2> QED BY <2>2, <2>5
<1>6. S \in SUBSET Nat
  BY <1>1, <1>3
<1>7. Lowest(S) \in S
  BY <1>5, <1>6, LowestIn
<1>8. k = Lowest(S)
  BY DEF UnusedPipe
<1>9. k \in S
  BY <1>7, <1>8
<1> QED BY <1>9

\* What is in the pipes.
BufferInv == buffer \in [Pipes -> Nat]

\* A pipe never has fewer than no items.
LEMMA NextBuffer ==
    ASSUME BufferInv, [Next]_vars PROVE BufferInv'
<1>0. ASSUME NEW k,
             \/ UNCHANGED buffer
             \/ buffer' = [buffer EXCEPT ![k] = 0]
             \/ buffer' = [buffer EXCEPT ![k] = @ + 1]
             \/ buffer[k] > 0 /\ buffer' = [buffer EXCEPT ![k] = @ - 1]
      PROVE  BufferInv'
  BY <1>0 DEF BufferInv
<1>1. CASE Ppopen_pipe
  BY <1>0, <1>1 DEF Ppopen_pipe
<1>2. ASSUME NEW sid \in 1..MaxStreams, Program_read(sid) \/ Program_write(sid)
      PROVE  BufferInv'
  BY <1>0, <1>2 DEF Program_read, Program_write
<1>3. ASSUME NEW c \in Children, Task_read(c) \/ Task_write(c)
      PROVE  BufferInv'
  BY <1>0, <1>3 DEF Task_read, Task_write
<1>4. CASE UNCHANGED buffer
  BY <1>4 DEF BufferInv
<1>5. ASSUME NEW c \in Children, Stray_exit(c) \/ ChildStep(c),
             ~(Task_read(c) \/ Task_write(c))
      PROVE  UNCHANGED buffer
  BY <1>5 DEF ChildStep, Child_move_out, Child_close_parent, Child_move_in, move_fd_fails,
              Pexecx, Task_eof, Task_sigpipe, Stray_exit, Exit, ChildSteps
<1>6. CASE CallStep \/ ProgramStep \/ UNCHANGED vars
  BY <1>1, <1>2, <1>4, <1>6
  DEF CallStep, ProgramStep, Ppopen_pipe_fails, Ppopen_fork, Ppopen_fork_fails,
      Ppopen_close, Ppopen_pipeline_link, Pspawn_fork, Ppclose_wait,
      Ppopen_pipeline, Pspawn, Ppclose, vars
<1> QED BY <1>3, <1>4, <1>5, <1>6 DEF Next

-----------------------------------------------------------------------------
(* Tasks that no failure of exec or of a task's function stops.            *)

\* No child returns from the call of popen, and what spawn runs has the
\* program's own standard descriptors.
Plain(c) ==
    /\ child[c].pc # "stray"
    /\ child[c].pc # "unborn" /\ child[c].mode = "spawn" =>
         child[c].pc \in {"exec", "run", "zombie", "reaped"}
    /\ child[c].pc \in {"exec", "run"} /\ child[c].mode = "spawn" =>
         fds[c][STDIN_FILENO] = Tty /\ fds[c][STDOUT_FILENO] = Tty

PlainInv == \A c \in Children : Plain(c)

\* A child moves its descriptors, begins its task or goes on with it.
LEMMA ChildPlain ==
    ASSUME TypeInv, Failures \subseteq {"pipe", "fork"}, NEW c \in Children, Plain(c),
           ChildStep(c) \/ Stray_exit(c)
    PROVE  Plain(c)'
<1>0. /\ child \in [Children -> ChildRec] /\ fds = [p \in Procs |-> fds[p]]
      /\ c \in Procs
  BY ChildIsProc DEF TypeInv
<1>1. ChildMoves(c)
  BY ChildStepMoves
<1>2. child'[c].mode = child[c].mode
  BY <1>1 DEF ChildMoves
<1>3. ASSUME NEW at, NEW next, NEW table, ChildSteps(c, at, next, table)
      PROVE  child[c].pc = at /\ child'[c].pc = next /\ fds'[c] = table
  BY <1>0, <1>3 DEF ChildSteps, ChildRec
<1>4. CASE Child_move_out(c) \/ Child_close_parent(c) \/ Child_move_in(c)
  <2>1. /\ child[c].pc \in {"move_out", "close_parent", "move_in"}
        /\ child'[c].pc \in {"close_parent", "move_in", "exec"}
    BY <1>3, <1>4 DEF Child_move_out, Child_close_parent, Child_move_in, move_fd_fails, AfterClose
  <2> QED BY <1>2, <2>1 DEF Plain
<1>5. CASE Pexecx(c)
  <2>1. child[c].pc = "exec" /\ child'[c].pc = "run" /\ fds'[c] = fds[c]
    BY <1>3, <1>5 DEF Pexecx
  <2> QED BY <1>2, <2>1 DEF Plain
<1>6. CASE Task_eof(c) \/ Task_sigpipe(c) \/ Stray_exit(c)
  <2>1. child'[c].pc = "zombie"
    BY <1>3, <1>6 DEF Task_eof, Task_sigpipe, Stray_exit, Exit
  <2> QED BY <2>1 DEF Plain
<1>7. CASE Task_read(c) \/ Task_write(c)
  <2>1. fds'[c] = fds[c] /\ child'[c].pc = child[c].pc
    BY <1>0, <1>7 DEF Task_read, Task_write, ChildRec
  <2> QED BY <1>2, <2>1 DEF Plain
<1> QED BY <1>4, <1>5, <1>6, <1>7 DEF ChildStep

\* If only pipe and fork fail, tasks are executed and no child unwinds.
LEMMA NextPlain ==
    ASSUME CallInv, HeldInv, WireInv, PlainInv, Failures \subseteq {"pipe", "fork"},
           [Next]_vars
    PROVE  PlainInv'
<1>0. TypeInv
  BY DEF CallInv
<1>1. ASSUME NEW c \in Children, child'[c] = child[c], fds'[c] = fds[c]
      PROVE  Plain(c)'
  BY <1>1 DEF PlainInv, Plain
<1>2. ASSUME NEW c \in Children, ChildStep(c) \/ Stray_exit(c) PROVE PlainInv'
  <2>1. Plain(c)'
    BY <1>0, <1>2, ChildPlain DEF PlainInv
  <2>2. \A d \in Children \ {c} : fds'[d] = fds[d] /\ child'[d] = child[d]
    BY <1>0, <1>2, ChildStepMoves, ChildIsProc DEF ChildMoves
  <2> QED BY <1>1, <2>1, <2>2 DEF PlainInv
<1>3. ASSUME NEW f, \/ UNCHANGED fds
                    \/ fds' = [fds EXCEPT ![0] = f],
             UNCHANGED child
      PROVE  PlainInv'
  <2>1. \A c \in Children : c # 0 /\ c \in Procs
    BY ChildIsProc, Constants DEF Children
  <2>2. \A c \in Children : fds'[c] = fds[c]
    BY <1>0, <1>3, <2>1 DEF TypeInv
  <2> QED BY <1>1, <1>3, <2>2 DEF PlainInv
<1>4. CASE Ppopen_pipe \/ Ppopen_close \/ Ppopen_pipeline_link
  <2>1. UNCHANGED child /\ (UNCHANGED fds \/ \E f : fds' = [fds EXCEPT ![0] = f])
    BY <1>4 DEF Ppopen_pipe, Ppopen_close, Ppopen_pipeline_link
  <2> QED BY <1>3, <2>1
<1>5. ASSUME NEW sid \in Sids, Ppclose(sid) PROVE PlainInv'
  BY <1>3, <1>5 DEF Ppclose
<1>6. CASE \/ UNCHANGED vars \/ Ppopen_pipe_fails \/ Ppopen_fork_fails
           \/ \E mode \in Modes \ {"spawn"}, n \in 1..MaxStages : Ppopen_pipeline(mode, n)
           \/ Pspawn
           \/ \E sid \in Sids : Program_read(sid) \/ Program_write(sid)
  <2>1. UNCHANGED <<fds, child>>
    BY <1>6 DEF vars, Ppopen_pipe_fails, Ppopen_fork_fails, Ppopen_pipeline, Pspawn,
                Program_read, Program_write
  <2> QED BY <1>3, <2>1
<1>7. ASSUME NEW pid \in Children, Ppclose_wait(pid) PROVE PlainInv'
  <2>0. UNCHANGED fds
    BY <1>7 DEF Ppclose_wait
  <2>1. /\ \A c \in Children \ {pid} : child'[c] = child[c]
        /\ \/ child'[pid].pc = "reaped"
           \/ child' = child
    BY <1>7, WaitEffect
  <2>2. child'[pid].pc = "reaped" => Plain(pid)'
    BY DEF Plain
  <2> QED BY <1>1, <2>0, <2>1, <2>2 DEF PlainInv
<1>8. ASSUME NEW pc \in {"move_out", "exec"}, At("fork"), Fork(nproc + 1, pc),
             pc = "exec" <=> call.mode = "spawn"
      PROVE  PlainInv'
  <2>1. PICK pid \in Children :
          /\ fds'[pid] = fds[0]
          /\ \A p \in Procs \ {pid} : fds'[p] = fds[p]
          /\ \A c \in Children \ {pid} : child'[c] = child[c]
          /\ child'[pid].pc = pc /\ child'[pid].mode = call.mode
    BY <1>8, ForkEffect
  <2>2. fds[0][STDIN_FILENO] = Tty /\ fds[0][STDOUT_FILENO] = Tty
    <3>1. {STDIN_FILENO, STDOUT_FILENO} \subseteq Fds
      BY Constants DEF Fds, STDIN_FILENO, STDOUT_FILENO
    <3> QED BY <3>1, EndsDiffer DEF WireInv, StdOpen, HeldInv, EndsHeld
  <2>3. Plain(pid)'
    BY <1>8, <2>1, <2>2 DEF Plain
  <2> QED BY <1>1, <2>1, <2>3, ChildIsProc DEF PlainInv
<1>9. CASE Ppopen_fork
  BY <1>8, <1>9 DEF Ppopen_fork
<1>10. CASE Pspawn_fork
  <2>1. CASE UNCHANGED <<fds, child>>
    BY <1>3, <2>1
  <2>2. CASE ~UNCHANGED <<fds, child>>
    BY <1>8, <1>10, <2>2 DEF Pspawn_fork
  <2> QED BY <2>1, <2>2
<1> QED
  BY <1>2, <1>4, <1>5, <1>6, <1>7, <1>9, <1>10 DEF Next, CallStep, ProgramStep, Sids

\* In the beginning there are no children and no items.
LEMMA InitPlain == Init => PlainInv /\ BufferInv
BY DEF Init, Unborn, PlainInv, Plain, BufferInv

-----------------------------------------------------------------------------
(* Which pipe is whose.  A pipe is labelled with the stream and the round  *)
(* of popen_pipeline's loop that it was made in; 0 is no stream.           *)

Tags == [Pipes -> (0..MaxStreams) \X Nat]
HasTag(tag, e, s, i) == e.pipe \in Pipes /\ tag[e.pipe] = <<s, i>>

\* A round makes one pipe, and those to come have made none.
TagsOnce(tag) ==
    /\ \A k, l \in Pipes : tag[k] = tag[l] /\ tag[k][1] # 0 => k = l
    /\ \A k \in Pipes : tag[k][1] # 0 =>
         /\ stream[tag[k][1]].state # "new"
         /\ InPopen /\ tag[k][1] = call.sid =>
              tag[k][2] <= call.i /\ (call.pc = "pipe" => tag[k][2] < call.i)

\* A task has the pipe of its own round and the one before.
ChildTags(tag, c) ==
    Alive(c) =>
        /\ HasTag(tag, OutEnd(c), child[c].sid, Round(c))
        /\ child[c].prev # -1 => HasTag(tag, InEnd(c), child[c].sid, Round(c) - 1)

\* The program has the last pipe of an open stream, and popen_pipeline those of
\* this round and the one before.
OpenTags(tag) ==
    \A s \in Sids : IsOpen(s) =>
        HasTag(tag, fds[0][stream[s].fd], s, stream[s].n)
LoopTags(tag) ==
    /\ HasPipe \/ HasOne => HasTag(tag, fds[0][parent_fd(call)], call.sid, call.i)
    /\ HasPrev => HasTag(tag, fds[0][cur.fd], call.sid, call.i - 1)

TagInv(tag) ==
    /\ tag \in Tags /\ TagsOnce(tag)
    /\ \A c \in Children : ChildTags(tag, c)
    /\ OpenTags(tag) /\ LoopTags(tag)

\* The label of a pipe that somebody has stays, and the children of C keep
\* their ends.
LEMMA TagStep ==
    ASSUME CallInv, WireInv, SameStreamsUsed, NEW tag, TagInv(tag),
           NEW new \in Tags,
           \A k \in Pipes : Holders(Read(k)) \cup Holders(Write(k)) # {} =>
                               new[k] = tag[k],
           TagsOnce(new)', OpenTags(new)', LoopTags(new)',
           NEW C \in SUBSET Children, \A c \in C : SameChild(c),
           \A c \in Children \ C : ChildTags(new, c)'
    PROVE  TagInv(new)'
<1>1. ASSUME NEW c \in Children, NEW f \in Fds, IsEnd(fds[c][f]),
             NEW s, NEW i, HasTag(tag, fds[c][f], s, i)
      PROVE  HasTag(new, fds[c][f], s, i)
  <2>1. c \in Holders(fds[c][f])
    BY ChildIsProc DEF Holders
  <2> QED BY <1>1, <2>1 DEF HasTag, IsEnd
<1>2. ASSUME NEW c \in C, Alive(c)'
      PROVE  /\ HasTag(new, OutEnd(c)', child'[c].sid, Round(c)')
             /\ child'[c].prev # -1 =>
                  HasTag(new, InEnd(c)', child'[c].sid, Round(c)' - 1)
  <2>1. /\ Alive(c) /\ OutEnd(c)' = OutEnd(c)
        /\ child[c].prev # -1 => InEnd(c)' = InEnd(c)
        /\ child'[c].sid = child[c].sid /\ child'[c].prev = child[c].prev
        /\ c \in Children
    BY <1>2 DEF SameChild
  <2>2. Round(c)' = Round(c)
    BY <2>1, SameRounds DEF Alive
  <2>3. /\ HasTag(tag, OutEnd(c), child[c].sid, Round(c))
        /\ child[c].prev # -1 => HasTag(tag, InEnd(c), child[c].sid, Round(c) - 1)
        /\ IsEnd(OutEnd(c))
        /\ child[c].prev # -1 => IsEnd(InEnd(c))
    BY <2>1 DEF TagInv, ChildTags, WireInv, Moving, IsInner, IsOuter, IsEnd
  <2>4. /\ child_fd(child[c]) \in Fds /\ out_fd(child[c]) \in Fds
        /\ in_fd(child[c]) \in Fds
        /\ child[c].prev # -1 => child[c].prev \in Fds
    BY <2>1, Constants DEF CallInv, TypeInv, ChildRec, child_fd, out_fd, in_fd, Fds,
                           STDIN_FILENO, STDOUT_FILENO
  <2>5. HasTag(new, OutEnd(c), child[c].sid, Round(c))
    <3>1. PICK f \in Fds : OutEnd(c) = fds[c][f]
      BY <2>4 DEF OutEnd
    <3> QED BY <1>1, <2>1, <2>3, <3>1
  <2>6. child[c].prev # -1 => HasTag(new, InEnd(c), child[c].sid, Round(c) - 1)
    <3> SUFFICES ASSUME child[c].prev # -1
                 PROVE  HasTag(new, InEnd(c), child[c].sid, Round(c) - 1)
      OBVIOUS
    <3>1. PICK f \in Fds : InEnd(c) = fds[c][f]
      BY <2>4 DEF InEnd
    <3> QED BY <1>1, <2>1, <2>3, <3>1
  <2> QED BY <2>1, <2>2, <2>5, <2>6
<1>3. \A c \in C : ChildTags(new, c)'
  BY <1>2 DEF ChildTags
<1> QED BY <1>3 DEF TagInv

\* No pipe is made.
LEMMA TagsOnceKept ==
    ASSUME CallInv, SameStreamsUsed, NEW tag, TagInv(tag),
           InPopen' =>
              \/ stream[call'.sid].state = "new"
              \/ /\ InPopen /\ call'.sid = call.sid
                 /\ call'.i = call.i \/ call'.i = call.i + 1
                 /\ call'.pc = "pipe" => call.pc = "pipe" \/ call'.i = call.i + 1
    PROVE  TagsOnce(tag)'
<1>1. ASSUME NEW k \in Pipes, tag[k][1] # 0
      PROVE  /\ tag[k][1] \in Sids /\ tag[k][2] \in Nat
             /\ stream[tag[k][1]].state # "new"
             /\ stream'[tag[k][1]].state # "new"
             /\ InPopen /\ tag[k][1] = call.sid =>
                  /\ tag[k][2] <= call.i
                  /\ call.pc = "pipe" => tag[k][2] < call.i
  <2>1. tag[k] \in (0..MaxStreams) \X Nat
    BY DEF TagInv, Tags
  <2>2. tag[k][1] \in Sids /\ tag[k][2] \in Nat
    BY <1>1, <2>1, Constants DEF Sids
  <2> QED BY <1>1, <2>2 DEF TagInv, TagsOnce, SameStreamsUsed
<1>2. InPopen => call.i \in Nat
  BY InLoop
<1>3. ASSUME NEW k \in Pipes, tag[k][1] # 0, InPopen', tag[k][1] = call'.sid
      PROVE  tag[k][2] <= call'.i /\ (call'.pc = "pipe" => tag[k][2] < call'.i)
  <2>1. /\ InPopen /\ call'.sid = call.sid
        /\ call'.i = call.i \/ call'.i = call.i + 1
        /\ call'.pc = "pipe" => call.pc = "pipe" \/ call'.i = call.i + 1
    BY <1>1, <1>3
  <2>2. /\ tag[k][2] <= call.i /\ tag[k][2] \in Nat /\ call.i \in Nat
        /\ call.pc = "pipe" => tag[k][2] < call.i
    BY <1>1, <1>2, <1>3, <2>1
  <2> QED BY <2>1, <2>2
<1> QED BY <1>1, <1>3 DEF TagInv, TagsOnce

\* Neither a call nor the program's descriptors change.
LEMMA TagsKept ==
    ASSUME CallInv, HeldInv, WireInv, StreamsKept, UNCHANGED call, fds'[0] = fds[0],
           \A c \in Children : SameChild(c), NEW tag, TagInv(tag)
    PROVE  TagInv(tag)'
<1>1. SameStreamsUsed
  BY UsedIfKept
<1>2. /\ InPopen' <=> InPopen
      /\ HasPrev' <=> HasPrev
      /\ HasPipe' <=> HasPipe
      /\ HasOne' <=> HasOne
      /\ parent_fd(call)' = parent_fd(call)
  BY DEF InPopen, HasPrev, HasPipe, HasOne, parent_fd
<1>3. HasPrev => cur'.fd = cur.fd
  BY DEF StreamsKept, cur, CallInv, Loop, HasPrev
<1>4. TagsOnce(tag)'
  BY <1>1, <1>2, TagsOnceKept
<1>5. OpenTags(tag)' /\ LoopTags(tag)'
  BY <1>2, <1>3 DEF TagInv, OpenTags, LoopTags, IsOpen, StreamsKept
<1>6. tag \in Tags
  BY DEF TagInv
<1> QED BY <1>1, <1>4, <1>5, <1>6, TagStep

\* A step after which the program is not in the loop of popen_pipeline.
LEMMA TagsIdle ==
    ASSUME CallInv, WireInv, SameStreamsUsed, ~InPopen',
           \A s \in Sids : stream'[s].state = "open" =>
              /\ IsOpen(s) /\ stream'[s].fd = stream[s].fd
              /\ fds'[0][stream[s].fd] = fds[0][stream[s].fd],
           NEW C \in SUBSET Children, \A c \in C : SameChild(c),
           \A c \in Children \ C : ~Alive(c)',
           NEW tag, TagInv(tag)
    PROVE  TagInv(tag)'
<1>1. TagsOnce(tag)'
  BY TagsOnceKept
<1>2. LoopTags(tag)'
  BY DEF LoopTags, HasPipe, HasOne, HasPrev, InPopen
<1>3. OpenTags(tag)'
  BY DEF TagInv, OpenTags, IsOpen, SameStreamsUsed
<1>4. tag \in Tags /\ \A c \in Children \ C : ChildTags(tag, c)'
  BY DEF TagInv, ChildTags
<1> QED BY <1>1, <1>2, <1>3, <1>4, TagStep

\* A call fails, perhaps after pipe has opened two descriptors.
LEMMA ThrowTags ==
    ASSUME CallInv, HeldInv, WireInv, InPopen, Throw, UNCHANGED child,
           \A c \in Children : fds'[c] = fds[c],
           \A f \in Fds : fds[0][f] # None => fds'[0][f] = fds[0][f],
           NEW tag, TagInv(tag)
    PROVE  TagInv(tag)'
<1>1. /\ call.sid \in Sids /\ stream[call.sid].state = "opening"
      /\ call'.pc = "lua" /\ stream'[call.sid].state = "failed"
      /\ \A s \in Sids \ {call.sid} : stream'[s] = stream[s]
      /\ stream'[call.sid].mode = stream[call.sid].mode
      /\ stream'[call.sid].n = stream[call.sid].n
  BY ThrowEffect
<1>2. SameStreamsUsed /\ ~InPopen'
  BY <1>1 DEF SameStreamsUsed, InPopen
<1>3. ASSUME NEW s \in Sids, stream'[s].state = "open"
      PROVE  /\ IsOpen(s) /\ stream'[s].fd = stream[s].fd
             /\ fds'[0][stream[s].fd] = fds[0][stream[s].fd]
  BY <1>1, <1>3, EndsDiffer DEF IsOpen, HeldInv, EndsHeld
<1>4. \A c \in Children : SameChild(c)
  BY UnmovedIsSame
<1> QED BY <1>2, <1>3, <1>4, TagsIdle

\* What pipe does to the pipes, the descriptors and the call.
LEMMA PipeMakes ==
    ASSUME CallInv, Ppopen_pipe, NEW k, k = UnusedPipe
    PROVE  /\ k \in Pipes /\ Holders(Read(k)) = {} /\ Holders(Write(k)) = {}
           /\ buffer' = [buffer EXCEPT ![k] = 0]
           /\ InPopen /\ call.pc = "pipe" /\ UNCHANGED child
           /\ \A p \in Procs \ {0} : fds'[p] = fds[p]
           /\ \A f \in Fds : fds[0][f] # None => fds'[0][f] = fds[0][f]
           /\ \E rd, wr \in FreeFds :
                /\ rd # wr /\ fds'[0][rd] = Read(k) /\ fds'[0][wr] = Write(k)
                /\ \/ /\ call.mode \in {"r", "w"} /\ UNCHANGED stream
                      /\ call'.pc = "fork" /\ call'.sid = call.sid
                      /\ call'.mode = call.mode
                      /\ call'.n = call.n /\ call'.i = call.i
                      /\ call'.rd = rd /\ call'.wr = wr
                   \/ Throw
<1>0. /\ InPopen /\ call.pc = "pipe" /\ UNCHANGED child
      /\ Cardinality(FreeFds) >= 2 /\ call \in CallRec
  BY DEF Ppopen_pipe, At, InPopen, CallInv, TypeInv
<1>1. PICK rd, wr : rd = Lowest(FreeFds) /\ wr = Lowest(FreeFds \ {rd})
  OBVIOUS
<1>2. /\ fds' = [fds EXCEPT ![0] = [@ EXCEPT ![rd] = Read(k), ![wr] = Write(k)]]
      /\ buffer' = [buffer EXCEPT ![k] = 0]
      /\ \/ /\ call.mode \in {"r", "w"} /\ UNCHANGED stream
            /\ call' = [call EXCEPT !.pc = "fork", !.rd = rd, !.wr = wr]
         \/ Throw
  BY <1>1 DEF Ppopen_pipe
<1>3. rd \in FreeFds /\ wr \in FreeFds /\ rd # wr
  BY <1>0, <1>1, TwoFree
<1>4. k \in Pipes /\ Holders(Read(k)) = {} /\ Holders(Write(k)) = {}
  BY <1>3, PipesLeft DEF CallInv
<1>5. /\ rd \in Fds /\ wr \in Fds /\ fds[0][rd] = None /\ fds[0][wr] = None
  BY <1>3 DEF FreeFds
<1>6. IsTable(fds[0]) /\ fds = [p \in Procs |-> fds[p]] /\ 0 \in Procs
  BY ChildIsProc DEF CallInv, TypeInv
<1>7. /\ \A p \in Procs \ {0} : fds'[p] = fds[p]
      /\ fds'[0][rd] = Read(k) /\ fds'[0][wr] = Write(k)
      /\ \A f \in Fds : fds[0][f] # None => fds'[0][f] = fds[0][f]
  <2> DEFINE t == [fds[0] EXCEPT ![rd] = Read(k), ![wr] = Write(k)]
  <2>1. /\ \A f \in Fds : fds[0][f] # None => t[f] = fds[0][f]
        /\ t[rd] = Read(k) /\ t[wr] = Write(k)
    BY <1>3, <1>5, <1>6 DEF IsTable
  <2>2. fds' = [fds EXCEPT ![0] = t]
    BY <1>2
  <2> HIDE DEF t
  <2> QED BY <1>6, <2>1, <2>2
<1>8. ASSUME call' = [call EXCEPT !.pc = "fork", !.rd = rd, !.wr = wr]
      PROVE  /\ call'.pc = "fork"
             /\ call'.sid = call.sid /\ call'.mode = call.mode
             /\ call'.n = call.n /\ call'.i = call.i
             /\ call'.rd = rd /\ call'.wr = wr
  BY <1>0, <1>8 DEF CallRec
<1> QED BY <1>0, <1>2, <1>3, <1>4, <1>7, <1>8

\* The new pipe belongs to this round.
LEMMA PipeTags ==
    ASSUME CallInv, HeldInv, WireInv, Ppopen_pipe, NEW tag, TagInv(tag),
           NEW k, k = UnusedPipe,
           NEW new, new = [tag EXCEPT ![k] = <<call.sid, call.i>>]
    PROVE  TagInv(new)'
<1>1. PICK rd \in FreeFds, wr \in FreeFds :
        /\ k \in Pipes /\ Holders(Read(k)) = {} /\ Holders(Write(k)) = {}
        /\ InPopen /\ call.pc = "pipe" /\ UNCHANGED child
        /\ \A p \in Procs \ {0} : fds'[p] = fds[p]
        /\ \A f \in Fds : fds[0][f] # None => fds'[0][f] = fds[0][f]
        /\ fds'[0][rd] = Read(k) /\ fds'[0][wr] = Write(k)
        /\ \/ /\ call.mode \in {"r", "w"} /\ UNCHANGED stream
              /\ call'.pc = "fork" /\ call'.sid = call.sid /\ call'.i = call.i
              /\ call'.mode = call.mode /\ call'.rd = rd /\ call'.wr = wr
           \/ Throw
  BY PipeMakes
<1>2. /\ call.sid \in Sids /\ stream[call.sid].state = "opening" /\ call.i \in Nat
  BY <1>1, InLoop DEF cur
<1>3. /\ \/ stream' = stream
         \/ /\ call'.pc = "lua" /\ stream'[call.sid].state = "failed"
            /\ \A s \in Sids \ {call.sid} : stream'[s] = stream[s]
            /\ stream'[call.sid].mode = stream[call.sid].mode
            /\ stream'[call.sid].n = stream[call.sid].n
  BY <1>1, ThrowEffect
<1>4. SameStreamsUsed
  BY <1>2, <1>3 DEF SameStreamsUsed
<1>5. \A c \in Children : SameChild(c)
  <2>1. \A c \in Children : fds'[c] = fds[c]
    BY <1>1, ChildIsProc, Constants DEF Children
  <2> QED BY <1>1, <2>1, UnmovedIsSame
<1>6. tag \in Tags /\ call.sid # 0 /\ call.sid \in 0..MaxStreams
  BY <1>2, Constants DEF TagInv, Sids
<1>7. /\ new \in Tags /\ new[k] = <<call.sid, call.i>>
      /\ \A l \in Pipes \ {k} : new[l] = tag[l]
  BY <1>1, <1>2, <1>6 DEF Tags
<1>8. ASSUME NEW l \in Pipes, tag[l] = <<call.sid, call.i>> PROVE FALSE
  <2>1. tag[l][1] = call.sid /\ tag[l][2] = call.i
    BY <1>8
  <2> QED BY <1>1, <1>2, <1>6, <2>1 DEF TagInv, TagsOnce
<1>9. TagsOnce(new)'
  <2>1. ASSUME NEW l \in Pipes, NEW m \in Pipes, new[l] = new[m], new[l][1] # 0
        PROVE  l = m
    BY <1>7, <1>8, <2>1 DEF TagInv, TagsOnce
  <2>2. ASSUME NEW l \in Pipes, new[l][1] # 0
        PROVE  stream'[new[l][1]].state # "new"
    <3>1. CASE l = k
      BY <1>2, <1>3, <1>7, <3>1
    <3>2. CASE l # k
      <4>1. new[l] = tag[l] /\ tag[l] \in (0..MaxStreams) \X Nat
        BY <1>6, <1>7, <3>2 DEF Tags
      <4>2. tag[l][1] \in Sids
        BY <2>2, <4>1, Constants DEF Sids
      <4> QED BY <1>4, <2>2, <4>1, <4>2 DEF TagInv, TagsOnce, SameStreamsUsed
    <3> QED BY <3>1, <3>2
  <2>3. ASSUME NEW l \in Pipes, new[l][1] # 0, InPopen', new[l][1] = call'.sid
        PROVE  new[l][2] <= call'.i /\ (call'.pc = "pipe" => new[l][2] < call'.i)
    <3>1. call'.pc = "fork" /\ call'.sid = call.sid /\ call'.i = call.i
      BY <1>1, <1>3, <2>3, ThrowEffect DEF InPopen
    <3>2. CASE l = k
      BY <1>2, <1>7, <3>1, <3>2
    <3>3. CASE l # k
      <4>1. new[l] = tag[l] /\ tag[l] \in (0..MaxStreams) \X Nat
        BY <1>6, <1>7, <3>3 DEF Tags
      <4> QED BY <1>1, <2>3, <3>1, <4>1 DEF TagInv, TagsOnce
    <3> QED BY <3>2, <3>3
  <2> QED BY <2>1, <2>2, <2>3 DEF TagsOnce
<1>10. ASSUME NEW l \in Pipes, Holders(Read(l)) \cup Holders(Write(l)) # {}
       PROVE  new[l] = tag[l]
  BY <1>1, <1>7, <1>10
<1>11. ASSUME NEW f \in Fds, IsEnd(fds[0][f]), NEW s, NEW i, HasTag(tag, fds[0][f], s, i)
       PROVE  HasTag(new, fds'[0][f], s, i)
  <2>1. 0 \in Holders(fds[0][f])
    BY ChildIsProc DEF Holders
  <2>2. fds'[0][f] = fds[0][f]
    BY <1>1, <1>11 DEF IsEnd, Read, Write, None
  <2> QED BY <1>10, <1>11, <2>1, <2>2 DEF HasTag, IsEnd
<1>12. OpenTags(new)'
  <2> SUFFICES ASSUME NEW s \in Sids, stream'[s].state = "open"
               PROVE  HasTag(new, fds'[0][stream'[s].fd], s, stream'[s].n)
    BY DEF OpenTags, IsOpen
  <2>1. stream'[s] = stream[s] /\ IsOpen(s)
    BY <1>3 DEF IsOpen
  <2>2. stream[s].fd \in Fds /\ IsOuter(fds[0][stream[s].fd], stream[s].mode)
    BY <2>1 DEF HeldInv, EndsHeld
  <2>3. HasTag(tag, fds[0][stream[s].fd], s, stream[s].n)
    BY <2>1 DEF TagInv, OpenTags
  <2> QED BY <1>11, <2>1, <2>2, <2>3 DEF IsOuter, IsEnd
<1>13. LoopTags(new)'
  <2>1. CASE Throw
    BY <1>1, <2>1, ThrowEffect DEF LoopTags, HasPipe, HasOne, HasPrev, InPopen
  <2>2. CASE ~Throw
    <3>1. /\ UNCHANGED stream /\ call'.pc = "fork" /\ call'.sid = call.sid
          /\ call'.i = call.i /\ call'.rd = rd /\ call'.wr = wr
      BY <1>1, <2>2
    <3>2. parent_fd(call)' \in {rd, wr}
      BY <3>1 DEF parent_fd
    <3>3. HasTag(new, fds'[0][parent_fd(call)'], call.sid, call.i)
      BY <1>1, <1>7, <3>2 DEF HasTag, Read, Write
    <3>4. HasPrev' => HasPrev /\ cur' = cur
      BY <1>1, <3>1 DEF HasPrev, InPopen, cur
    <3>5. HasPrev => /\ cur.fd \in Fds /\ IsEnd(fds[0][cur.fd])
                     /\ HasTag(tag, fds[0][cur.fd], call.sid, call.i - 1)
      BY DEF HeldInv, EndsHeld, IsOuter, IsEnd, TagInv, LoopTags
    <3>6. HasPrev' => HasTag(new, fds'[0][cur'.fd], call.sid, call.i - 1)
      BY <1>11, <3>4, <3>5
    <3> QED BY <3>1, <3>3, <3>6 DEF LoopTags
  <2> QED BY <2>1, <2>2
<1> QED BY <1>4, <1>5, <1>7, <1>9, <1>10, <1>12, <1>13, TagStep

\* The child begins with the program's descriptors.
LEMMA ForkTags ==
    ASSUME CallInv, HeldInv, WireInv, WireInv', Ppopen_fork, NEW tag, TagInv(tag)
    PROVE  TagInv(tag)'
<1>0. /\ call.pc = "fork" /\ At("fork") /\ InPopen /\ call.mode \in {"r", "w"}
      /\ HasPipe /\ UNCHANGED stream /\ Fork(nproc + 1, "move_out")
      /\ call' = [call EXCEPT !.pc = "close", !.pid = nproc + 1]
  BY DEF Ppopen_fork, At, InPopen, HasPipe, CallInv, TypeInv, CallRec, AllModes, Loop
<1>1. PICK sid \in Sids : sid = call.sid
  BY <1>0, InLoop
<1>2. PICK pid \in Children :
        /\ child[pid].pc = "unborn" /\ fds'[pid] = fds[0]
        /\ \A p \in Procs \ {pid} : fds'[p] = fds[p]
        /\ \A c \in Children \ {pid} : child'[c] = child[c]
        /\ child'[pid].pc = "move_out" /\ child'[pid].sid = call.sid
        /\ child'[pid].mode = call.mode
        /\ child'[pid].rd = call.rd /\ child'[pid].wr = call.wr
        /\ child'[pid].prev = IF call.i = 1 THEN -1 ELSE cur.fd
        /\ child'[pid].task = Task(call.mode, call.n, call.i)
  BY <1>0, ForkEffect
<1>3. /\ call'.pc = "close" /\ call'.sid = call.sid /\ call'.i = call.i
      /\ call'.mode = call.mode /\ call'.rd = call.rd /\ call'.wr = call.wr
  BY <1>0 DEF CallInv, TypeInv, CallRec
<1>4. /\ fds'[0] = fds[0] /\ \A c \in Children \ {pid} : fds'[c] = fds[c]
  BY <1>2, ChildIsProc, Constants DEF Children
<1>5. /\ InPopen' /\ cur' = cur /\ parent_fd(call)' = parent_fd(call)
      /\ HasPrev' <=> HasPrev
      /\ HasPipe'
  BY <1>0, <1>3 DEF InPopen, HasPrev, HasPipe, cur, parent_fd
<1>6. SameStreamsUsed /\ \A c \in Children \ {pid} : SameChild(c)
  BY <1>0, <1>2, <1>4, UnmovedIsSame DEF SameStreamsUsed
<1>7. /\ cur.mode = call.mode /\ cur.n = call.n /\ call.i \in Nat /\ call.n \in Nat
      /\ cur = stream[sid]
  BY <1>0, <1>1, InLoop DEF CallInv, Loop, cur
<1>8. Round(pid)' = call.i
  <2>1. Round(pid)' = Task(call.mode, call.n, Task(call.mode, call.n, call.i))
    BY <1>0, <1>1, <1>2, <1>7 DEF Round
  <2> QED BY <1>7, <2>1 DEF Task
<1>9. TagsOnce(tag)'
  BY <1>0, <1>3, <1>6, TagsOnceKept
<1>10. HasTag(tag, fds[0][parent_fd(call)], call.sid, call.i)
  BY <1>0 DEF TagInv, LoopTags
<1>11. OpenTags(tag)' /\ LoopTags(tag)'
  BY <1>0, <1>3, <1>4, <1>5, <1>10 DEF TagInv, OpenTags, LoopTags, IsOpen
<1>12. HasTag(tag, OutEnd(pid)', call.sid, call.i)
  <2>1. OutEnd(pid)' = fds[0][child_fd(call)]
    <3>1. child_fd(child[pid])' = child_fd(call)
      BY <1>2 DEF child_fd
    <3> QED BY <1>2, <3>1 DEF OutEnd
  <2>2. OutEnd(pid)'.pipe = fds[0][parent_fd(call)].pipe
    BY <1>0, <2>1, EndsDiffer DEF HeldInv, EndsHeld, parent_fd, child_fd
  <2> QED BY <1>10, <2>2 DEF HasTag
<1>13. child'[pid].prev # -1 => HasTag(tag, InEnd(pid)', call.sid, call.i - 1)
  <2> SUFFICES ASSUME child'[pid].prev # -1
               PROVE  HasTag(tag, InEnd(pid)', call.sid, call.i - 1)
    OBVIOUS
  <2>1. HasPrev /\ child'[pid].prev = cur.fd
    BY <1>0, <1>2 DEF HasPrev
  <2>2. InEnd(pid)' = fds[0][cur.fd]
    BY <1>2, <2>1 DEF InEnd
  <2> QED BY <2>1, <2>2 DEF TagInv, LoopTags
<1>14. ChildTags(tag, pid)'
  BY <1>2, <1>8, <1>12, <1>13 DEF ChildTags
<1>15. tag \in Tags
  BY DEF TagInv
<1> QED BY <1>6, <1>9, <1>11, <1>14, <1>15, TagStep

\* close in the program takes an end away and moves no label.
LEMMA CloseTags ==
    ASSUME CallInv, HeldInv, WireInv, Ppopen_close, NEW tag, TagInv(tag)
    PROVE  TagInv(tag)'
<1>1. /\ call.pc = "close" /\ InPopen /\ UNCHANGED <<stream, child>>
      /\ fds' = [fds EXCEPT ![0] = CloseFd(@, child_fd(call))]
      /\ call' = [call EXCEPT !.pc = "link"]
  BY DEF Ppopen_close, At, InPopen
<1>2. /\ call'.pc = "link" /\ call'.sid = call.sid /\ call'.i = call.i
      /\ call'.mode = call.mode /\ call'.rd = call.rd /\ call'.wr = call.wr
  BY <1>1 DEF CallInv, TypeInv, CallRec
<1>3. /\ InPopen' /\ HasPipe /\ parent_fd(call)' = parent_fd(call) /\ cur' = cur
      /\ HasPrev' <=> HasPrev
  BY <1>1, <1>2 DEF InPopen, HasPipe, HasPrev, parent_fd, CallInv, Loop, cur
<1>4. /\ \A p \in Procs \ {0} : fds'[p] = fds[p]
      /\ \A g \in Fds \ {child_fd(call)} : fds'[0][g] = fds[0][g]
  BY <1>1, CloseEffect DEF CallInv
<1>5. \A c \in Children : fds'[c] = fds[c]
  BY <1>4, ChildIsProc, Constants DEF Children
<1>6. \A s \in Sids : IsOpen(s) => fds'[0][stream[s].fd] = fds[0][stream[s].fd]
  BY <1>3, <1>4, CallFds DEF HeldInv, EndsHeld, HeldOnce
<1>7. HasPrev => fds'[0][cur.fd] = fds[0][cur.fd]
  BY <1>3, <1>4, CallFds DEF HeldInv, EndsHeld, HeldOnce
<1>8. fds'[0][parent_fd(call)] = fds[0][parent_fd(call)]
  BY <1>3, <1>4, CallFds DEF HeldInv, HeldOnce
<1>9. SameStreamsUsed /\ \A c \in Children : SameChild(c)
  BY <1>1, <1>5, UnmovedIsSame DEF SameStreamsUsed
<1>10. TagsOnce(tag)'
  BY <1>1, <1>2, <1>9, TagsOnceKept
<1>11. OpenTags(tag)' /\ LoopTags(tag)'
  BY <1>1, <1>2, <1>3, <1>6, <1>7, <1>8 DEF TagInv, OpenTags, LoopTags, IsOpen
<1>12. tag \in Tags
  BY DEF TagInv
<1> QED BY <1>9, <1>10, <1>11, <1>12, TagStep

\* The pipe of this round is now the one before the next, or the last.
LEMMA LinkTags ==
    ASSUME CallInv, HeldInv, WireInv, Ppopen_pipeline_link, NEW tag, TagInv(tag)
    PROVE  TagInv(tag)'
<1>0. /\ call.pc = "link" /\ InPopen /\ HasOne /\ UNCHANGED child
      /\ fds' = IF call.i = 1 THEN fds ELSE [fds EXCEPT ![0] = CloseFd(@, cur.fd)]
  BY DEF Ppopen_pipeline_link, At, InPopen, HasOne
<1>1. PICK sid \in Sids : sid = call.sid
  BY <1>0, InLoop
<1>2. /\ \A s \in Sids \ {sid} : stream'[s] = stream[s]
      /\ stream'[sid].fd = parent_fd(call)
      /\ stream'[sid].mode = stream[sid].mode /\ stream'[sid].n = stream[sid].n
      /\ stream[sid].n = call.n /\ stream[sid].state = "opening"
      /\ stream'[sid].state # "new"
      /\ call.i = call.n => call'.pc = "lua"
      /\ call.i # call.n => /\ stream'[sid].state = "opening" /\ call'.pc = "pipe"
                            /\ call'.sid = sid /\ call'.i = call.i + 1
      /\ call.i \in Nat /\ call.n \in Nat
  BY <1>0, <1>1, LinkEffect, InLoop DEF cur, CallInv, Loop
<1>3. /\ \A p \in Procs \ {0} : fds'[p] = fds[p]
      /\ \A g \in Fds : (HasPrev => g # cur.fd) => fds'[0][g] = fds[0][g]
  <2>1. CASE call.i = 1
    BY <1>0, <2>1
  <2>2. CASE call.i # 1
    <3>1. PICK f : f = cur.fd
      OBVIOUS
    <3>2. HasPrev /\ fds' = [fds EXCEPT ![0] = CloseFd(@, f)]
      BY <1>0, <2>2, <3>1 DEF HasPrev
    <3>3. /\ \A p \in Procs \ {0} : fds'[p] = fds[p]
          /\ \A g \in Fds \ {f} : fds'[0][g] = fds[0][g]
      BY <3>2, CloseEffect DEF CallInv
    <3> QED BY <3>1, <3>2, <3>3
  <2> QED BY <2>1, <2>2
<1>4. \A c \in Children : fds'[c] = fds[c]
  BY <1>3, ChildIsProc, Constants DEF Children
<1>5. SameStreamsUsed /\ \A c \in Children : SameChild(c)
  BY <1>0, <1>2, <1>4, UnmovedIsSame DEF SameStreamsUsed
<1>6. /\ fds'[0][parent_fd(call)] = fds[0][parent_fd(call)]
      /\ HasTag(tag, fds[0][parent_fd(call)], sid, call.i)
  <2>1. HasTag(tag, fds[0][parent_fd(call)], sid, call.i)
    BY <1>0, <1>1 DEF TagInv, LoopTags
  <2> QED BY <1>0, <1>3, <2>1, CallFds DEF HeldInv, HeldOnce
<1>7. \A s \in Sids : IsOpen(s) => fds'[0][stream[s].fd] = fds[0][stream[s].fd]
  BY <1>3 DEF HeldInv, EndsHeld, HeldOnce
<1>8. InPopen' => /\ call.i # call.n /\ call'.sid = sid /\ call'.i = call.i + 1
                  /\ cur'.fd = parent_fd(call)
                  /\ call'.pc = "pipe"
  BY <1>2 DEF InPopen, cur
<1>9. OpenTags(tag)'
  <2> SUFFICES ASSUME NEW s \in Sids, stream'[s].state = "open"
               PROVE  HasTag(tag, fds'[0][stream'[s].fd], s, stream'[s].n)
    BY DEF OpenTags, IsOpen
  <2>1. CASE s = sid
    BY <1>2, <1>6, <2>1
  <2>2. CASE s # sid
    BY <1>2, <1>7, <2>2 DEF TagInv, OpenTags, IsOpen
  <2> QED BY <2>1, <2>2
<1>10. LoopTags(tag)'
  <2>1. ~HasPipe' /\ ~HasOne'
    BY <1>2 DEF HasPipe, HasOne
  <2>2. HasPrev' => HasTag(tag, fds'[0][cur'.fd], call'.sid, call'.i - 1)
    BY <1>2, <1>6, <1>8 DEF HasPrev
  <2> QED BY <2>1, <2>2 DEF LoopTags
<1>11. TagsOnce(tag)'
  BY <1>0, <1>1, <1>5, <1>8, TagsOnceKept
<1>12. tag \in Tags
  BY DEF TagInv
<1> QED BY <1>5, <1>9, <1>10, <1>11, <1>12, TagStep

\* A stream that is begun has no pipe yet.
LEMMA BeginTags ==
    ASSUME CallInv, HeldInv, WireInv, NEW mode, NEW n, NEW pc \in {"pipe", "fork"},
           pc = "fork" <=> mode = "spawn", NEW sid,
           Begun(sid, mode, n, pc), NEW tag, TagInv(tag)
    PROVE  TagInv(tag)'
<1>1. /\ sid \in Sids /\ stream[sid].state = "new"
      /\ call'.sid = sid /\ call'.i = 1 /\ call'.pc = pc /\ call'.mode = mode
      /\ \A s \in Sids \ {sid} : stream'[s] = stream[s]
      /\ stream'[sid].state = "opening" /\ UNCHANGED <<fds, child>>
  BY DEF Begun
<1>2. SameStreamsUsed /\ \A c \in Children : SameChild(c)
  BY <1>1, UnmovedIsSame DEF SameStreamsUsed
<1>3. TagsOnce(tag)'
  BY <1>1, <1>2, TagsOnceKept
<1>4. LoopTags(tag)'
  BY <1>1 DEF LoopTags, HasPipe, HasOne, HasPrev
<1>5. OpenTags(tag)'
  BY <1>1 DEF TagInv, OpenTags, IsOpen
<1>6. tag \in Tags
  BY DEF TagInv
<1> QED BY <1>2, <1>3, <1>4, <1>5, <1>6, TagStep

\* Only pipe labels a pipe.
LEMMA NextTags ==
    ASSUME CallInv, HeldInv, WireInv, WireInv', [Next]_vars, ~Ppopen_pipe,
           NEW tag, TagInv(tag)
    PROVE  TagInv(tag)'
<1>0. TypeInv
  BY DEF CallInv
<1>1. CASE UNCHANGED vars
  <2>1. StreamsKept /\ UNCHANGED <<call, fds>> /\ \A c \in Children : SameChild(c)
    BY <1>1, UnmovedIsSame DEF vars, StreamsKept
  <2> QED BY <2>1, TagsKept
<1>2. CASE Ppopen_pipe_fails \/ Ppopen_fork_fails
  <2>1. InPopen /\ Throw /\ UNCHANGED <<fds, child>>
    BY <1>2 DEF Ppopen_pipe_fails, Ppopen_fork_fails, InPopen, At
  <2> QED BY <2>1, ThrowTags
<1>3. CASE Ppopen_fork
  BY <1>3, ForkTags
<1>4. CASE Ppopen_close
  BY <1>4, CloseTags
<1>5. CASE Ppopen_pipeline_link
  BY <1>5, LinkTags
<1>6. CASE Pspawn_fork
  <2>0. InPopen /\ At("fork") /\ call.mode = "spawn"
    BY <1>6 DEF Pspawn_fork, InPopen, At
  <2>1. CASE Throw
    <3>1. UNCHANGED <<fds, child>>
      <4>1. CASE call' = [call EXCEPT !.pc = "wait"]
        <5>1. call'.pc = "wait"
          BY <4>1 DEF CallInv, TypeInv, CallRec
        <5> QED BY <2>1, <5>1 DEF Throw, Idle
      <4> QED BY <1>6, <4>1 DEF Pspawn_fork
    <3> QED BY <2>0, <2>1, <3>1, ThrowTags
  <2>2. CASE ~Throw
    <3>1. PICK sid \in Sids : sid = call.sid
      BY <2>0, InLoop
    <3>2. /\ Fork(nproc + 1, "exec") /\ call'.pc = "wait"
          /\ \A s \in Sids \ {sid} : stream'[s] = stream[s]
          /\ stream'[sid].state = "closing"
          /\ stream'[sid].mode = stream[sid].mode /\ stream'[sid].n = stream[sid].n
      BY <1>6, <2>2, <3>1, SpawnForkEffect
    <3>3. PICK pid \in Children :
            /\ \A p \in Procs \ {pid} : fds'[p] = fds[p]
            /\ \A c \in Children \ {pid} : child'[c] = child[c]
            /\ child'[pid].mode = call.mode
      BY <2>0, <3>2, ForkEffect
    <3>4. fds'[0] = fds[0] /\ \A c \in Children \ {pid} : fds'[c] = fds[c]
      BY <3>3, ChildIsProc, Constants DEF Children
    <3>5. SameStreamsUsed /\ ~InPopen'
      BY <3>2 DEF SameStreamsUsed, InPopen
    <3>6. \A c \in Children \ {pid} : SameChild(c)
      BY <3>3, <3>4, UnmovedIsSame
    <3>7. ~Alive(pid)'
      BY <2>0, <3>3 DEF Alive
    <3>8. \A s \in Sids : stream'[s].state = "open" =>
            /\ IsOpen(s) /\ stream'[s].fd = stream[s].fd
            /\ fds'[0][stream[s].fd] = fds[0][stream[s].fd]
      BY <3>2, <3>4 DEF IsOpen
    <3> DEFINE C == Children \ {pid}
    <3>9. C \in SUBSET Children /\ (\A c \in C : SameChild(c))
            /\ \A c \in Children \ C : ~Alive(c)'
      BY <3>6, <3>7
    <3> HIDE DEF C
    <3> QED BY <3>5, <3>8, <3>9, TagsIdle
  <2> QED BY <2>1, <2>2
<1>7. ASSUME NEW pid \in Children, Ppclose_wait(pid) PROVE TagInv(tag)'
  <2>0. At("wait") /\ UNCHANGED fds
    BY <1>7 DEF Ppclose_wait
  <2>1. /\ call.sid \in Sids /\ \A s \in Sids \ {call.sid} : stream'[s] = stream[s]
        /\ stream'[call.sid] = stream[call.sid] \/ stream'[call.sid].state = "closed"
        /\ stream'[call.sid].mode = stream[call.sid].mode
        /\ stream'[call.sid].n = stream[call.sid].n
        /\ call'.pc \in {"wait", "lua"}
    BY <1>7, WaitEffect
  <2>2. stream[call.sid].state = "closing"
    BY <2>0, <2>1 DEF CallInv, States
  <2>3. \A c \in Children : SameChild(c)
    BY <1>7, ReapedIsSame
  <2>4. SameStreamsUsed /\ ~InPopen'
    BY <2>1, <2>2 DEF SameStreamsUsed, InPopen
  <2>5. ASSUME NEW s \in Sids, stream'[s].state = "open"
        PROVE  IsOpen(s) /\ stream'[s].fd = stream[s].fd
    BY <2>1, <2>2, <2>5 DEF IsOpen
  <2> QED BY <2>0, <2>3, <2>4, <2>5, TagsIdle
<1>8. CASE \/ \E mode \in Modes \ {"spawn"}, n \in 1..MaxStages :
                  Ppopen_pipeline(mode, n)
           \/ Pspawn
  <2>1. PICK mode \in AllModes, n \in Nat \ {0}, pc \in {"pipe", "fork"},
             sid \in Sids :
               /\ mode = "spawn" => pc = "fork" /\ n = 1
               /\ mode # "spawn" => pc = "pipe"
               /\ Begun(sid, mode, n, pc)
    BY <1>8, CallsBegin
  <2>2. pc = "fork" <=> mode = "spawn"
    BY <2>1
  <2> QED BY <2>1, <2>2, BeginTags
<1>9. ASSUME NEW sid \in Sids, Ppclose(sid) PROVE TagInv(tag)'
  <2>1. /\ IsOpen(sid) /\ UNCHANGED child
        /\ fds' = [fds EXCEPT ![0] = CloseFd(@, stream[sid].fd)]
    BY <1>9 DEF Ppclose, IsOpen
  <2>2. /\ \A s \in Sids \ {sid} : stream'[s] = stream[s]
        /\ stream'[sid].state = "closing" /\ call'.pc = "wait"
        /\ stream'[sid].mode = stream[sid].mode /\ stream'[sid].n = stream[sid].n
    BY <1>9, PcloseEffect
  <2>3. /\ \A p \in Procs \ {0} : fds'[p] = fds[p]
        /\ \A g \in Fds \ {stream[sid].fd} : fds'[0][g] = fds[0][g]
    BY <1>0, <2>1, CloseEffect
  <2>4. \A c \in Children : SameChild(c)
    BY <2>1, <2>3, ChildIsProc, Constants, UnmovedIsSame DEF Children
  <2>5. SameStreamsUsed /\ ~InPopen'
    BY <2>2 DEF SameStreamsUsed, InPopen
  <2>6. ASSUME NEW s \in Sids, stream'[s].state = "open"
        PROVE  /\ IsOpen(s) /\ stream'[s].fd = stream[s].fd
               /\ fds'[0][stream[s].fd] = fds[0][stream[s].fd]
    <3>1. s # sid /\ IsOpen(s) /\ stream'[s] = stream[s]
      BY <2>2, <2>6 DEF IsOpen
    <3>2. stream[s].fd \in Fds /\ stream[s].fd # stream[sid].fd
      BY <2>1, <3>1 DEF HeldInv, EndsHeld, HeldOnce
    <3> QED BY <2>3, <3>1, <3>2
  <2> QED BY <2>4, <2>5, <2>6, TagsIdle
<1>10. ASSUME NEW sid \in Sids, Program_read(sid) \/ Program_write(sid)
       PROVE  TagInv(tag)'
  <2>1. StreamsKept /\ UNCHANGED <<call, fds, child>>
    BY <1>0, <1>10, ProgramUses
  <2>2. \A c \in Children : SameChild(c)
    BY <2>1, UnmovedIsSame
  <2> QED BY <2>1, <2>2, TagsKept
<1>11. ASSUME NEW c \in Children, ChildStep(c) \/ Stray_exit(c) PROVE TagInv(tag)'
  <2>1. ChildMoves(c)
    BY <1>0, <1>11, ChildStepMoves
  <2>2. /\ fds'[0] = fds[0]
        /\ \A d \in Children \ {c} : fds'[d] = fds[d] /\ child'[d] = child[d]
    BY <2>1, ChildIsProc, Constants DEF ChildMoves, Children
  <2>3. \A d \in Children : SameChild(d)
    BY <1>11, <2>2, ChildKeepsEnds, UnmovedIsSame
  <2> QED BY <2>1, <2>2, <2>3, TagsKept DEF ChildMoves
<1> QED
  BY <1>1, <1>2, <1>3, <1>4, <1>5, <1>6, <1>7, <1>8, <1>9, <1>10, <1>11
  DEF Next, CallStep, ProgramStep, Sids

\* At first no pipe has a label.
LEMMA InitTags ==
    ASSUME Init, NEW tag, tag = [k \in Pipes |-> <<0, 0>>] PROVE TagInv(tag)
<1>1. \A c \in Children : ~Alive(c)
  BY DEF Init, Unborn, Alive
<1>2. tag \in Tags /\ \A k \in Pipes : tag[k][1] = 0
  BY Constants DEF Tags
<1>3. call.pc = "lua" /\ \A s \in Sids : ~IsOpen(s)
  BY DEF Init, Idle, New, Sids, IsOpen
<1> QED BY <1>1, <1>2, <1>3
        DEF TagInv, TagsOnce, ChildTags, OpenTags, LoopTags, HasPipe, HasOne,
            HasPrev, InPopen

-----------------------------------------------------------------------------
(* What has gone through the pipes.  W and R count, for each stream and    *)
(* round, the items put into the pipe of that round and taken from it; the *)
(* pipe 0 is the standard descriptor at the other edge of the pipeline.    *)

Counts == [Sids \X Nat -> Nat]

\* The pipe that the task of round i reads and the one that it writes.
Takes(mode, i) == IF mode = "w" THEN i ELSE i - 1
Gives(mode, i) == IF mode = "w" THEN i - 1 ELSE i
Source(c) == <<child[c].sid, Takes(child[c].mode, Round(c))>>
Sink(c)   == <<child[c].sid, Gives(child[c].mode, Round(c))>>

One(b) == IF b THEN 1 ELSE 0
Ended(c) == child[c].pc \in {"zombie", "reaped"}

\* Task d is nearer to where the items come from than task c.
Before(d, c) ==
    /\ Forked(d) /\ child[d].sid = child[c].sid
    /\ IF child[c].mode = "w" THEN Round(d) > Round(c) ELSE Round(d) < Round(c)

\* The streams whose items are all accounted for: a reader may be closed
\* before its end of file.
Cared(s) ==
    \/ stream[s].mode = "r" /\ stream[s].state \in {"opening", "open"}
    \/ /\ stream[s].mode = "w"
       /\ stream[s].state \in {"opening", "open", "closing", "closed"}

\* The first round that has not forked its task.
Ahead == IF call.pc \in {"close", "link"} THEN call.i + 1 ELSE call.i

InPipes(tag, W, R, s) ==
    \A k \in Pipes : tag[k][1] = s =>
        tag[k][2] # 0 /\ buffer[k] + R[tag[k]] = W[tag[k]]

AtEdges(W, R, s) ==
    IF stream[s].mode = "r"
      THEN /\ R[<<s, 0>>] = stream[s].in
           /\ R[<<s, stream[s].n>>] = stream[s].out
      ELSE /\ W[<<s, stream[s].n>>] = stream[s].in
           /\ W[<<s, 0>>] = stream[s].out

Untouched(W, R, s) ==
    stream[s].state = "opening" =>
        \A j \in Nat \ {0} : j >= Ahead =>
            /\ R[<<s, Takes(stream[s].mode, j)>>] = 0
            /\ W[<<s, Gives(stream[s].mode, j)>>] = 0

\* A task has written all it has read, but for the item in its hand.
Copies(W, R, c) == R[Source(c)] = W[Sink(c)] + One(child[c].hold)

\* A task that has ended has passed on all that went into the stream, and so
\* have the tasks before it.
Finished(W, c) ==
    Ended(c) =>
        /\ ~child[c].hold
        /\ W[Sink(c)] = stream[child[c].sid].in
        /\ \A d \in Children : Before(d, c) => Ended(d)
        /\ child[c].mode = "w" =>
             stream[child[c].sid].state \in {"closing", "closed"}

StreamFlow(tag, W, R, s) ==
    /\ InPipes(tag, W, R, s) /\ AtEdges(W, R, s) /\ Untouched(W, R, s)
    /\ \A c \in Children : Forked(c) /\ child[c].sid = s =>
         Copies(W, R, c) /\ Finished(W, c)

Nothing(W, R, s) ==
    /\ stream[s].in = 0 /\ stream[s].out = 0
    /\ \A i \in Nat : W[<<s, i>>] = 0 /\ R[<<s, i>>] = 0

Flow(tag, W, R) ==
    /\ W \in Counts /\ R \in Counts
    /\ \A s \in Sids : /\ Cared(s) => StreamFlow(tag, W, R, s)
                       /\ stream[s].state = "new" => Nothing(W, R, s)

\* Nothing goes into the stream or comes out of it, and no task of it is
\* forked, ends, reads or writes.
SameStream(s) ==
    /\ stream'[s].mode = stream[s].mode /\ stream'[s].n = stream[s].n
    /\ stream'[s].in = stream[s].in /\ stream'[s].out = stream[s].out
    /\ stream'[s].state = "opening" => stream[s].state = "opening" /\ Ahead' = Ahead
    /\ stream[s].state \in {"closing", "closed"} =>
         stream'[s].state \in {"closing", "closed"}

SameTask(c) ==
    /\ Forked(c) /\ child'[c].sid = child[c].sid /\ child'[c].mode = child[c].mode
    /\ Round(c)' = Round(c) /\ child'[c].hold = child[c].hold
    /\ Ended(c)' <=> Ended(c)

SameTasks(s) ==
    \A c \in Children : Forked(c)' /\ child'[c].sid = s => SameTask(c)

SameCounts(W, R, W2, R2, s) ==
    \A i \in Nat : W2[<<s, i>>] = W[<<s, i>>] /\ R2[<<s, i>>] = R[<<s, i>>]

\* The rounds of a stream and the pipes of its tasks are numbers.
LEMMA TaskRounds ==
    ASSUME CallInv, WireInv, NEW c \in Children, Forked(c)
    PROVE  /\ child[c].sid \in Sids /\ child[c].mode \in {"r", "w"}
           /\ child[c].mode = stream[child[c].sid].mode
           /\ stream[child[c].sid].n \in Nat /\ stream[child[c].sid].state # "new"
           /\ Round(c) \in 1..stream[child[c].sid].n /\ Round(c) \in Nat \ {0}
           /\ Takes(child[c].mode, Round(c)) \in Nat
           /\ Gives(child[c].mode, Round(c)) \in Nat
           /\ child[c].prev = -1 <=> Round(c) = 1
<1>1. Placed(c) /\ child[c].mode # "spawn"
  BY DEF Forked, WireInv, Place
<1>2. stream[child[c].sid].n \in Nat
  BY <1>1 DEF Placed, CallInv, TypeInv, StreamRec
<1>3. Round(c) \in 1..stream[child[c].sid].n
  BY <1>1 DEF Placed
<1>4. Round(c) \in Nat \ {0}
  BY <1>2, <1>3
<1> QED BY <1>1, <1>2, <1>3, <1>4 DEF Placed, Takes, Gives

\* The items of a stream only depend on its own pipes, tasks and counts.
LEMMA StreamFlowKept ==
    ASSUME CallInv, WireInv, NEW s \in Sids, SameStream(s), SameTasks(s), Cared(s),
           NEW tag, NEW W, NEW R, StreamFlow(tag, W, R, s),
           NEW new, NEW W2, NEW R2, SameCounts(W, R, W2, R2, s),
           InPipes(new, W2, R2, s)'
    PROVE  StreamFlow(new, W2, R2, s)'
<1>1. stream[s].n \in Nat
  BY DEF CallInv, TypeInv, StreamRec
<1>2. AtEdges(W2, R2, s)'
  BY <1>1 DEF AtEdges, StreamFlow, SameStream, SameCounts
<1>3. Untouched(W2, R2, s)'
  <2> SUFFICES ASSUME stream'[s].state = "opening", NEW j \in Nat \ {0}, j >= Ahead'
               PROVE  /\ R2[<<s, Takes(stream'[s].mode, j)>>] = 0
                      /\ W2[<<s, Gives(stream'[s].mode, j)>>] = 0
    BY DEF Untouched
  <2>1. /\ R[<<s, Takes(stream[s].mode, j)>>] = 0
        /\ W[<<s, Gives(stream[s].mode, j)>>] = 0
    BY DEF StreamFlow, Untouched, SameStream
  <2>2. Takes(stream[s].mode, j) \in Nat /\ Gives(stream[s].mode, j) \in Nat
    BY DEF Takes, Gives
  <2> QED BY <2>1, <2>2 DEF SameStream, SameCounts
<1>4. ASSUME NEW c \in Children, Forked(c)', child'[c].sid = s
      PROVE  Copies(W2, R2, c)' /\ Finished(W2, c)'
  <2>1. SameTask(c) /\ Forked(c)
    BY <1>4 DEF SameTasks, SameTask
  <2>2. child[c].sid = s /\ Copies(W, R, c) /\ Finished(W, c)
    BY <1>4, <2>1 DEF SameTask, StreamFlow
  <2>3. Source(c)' = Source(c) /\ Sink(c)' = Sink(c)
    BY <2>1 DEF SameTask, Source, Sink
  <2>4. W2[Sink(c)] = W[Sink(c)] /\ R2[Source(c)] = R[Source(c)]
    <3>1. Takes(child[c].mode, Round(c)) \in Nat /\ Gives(child[c].mode, Round(c)) \in Nat
      BY <2>1, TaskRounds
    <3> QED BY <2>2, <3>1 DEF SameCounts, Source, Sink
  <2>5. Copies(W2, R2, c)'
    BY <2>1, <2>2, <2>3, <2>4 DEF Copies, SameTask
  <2>6. ASSUME NEW d \in Children, Before(d, c)', Ended(c)' PROVE Ended(d)'
    <3>1. SameTask(d)
      BY <1>4, <2>6 DEF SameTasks, Before
    <3>2. Before(d, c) /\ Ended(c)
      BY <2>1, <2>6, <3>1 DEF Before, SameTask
    <3> QED BY <2>2, <3>1, <3>2 DEF Finished, SameTask
  <2>7. Ended(c)' =>
          /\ ~child'[c].hold /\ W2[Sink(c)'] = stream'[s].in
          /\ child'[c].mode = "w" => stream'[s].state \in {"closing", "closed"}
    BY <2>1, <2>2, <2>3, <2>4 DEF Finished, SameTask, SameStream
  <2> QED BY <1>4, <2>5, <2>6, <2>7 DEF Finished
<1> QED BY <1>2, <1>3, <1>4 DEF StreamFlow

\* A step that moves no item.
LEMMA FlowQuiet ==
    ASSUME CallInv, WireInv, UNCHANGED buffer,
           \A s \in Sids : Cared(s)' => Cared(s) /\ SameStream(s) /\ SameTasks(s),
           \A s \in Sids : stream'[s].state = "new" => stream'[s] = stream[s],
           NEW tag, NEW W, NEW R, Flow(tag, W, R)
    PROVE  Flow(tag, W, R)'
<1>1. ASSUME NEW s \in Sids, Cared(s)' PROVE StreamFlow(tag, W, R, s)'
  <2>1. Cared(s) /\ SameStream(s) /\ SameTasks(s) /\ StreamFlow(tag, W, R, s)
    BY <1>1 DEF Flow
  <2>2. InPipes(tag, W, R, s)' /\ SameCounts(W, R, W, R, s)
    BY <2>1 DEF StreamFlow, InPipes, SameCounts
  <2> QED BY <2>1, <2>2, StreamFlowKept
<1>2. ASSUME NEW s \in Sids, stream'[s].state = "new" PROVE Nothing(W, R, s)'
  BY <1>2 DEF Flow, Nothing
<1> QED BY <1>1, <1>2 DEF Flow

\* A step that moves no item and forks and ends no task of a pipeline.
LEMMA FlowKept ==
    ASSUME CallInv, WireInv, SameStreamsUsed, UNCHANGED buffer,
           \A c \in Children : SameChild(c),
           \A c \in Children : Forked(c) =>
               /\ child'[c].hold = child[c].hold
               /\ Ended(c)' <=> Ended(c),
           \A s \in Sids : Cared(s)' => Cared(s) /\ SameStream(s),
           \A s \in Sids : stream'[s].state = "new" => stream'[s] = stream[s],
           NEW tag, NEW W, NEW R, Flow(tag, W, R)
    PROVE  Flow(tag, W, R)'
<1>1. \A c \in Children : Forked(c)' => SameTask(c)
  BY TasksKept DEF SameTask, SameChild
<1>2. \A s \in Sids : SameTasks(s)
  BY <1>1 DEF SameTasks
<1> QED BY <1>2, FlowQuiet

\* An error of popen_pipeline.
LEMMA ThrowFlow ==
    ASSUME CallInv, WireInv, InPopen, Throw, UNCHANGED <<child, buffer>>,
           \A c \in Children : fds'[c] = fds[c],
           NEW tag, NEW W, NEW R, Flow(tag, W, R)
    PROVE  Flow(tag, W, R)'
<1>1. PICK sid \in Sids : sid = call.sid
  BY InLoop
<1>2. /\ call'.pc = "lua" /\ \A s \in Sids \ {sid} : stream'[s] = stream[s]
      /\ stream'[sid].state = "failed" /\ stream[sid].state = "opening"
      /\ stream'[sid].mode = stream[sid].mode /\ stream'[sid].n = stream[sid].n
  BY <1>1, ThrowEffect
<1>3. SameStreamsUsed /\ \A c \in Children : SameChild(c)
  BY <1>2, UnmovedIsSame DEF SameStreamsUsed
<1>4. ASSUME NEW s \in Sids, Cared(s)' PROVE Cared(s) /\ SameStream(s)
  <2>1. s # sid /\ stream'[s] = stream[s]
    BY <1>2, <1>4 DEF Cared
  <2>2. stream[s].state # "opening"
    BY <1>1, <2>1 DEF CallInv, States
  <2> QED BY <1>4, <2>1, <2>2 DEF Cared, SameStream
<1>5. \A s \in Sids : stream'[s].state = "new" => stream'[s] = stream[s]
  BY <1>2
<1>6. \A c \in Children : Ended(c)' <=> Ended(c)
  BY DEF Ended
<1> QED BY <1>3, <1>4, <1>5, <1>6, FlowKept

\* close in the program ends no input: the child has the end.
LEMMA CloseFlow ==
    ASSUME CallInv, WireInv, Ppopen_close,
           NEW tag, NEW W, NEW R, Flow(tag, W, R)
    PROVE  Flow(tag, W, R)'
<1>1. /\ call.pc = "close" /\ call'.pc = "link" /\ call'.i = call.i
      /\ UNCHANGED <<buffer, child, stream>>
      /\ fds' = [fds EXCEPT ![0] = CloseFd(@, child_fd(call))]
  BY DEF Ppopen_close, At, CallInv, TypeInv, CallRec
<1>2. \A c \in Children : SameChild(c)
  <2>1. \A p \in Procs \ {0} : fds'[p] = fds[p]
    BY <1>1, CloseEffect DEF CallInv
  <2> QED BY <1>1, <2>1, ChildIsProc, Constants, UnmovedIsSame DEF Children
<1>3. Ahead' = Ahead
  BY <1>1 DEF Ahead
<1>4. \A s \in Sids : Cared(s)' => Cared(s) /\ SameStream(s)
  BY <1>1, <1>3 DEF Cared, SameStream
<1>5. \A c \in Children : Ended(c)' <=> Ended(c)
  BY <1>1 DEF Ended
<1> QED BY <1>1, <1>2, <1>4, <1>5, FlowKept DEF SameStreamsUsed

\* The next round starts with as many items as were put into its pipe.
LEMMA LinkFlow ==
    ASSUME CallInv, HeldInv, WireInv, Ppopen_pipeline_link,
           NEW tag, NEW W, NEW R, Flow(tag, W, R)
    PROVE  Flow(tag, W, R)'
<1>1. /\ call.pc = "link" /\ InPopen /\ UNCHANGED <<buffer, child>>
      /\ fds' = IF call.i = 1 THEN fds ELSE [fds EXCEPT ![0] = CloseFd(@, cur.fd)]
      /\ stream' = [stream EXCEPT ![call.sid].fd = parent_fd(call),
                                ![call.sid].pids = Append(@, call.pid),
                                ![call.sid].state =
                                    IF call.i = call.n THEN "open" ELSE @]
  BY DEF Ppopen_pipeline_link, At, InPopen
<1>2. PICK sid \in Sids : sid = call.sid /\ stream[sid].state = "opening"
  BY <1>1 DEF CallInv, Loop, States
<1>3. /\ \A s \in Sids \ {sid} : stream'[s] = stream[s]
      /\ stream'[sid].mode = call.mode /\ stream'[sid].n = call.n
      /\ call.i = call.n => stream'[sid].state = "open" /\ call'.pc = "lua"
      /\ call.i # call.n =>
           /\ stream'[sid].state = "opening" /\ call'.pc = "pipe"
           /\ call'.i = call.i + 1
      /\ call.mode = stream[sid].mode /\ call.n = stream[sid].n
  BY <1>1, <1>2, LinkEffect DEF CallInv, Loop, cur
<1>4. stream'[sid].in = stream[sid].in /\ stream'[sid].out = stream[sid].out
  BY <1>1, <1>2 DEF CallInv, TypeInv, StreamRec
<1>5. \A c \in Children : SameChild(c)
  <2>1. \A p \in Procs \ {0} : fds'[p] = fds[p]
    BY <1>1, CloseEffect DEF CallInv
  <2> QED BY <1>1, <2>1, ChildIsProc, Constants, UnmovedIsSame DEF Children
<1>6. stream'[sid].state = "opening" => Ahead' = Ahead
  BY <1>1, <1>3 DEF Ahead
<1>7. ASSUME NEW s \in Sids, Cared(s)' PROVE Cared(s) /\ SameStream(s)
  <2>1. CASE s = sid
    BY <1>2, <1>3, <1>4, <1>6, <1>7, <2>1 DEF Cared, SameStream
  <2>2. CASE s # sid
    <3>1. stream'[s] = stream[s]
      BY <1>3, <2>2
    <3>2. stream[s].state # "opening"
      BY <1>2, <2>2 DEF CallInv, States
    <3> QED BY <1>7, <3>1, <3>2 DEF Cared, SameStream
  <2> QED BY <2>1, <2>2
<1>8. \A c \in Children : Ended(c)' <=> Ended(c)
  BY <1>1 DEF Ended
<1>9. SameStreamsUsed /\ \A s \in Sids : stream'[s].state = "new" => stream'[s] = stream[s]
  BY <1>2, <1>3 DEF SameStreamsUsed
<1> QED BY <1>1, <1>5, <1>7, <1>8, <1>9, FlowKept

\* pclose closes what the program wrote to or has read to the end.
LEMMA PcloseFlow ==
    ASSUME CallInv, WireInv, NEW sid \in Sids, Ppclose(sid),
           NEW tag, NEW W, NEW R, Flow(tag, W, R)
    PROVE  Flow(tag, W, R)'
<1>1. /\ call.pc = "lua" /\ stream[sid].state = "open" /\ UNCHANGED <<buffer, child>>
      /\ fds' = [fds EXCEPT ![0] = CloseFd(@, stream[sid].fd)]
      /\ stream' = [stream EXCEPT ![sid].state = "closing"]
  BY DEF Ppclose, At
<1>2. /\ \A s \in Sids \ {sid} : stream'[s] = stream[s]
      /\ stream'[sid].state = "closing" /\ call'.pc = "wait"
      /\ stream'[sid].mode = stream[sid].mode /\ stream'[sid].n = stream[sid].n
      /\ stream'[sid].in = stream[sid].in /\ stream'[sid].out = stream[sid].out
  BY <1>1, PcloseEffect DEF CallInv, TypeInv, StreamRec
<1>3. \A c \in Children : SameChild(c)
  <2>1. \A p \in Procs \ {0} : fds'[p] = fds[p]
    BY <1>1, CloseEffect DEF CallInv
  <2> QED BY <1>1, <2>1, ChildIsProc, Constants, UnmovedIsSame DEF Children
<1>4. \A s \in Sids : stream'[s].state # "opening"
  BY <1>1, <1>2 DEF CallInv, States, InPopen
<1>5. \A s \in Sids : Cared(s)' => Cared(s) /\ SameStream(s)
  BY <1>1, <1>2, <1>4 DEF Cared, SameStream
<1>6. \A c \in Children : Ended(c)' <=> Ended(c)
  BY <1>1 DEF Ended
<1>7. SameStreamsUsed /\ \A s \in Sids : stream'[s].state = "new" => stream'[s] = stream[s]
  BY <1>1, <1>2 DEF SameStreamsUsed
<1> QED BY <1>1, <1>3, <1>5, <1>6, <1>7, FlowKept

\* A process that has been waited for had ended before.
LEMMA WaitFlow ==
    ASSUME CallInv, WireInv, NEW pid \in Children, Ppclose_wait(pid),
           NEW tag, NEW W, NEW R, Flow(tag, W, R)
    PROVE  Flow(tag, W, R)'
<1>1. PICK sid \in Sids : sid = call.sid
  BY WaitEffect
<1>2. /\ UNCHANGED buffer
      /\ \A c \in Children \ {pid} : child'[c] = child[c]
      /\ \/ /\ child[pid].pc = "zombie"
            /\ child'[pid] = [child[pid] EXCEPT !.pc = "reaped"]
         \/ child' = child
      /\ \A s \in Sids \ {sid} : stream'[s] = stream[s]
  BY <1>1, WaitEffect DEF Ppclose_wait
<1>3. /\ call.pc = "wait" /\ stream[sid].state = "closing"
      /\ call'.pc \in {"wait", "lua"}
      /\ stream'[sid].state \in {"closing", "closed"}
      /\ stream'[sid].mode = stream[sid].mode /\ stream'[sid].n = stream[sid].n
  <2>1. call.pc = "wait"
    BY DEF Ppclose_wait, At
  <2>2. stream[sid].state = "closing"
    BY <1>1, <2>1 DEF CallInv, States, At
  <2> QED BY <1>1, <2>1, <2>2, WaitEffect
<1>4. stream'[sid].in = stream[sid].in /\ stream'[sid].out = stream[sid].out
  <2>1. \/ UNCHANGED stream
        \/ \E r : stream' = [stream EXCEPT ![sid].state = "closed", ![sid].ret = r]
    BY <1>1 DEF Ppclose_wait
  <2> QED BY <2>1 DEF CallInv, TypeInv, StreamRec
<1>5. \A c \in Children : child'[c].hold = child[c].hold /\ (Ended(c)' <=> Ended(c))
  BY <1>2 DEF Ended, CallInv, TypeInv, ChildRec
<1>6. \A s \in Sids : stream'[s].state # "opening"
  BY <1>2, <1>3 DEF CallInv, States, InPopen
<1>7. \A s \in Sids : Cared(s)' => Cared(s) /\ SameStream(s)
  BY <1>2, <1>3, <1>4, <1>6 DEF Cared, SameStream
<1>8. SameStreamsUsed /\ \A s \in Sids : stream'[s].state = "new" => stream'[s] = stream[s]
  BY <1>2, <1>3 DEF SameStreamsUsed
<1> QED BY <1>2, <1>5, <1>7, <1>8, ReapedIsSame, FlowKept

\* A new stream has no pipe, no task and no item.
LEMMA BeginFlow ==
    ASSUME CallInv, WireInv, NEW mode, NEW n \in Nat, NEW pc, NEW sid \in Sids,
           Begins(sid, mode, n, pc), Begun(sid, mode, n, pc),
           NEW tag, TagInv(tag), NEW W, NEW R, Flow(tag, W, R)
    PROVE  Flow(tag, W, R)'
<1>1. /\ call.pc = "lua" /\ UNCHANGED <<buffer, child, fds>>
      /\ stream[sid].state = "new"
      /\ stream'[sid].in = stream[sid].in /\ stream'[sid].out = stream[sid].out
      /\ stream'[sid].mode = mode /\ stream'[sid].n = n /\ stream'[sid].state = "opening"
      /\ call'.i = 1 /\ call'.pc = pc
      /\ \A s \in Sids \ {sid} : stream'[s] = stream[s]
  BY DEF Begins, Begun, At, CallInv, TypeInv, StreamRec
<1>2. \A s \in Sids : stream[s].state # "opening"
  BY <1>1 DEF CallInv, States, InPopen
<1>3. \A c \in Children : Forked(c) => child[c].sid # sid
  BY <1>1, TaskRounds
<1>4. SameStreamsUsed /\ \A c \in Children : SameChild(c)
  BY <1>1, UnmovedIsSame DEF SameStreamsUsed
<1>5. \A c \in Children : Forked(c)' => SameTask(c)
  BY <1>1, <1>4, TasksKept DEF SameTask, Ended
<1>6. ASSUME NEW s \in Sids, s # sid, Cared(s)' PROVE StreamFlow(tag, W, R, s)'
  <2>1. Cared(s) /\ SameStream(s)
    BY <1>1, <1>2, <1>6 DEF Cared, SameStream
  <2>2. SameTasks(s)
    BY <1>5 DEF SameTasks
  <2>3. StreamFlow(tag, W, R, s)
    BY <2>1 DEF Flow
  <2>4. InPipes(tag, W, R, s)' /\ SameCounts(W, R, W, R, s)
    BY <1>1, <2>3 DEF StreamFlow, InPipes, SameCounts
  <2> QED BY <2>1, <2>2, <2>3, <2>4, StreamFlowKept
<1>7. ASSUME Cared(sid)' PROVE StreamFlow(tag, W, R, sid)'
  <2>1. Nothing(W, R, sid)
    BY <1>1 DEF Flow
  <2>2. InPipes(tag, W, R, sid)'
    BY <1>1, Constants DEF InPipes, TagInv, TagsOnce, Sids
  <2>3. AtEdges(W, R, sid)'
    BY <1>1, <2>1 DEF AtEdges, Nothing
  <2>4. Untouched(W, R, sid)'
    BY <2>1 DEF Untouched, Nothing, Takes, Gives
  <2>5. \A c \in Children : ~(Forked(c)' /\ child'[c].sid = sid)
    BY <1>1, <1>3 DEF Forked
  <2> QED BY <2>2, <2>3, <2>4, <2>5 DEF StreamFlow
<1>8. \A s \in Sids : stream'[s].state = "new" => Nothing(W, R, s)'
  <2> SUFFICES ASSUME NEW s \in Sids, stream'[s].state = "new" PROVE Nothing(W, R, s)'
    OBVIOUS
  <2>1. stream'[s] = stream[s]
    BY <1>1
  <2> QED BY <2>1 DEF Flow, Nothing
<1>9. \A s \in Sids : Cared(s)' => StreamFlow(tag, W, R, s)'
  BY <1>6, <1>7
<1> QED BY <1>8, <1>9 DEF Flow

\* spawn forks a process, but no task of a pipeline.
LEMMA SpawnForkFlow ==
    ASSUME CallInv, WireInv, Pspawn_fork,
           NEW tag, NEW W, NEW R, Flow(tag, W, R)
    PROVE  Flow(tag, W, R)'
<1>0. InPopen /\ At("fork") /\ call.mode = "spawn" /\ UNCHANGED buffer
  BY DEF Pspawn_fork, InPopen, At
<1>1. CASE Throw
  <2>1. UNCHANGED <<fds, child>>
    <3>1. CASE call' = [call EXCEPT !.pc = "wait"]
      <4>1. call'.pc = "wait"
        BY <3>1 DEF CallInv, TypeInv, CallRec
      <4> QED BY <1>1, <4>1 DEF Throw, Idle
    <3> QED BY <3>1 DEF Pspawn_fork
  <2> QED BY <1>0, <1>1, <2>1, ThrowFlow
<1>2. CASE ~Throw
  <2>1. PICK sid \in Sids : sid = call.sid
    BY <1>0, InLoop
  <2>2. /\ Fork(nproc + 1, "exec")
        /\ \A s \in Sids \ {sid} : stream'[s] = stream[s]
        /\ stream'[sid].mode = stream[sid].mode /\ stream'[sid].n = stream[sid].n
        /\ stream'[sid].state = "closing" /\ stream[sid].mode = "spawn"
    BY <1>0, <1>2, <2>1, SpawnForkEffect DEF CallInv, Loop, cur
  <2>3. PICK pid \in Children :
          /\ \A p \in Procs \ {pid} : fds'[p] = fds[p]
          /\ \A c \in Children \ {pid} : child'[c] = child[c]
          /\ child'[pid].mode = "spawn"
    BY <1>0, <2>2, ForkEffect
  <2>4. SameStreamsUsed /\ \A c \in Children \ {pid} : SameChild(c)
    BY <2>2, <2>3, ChildIsProc, UnmovedIsSame DEF SameStreamsUsed
  <2>5. \A c \in Children \ {pid} : Forked(c)' => SameTask(c)
    BY <2>3, <2>4, TasksKept DEF SameTask, Ended
  <2>6. ~Forked(pid)'
    BY <2>3 DEF Forked
  <2>7. ASSUME NEW s \in Sids, Cared(s)'
        PROVE  Cared(s) /\ SameStream(s) /\ SameTasks(s)
    <3>1. s # sid /\ stream'[s] = stream[s]
      BY <2>2, <2>7 DEF Cared
    <3>2. stream[s].state # "opening"
      BY <2>1, <3>1 DEF CallInv, States
    <3>3. SameTasks(s)
      BY <2>5, <2>6 DEF SameTasks
    <3> QED BY <2>7, <3>1, <3>2, <3>3 DEF Cared, SameStream
  <2>8. \A s \in Sids : stream'[s].state = "new" => stream'[s] = stream[s]
    BY <2>2
  <2> QED BY <1>0, <2>7, <2>8, FlowQuiet
<1> QED BY <1>1, <1>2

\* The pipe of this round holds nothing, as the counts of the round say.
LEMMA PipeFlow ==
    ASSUME CallInv, WireInv, BufferInv, Ppopen_pipe, NEW k, k = UnusedPipe,
           NEW tag, TagInv(tag), NEW W, NEW R, Flow(tag, W, R),
           NEW new, new = [tag EXCEPT ![k] = <<call.sid, call.i>>]
    PROVE  Flow(new, W, R)'
<1>1. /\ k \in Pipes /\ buffer' = [buffer EXCEPT ![k] = 0]
      /\ InPopen /\ call.pc = "pipe" /\ UNCHANGED child
      /\ \A p \in Procs \ {0} : fds'[p] = fds[p]
      /\ \/ /\ call.mode \in {"r", "w"} /\ UNCHANGED stream
            /\ call'.pc = "fork" /\ call'.i = call.i
         \/ Throw
  BY PipeMakes
<1>2. PICK sid \in Sids : sid = call.sid /\ stream[sid].state = "opening"
  BY <1>1, InLoop DEF CallInv, States
<1>3. call.i \in Nat \ {0}
  BY <1>1 DEF CallInv, TypeInv, CallRec, Loop
<1>4. /\ \A s \in Sids \ {sid} : stream'[s] = stream[s]
      /\ \/ UNCHANGED stream /\ Ahead' = Ahead
         \/ stream'[sid].state = "failed"
      /\ stream'[sid].mode = stream[sid].mode /\ stream'[sid].n = stream[sid].n
      /\ stream'[sid].state # "new"
  <2>1. CASE Throw
    BY <1>1, <1>2, <2>1, ThrowEffect
  <2>2. CASE UNCHANGED stream /\ call'.pc = "fork" /\ call'.i = call.i
    BY <1>1, <1>2, <2>2 DEF Ahead
  <2> QED BY <1>1, <2>1, <2>2
<1>5. SameStreamsUsed /\ \A c \in Children : SameChild(c)
  <2>1. \A c \in Children : fds'[c] = fds[c]
    BY <1>1, ChildIsProc, Constants DEF Children
  <2> QED BY <1>1, <1>4, <2>1, UnmovedIsSame DEF SameStreamsUsed
<1>6. \A c \in Children : Forked(c)' => SameTask(c)
  BY <1>1, <1>5, TasksKept DEF SameTask, Ended
<1>7. new[k] = <<sid, call.i>> /\ \A l \in Pipes \ {k} : new[l] = tag[l] /\ buffer'[l] = buffer[l]
  BY <1>1, <1>2 DEF TagInv, Tags, BufferInv
<1>8. buffer'[k] = 0
  BY <1>1 DEF BufferInv
<1>9. ASSUME NEW s \in Sids, Cared(s)' PROVE StreamFlow(new, W, R, s)'
  <2>1. Cared(s) /\ SameStream(s)
    <3>1. CASE s = sid
      BY <1>4, <1>9, <3>1 DEF Cared, SameStream
    <3>2. CASE s # sid
      <4>1. stream[s].state # "opening"
        BY <1>2, <3>2 DEF CallInv, States
      <4> QED BY <1>4, <1>9, <3>2, <4>1 DEF Cared, SameStream
    <3> QED BY <3>1, <3>2
  <2>2. SameTasks(s)
    BY <1>6 DEF SameTasks
  <2>3. StreamFlow(tag, W, R, s) /\ SameCounts(W, R, W, R, s)
    BY <2>1 DEF Flow, SameCounts
  <2>4. s = sid => R[<<sid, call.i>>] = 0 /\ W[<<sid, call.i>>] = 0
    <3> SUFFICES ASSUME s = sid PROVE R[<<sid, call.i>>] = 0 /\ W[<<sid, call.i>>] = 0
      OBVIOUS
    <3>1. Ahead = call.i /\ stream[sid].mode \in {"r", "w"}
      BY <1>1, <2>1 DEF Ahead, Cared
    <3>2. \A j \in Nat \ {0} : j >= call.i =>
            /\ R[<<sid, Takes(stream[sid].mode, j)>>] = 0
            /\ W[<<sid, Gives(stream[sid].mode, j)>>] = 0
      BY <1>2, <2>3, <3>1 DEF StreamFlow, Untouched
    <3>3. /\ R[<<sid, Takes(stream[sid].mode, call.i)>>] = 0
          /\ W[<<sid, Gives(stream[sid].mode, call.i)>>] = 0
          /\ R[<<sid, Takes(stream[sid].mode, call.i + 1)>>] = 0
          /\ W[<<sid, Gives(stream[sid].mode, call.i + 1)>>] = 0
      <4>1. /\ call.i + 1 \in Nat \ {0} /\ call.i + 1 >= call.i
            /\ call.i >= call.i
        BY <1>3
      <4> QED BY <1>3, <3>2, <4>1
    <3>4. (call.i + 1) - 1 = call.i
      BY <1>3
    <3> QED BY <3>1, <3>3, <3>4 DEF Takes, Gives
  <2>5. InPipes(new, W, R, s)'
    <3> SUFFICES ASSUME NEW l \in Pipes, new[l][1] = s
                 PROVE  new[l][2] # 0 /\ buffer'[l] + R[new[l]] = W[new[l]]
      BY DEF InPipes
    <3>1. CASE l = k
      BY <1>3, <1>7, <1>8, <2>4, <3>1
    <3>2. CASE l # k
      BY <1>7, <2>3, <3>2 DEF StreamFlow, InPipes
    <3> QED BY <3>1, <3>2
  <2> QED BY <2>1, <2>2, <2>3, <2>5, StreamFlowKept
<1>10. \A s \in Sids : stream'[s].state = "new" => Nothing(W, R, s)'
  <2> SUFFICES ASSUME NEW s \in Sids, stream'[s].state = "new" PROVE Nothing(W, R, s)'
    OBVIOUS
  <2>1. stream'[s] = stream[s]
    BY <1>4
  <2> QED BY <2>1 DEF Flow, Nothing
<1> QED BY <1>9, <1>10 DEF Flow

\* The new task has neither read nor written, and no task has ended that the
\* items of the stream have still to reach.
LEMMA ForkFlow ==
    ASSUME CallInv, WireInv, WireInv', CallInv', Ppopen_fork,
           NEW tag, NEW W, NEW R, Flow(tag, W, R)
    PROVE  Flow(tag, W, R)'
<1>0. /\ At("fork") /\ call.pc = "fork" /\ InPopen /\ call.mode # "spawn"
      /\ UNCHANGED <<buffer, stream>> /\ Fork(nproc + 1, "move_out")
      /\ call' = [call EXCEPT !.pc = "close", !.pid = nproc + 1]
  BY DEF Ppopen_fork, At, InPopen
<1>1. PICK pid \in Children :
        /\ pid = nproc + 1
        /\ \A p \in Procs \ {pid} : fds'[p] = fds[p]
        /\ \A c \in Children \ {pid} : child'[c] = child[c]
        /\ child'[pid].pc = "move_out" /\ child'[pid].sid = call.sid
        /\ child'[pid].mode = call.mode
        /\ child'[pid].task = Task(call.mode, call.n, call.i)
  BY <1>0, ForkEffect
<1>2. ~child'[pid].hold
  BY <1>0, <1>1 DEF Fork, CallInv, TypeInv
<1>3. PICK sid \in Sids :
        /\ sid = call.sid /\ stream[sid].state = "opening"
        /\ stream[sid].mode = call.mode /\ stream[sid].n = call.n
        /\ call.i \in Nat \ {0} /\ call.n \in Nat
  BY <1>0 DEF CallInv, Loop, States, cur, TypeInv, CallRec
<1>4. Ahead = call.i /\ Ahead' = call.i + 1
  BY <1>0 DEF Ahead, CallInv, TypeInv, CallRec
<1>5. SameStreamsUsed /\ \A c \in Children \ {pid} : SameChild(c)
  BY <1>0, <1>1, ChildIsProc, UnmovedIsSame DEF SameStreamsUsed
<1>6. \A c \in Children \ {pid} : Forked(c)' => SameTask(c)
  BY <1>1, <1>5, TasksKept DEF SameTask, Ended
<1>7. /\ Forked(pid)' /\ child'[pid].sid = sid /\ Round(pid)' = call.i /\ ~Ended(pid)'
  <2>1. Round(pid)' = Task(call.mode, call.n, Task(call.mode, call.n, call.i))
    BY <1>0, <1>1, <1>3 DEF Round
  <2>2. Round(pid)' = call.i
    BY <1>3, <2>1 DEF Task
  <2> QED BY <1>0, <1>1, <1>3, <2>2 DEF Forked, Ended
<1>8. \A c \in Children \ {pid} : Forked(c)' /\ child'[c].sid = sid =>
          Round(c) \in Nat /\ Round(c) < call.i
  <2> SUFFICES ASSUME NEW c \in Children \ {pid}, Forked(c)', child'[c].sid = sid
               PROVE  Round(c) \in Nat /\ Round(c) < call.i
    OBVIOUS
  <2>1. Forked(c) /\ child[c].sid = sid
    BY <1>1 DEF Forked
  <2>2. Round(c) \in Nat
    BY <2>1, TaskRounds
  <2> QED BY <1>0, <1>3, <2>1, <2>2 DEF Forked, WireInv, Place, InRound
<1>9. ASSUME NEW s \in Sids, s # sid, Cared(s)' PROVE StreamFlow(tag, W, R, s)'
  <2>1. Cared(s) /\ SameStream(s)
    <3>1. stream[s].state # "opening"
      BY <1>3, <1>9 DEF CallInv, States
    <3> QED BY <1>0, <1>9, <3>1 DEF Cared, SameStream
  <2>2. SameTasks(s)
    BY <1>6, <1>7, <1>9 DEF SameTasks
  <2>3. StreamFlow(tag, W, R, s)
    BY <2>1 DEF Flow
  <2>4. InPipes(tag, W, R, s)' /\ SameCounts(W, R, W, R, s)
    BY <1>0, <2>3 DEF StreamFlow, InPipes, SameCounts
  <2> QED BY <2>1, <2>2, <2>3, <2>4, StreamFlowKept
<1>10. ASSUME Cared(sid)' PROVE StreamFlow(tag, W, R, sid)'
  <2>0. Cared(sid) /\ stream[sid].mode \in {"r", "w"}
    BY <1>0, <1>10 DEF Cared
  <2>1. StreamFlow(tag, W, R, sid)
    BY <2>0 DEF Flow
  <2>2. InPipes(tag, W, R, sid)' /\ AtEdges(W, R, sid)'
    BY <1>0, <2>1 DEF StreamFlow, InPipes, AtEdges
  <2>3. Untouched(W, R, sid)'
    BY <1>0, <1>3, <1>4, <2>1 DEF StreamFlow, Untouched
  <2>4. R[Source(pid)'] = 0 /\ W[Sink(pid)'] = 0
    <3>1. /\ Source(pid)' = <<sid, Takes(stream[sid].mode, call.i)>>
          /\ Sink(pid)' = <<sid, Gives(stream[sid].mode, call.i)>>
      BY <1>1, <1>3, <1>7 DEF Source, Sink
    <3>2. /\ R[<<sid, Takes(stream[sid].mode, call.i)>>] = 0
          /\ W[<<sid, Gives(stream[sid].mode, call.i)>>] = 0
      BY <1>3, <1>4, <2>1 DEF StreamFlow, Untouched
    <3> QED BY <3>1, <3>2
  <2>5. Copies(W, R, pid)' /\ Finished(W, pid)'
    BY <1>2, <1>7, <2>4 DEF Copies, One, Finished
  <2>6. ASSUME NEW c \in Children, c # pid, Forked(c)', child'[c].sid = sid
        PROVE  Copies(W, R, c)' /\ Finished(W, c)'
    <3>1. SameTask(c) /\ Forked(c) /\ child[c].sid = sid
      BY <1>6, <2>6 DEF SameTask
    <3>2. Copies(W, R, c) /\ Finished(W, c)
      BY <2>1, <3>1 DEF StreamFlow
    <3>3. Source(c)' = Source(c) /\ Sink(c)' = Sink(c)
      BY <3>1 DEF SameTask, Source, Sink
    <3>4. Copies(W, R, c)'
      BY <3>1, <3>2, <3>3 DEF Copies, SameTask
    <3>5. ASSUME Ended(c)
          PROVE  /\ child[c].mode = "r" /\ child'[c].mode = "r"
                 /\ ~child'[c].hold /\ W[Sink(c)'] = stream'[sid].in
      BY <1>0, <1>3, <2>0, <3>1, <3>2, <3>3, <3>5, TaskRounds DEF Finished, SameTask
    <3>6. ASSUME NEW d \in Children, Before(d, c)', Ended(c) PROVE Ended(d)'
      <4>1. d # pid
        <5> SUFFICES ASSUME d = pid PROVE FALSE
          OBVIOUS
        <5>1. call.i < Round(c)
          BY <1>7, <3>1, <3>5, <3>6 DEF Before, SameTask
        <5> QED BY <1>3, <1>8, <2>6, <5>1
      <4>2. SameTask(d)
        BY <1>6, <3>6, <4>1 DEF Before
      <4>3. Before(d, c)
        BY <3>1, <3>6, <4>2 DEF Before, SameTask
      <4> QED BY <3>2, <3>6, <4>2, <4>3 DEF Finished, SameTask
    <3> QED BY <2>6, <3>1, <3>4, <3>5, <3>6 DEF Finished, SameTask
  <2> QED BY <2>2, <2>3, <2>5, <2>6 DEF StreamFlow
<1>11. \A s \in Sids : stream'[s].state = "new" => Nothing(W, R, s)'
  BY <1>0 DEF Flow, Nothing
<1>12. \A s \in Sids : Cared(s)' => StreamFlow(tag, W, R, s)'
  BY <1>9, <1>10
<1> QED BY <1>11, <1>12 DEF Flow

-----------------------------------------------------------------------------
(* Who has the ends of a pipe.                                             *)

Inner(k, mode) == IF mode = "r" THEN Write(k) ELSE Read(k)
Outer(k, mode) == IF mode = "r" THEN Read(k) ELSE Write(k)

\* A task that has not ended has the pipe of its round.
LEMMA TaskHoldsInner ==
    ASSUME CallInv, WireInv, NEW tag, TagInv(tag), NEW s \in Sids, NEW i,
           NEW k \in Pipes, tag[k] = <<s, i>>,
           NEW d \in Children, TaskOf(d, s, i), Alive(d)
    PROVE  Holders(Inner(k, child[d].mode)) # {}
<1>1. HasTag(tag, OutEnd(d), s, i) /\ IsInner(OutEnd(d), child[d].mode)
  BY DEF TagInv, ChildTags, TaskOf, WireInv, Moving
<1>2. OutEnd(d).pipe = k
  <2>1. /\ OutEnd(d).pipe \in Pipes /\ tag[OutEnd(d).pipe] = tag[k]
        /\ tag[OutEnd(d).pipe][1] # 0
    BY <1>1, Constants DEF HasTag, Sids
  <2> QED BY <2>1 DEF TagInv, TagsOnce
<1>3. \E f \in Fds : fds[d][f] = OutEnd(d)
  <2>1. child_fd(child[d]) \in Fds /\ out_fd(child[d]) \in Fds
    BY Constants DEF CallInv, TypeInv, ChildRec, child_fd, out_fd, Fds,
                     STDIN_FILENO, STDOUT_FILENO
  <2> QED BY <2>1 DEF OutEnd
<1>4. OutEnd(d) = Inner(k, child[d].mode)
  BY <1>1, <1>2 DEF IsInner, Inner
<1> QED BY <1>3, <1>4, ChildIsProc DEF Holders

\* It has the pipe of the round before.
LEMMA TaskHoldsOuter ==
    ASSUME CallInv, WireInv, NEW tag, TagInv(tag), NEW s \in Sids, NEW i \in Nat \ {0},
           NEW k \in Pipes, tag[k] = <<s, i>>,
           NEW d \in Children, TaskOf(d, s, i + 1), Alive(d)
    PROVE  Holders(Outer(k, child[d].mode)) # {}
<1>0. child[d].prev # -1
  BY TaskRounds DEF TaskOf
<1>1. HasTag(tag, InEnd(d), s, i) /\ IsOuter(InEnd(d), child[d].mode)
  <2>1. HasTag(tag, InEnd(d), s, i + 1 - 1)
    BY <1>0 DEF TagInv, ChildTags, TaskOf
  <2> QED BY <1>0, <2>1 DEF WireInv, Moving
<1>2. InEnd(d).pipe = k
  <2>1. /\ InEnd(d).pipe \in Pipes /\ tag[InEnd(d).pipe] = tag[k]
        /\ tag[InEnd(d).pipe][1] # 0
    BY <1>1, Constants DEF HasTag, Sids
  <2> QED BY <2>1 DEF TagInv, TagsOnce
<1>3. \E f \in Fds : fds[d][f] = InEnd(d)
  <2>1. child[d].prev \in Fds /\ in_fd(child[d]) \in Fds
    BY <1>0, Constants DEF CallInv, TypeInv, ChildRec, in_fd, Fds,
                     STDIN_FILENO, STDOUT_FILENO
  <2> QED BY <2>1 DEF InEnd
<1>4. InEnd(d) = Outer(k, child[d].mode)
  BY <1>1, <1>2 DEF IsOuter, Outer
<1> QED BY <1>3, <1>4, ChildIsProc DEF Holders

\* The program has the last pipe of an open stream, and the pipes of this
\* round and the one before while popen_pipeline runs.
LEMMA ProgramHoldsOuter ==
    ASSUME CallInv, HeldInv, NEW tag, TagInv(tag), NEW s \in Sids, NEW i,
           NEW k \in Pipes, tag[k] = <<s, i>>,
           \/ IsOpen(s) /\ i = stream[s].n
           \/ InPopen /\ s = call.sid /\ call.i # 1 /\ i = call.i - 1
           \/ call.pc \in {"close", "link"} /\ s = call.sid /\ i = call.i
    PROVE  Holders(Outer(k, stream[s].mode)) # {}
<1>1. \E f \in Fds : HasTag(tag, fds[0][f], s, i) /\ IsOuter(fds[0][f], stream[s].mode)
  <2>1. CASE IsOpen(s) /\ i = stream[s].n
    BY <2>1 DEF TagInv, OpenTags, HeldInv, EndsHeld
  <2>2. CASE InPopen /\ s = call.sid /\ call.i # 1 /\ i = call.i - 1
    <3>1. HasPrev /\ call.mode = stream[s].mode
      BY <2>2 DEF HasPrev, CallInv, Loop, cur
    <3> QED BY <2>2, <3>1 DEF TagInv, LoopTags, HeldInv, EndsHeld
  <2>3. CASE call.pc \in {"close", "link"} /\ s = call.sid /\ i = call.i
    <3>1. /\ InPopen /\ call.mode = stream[s].mode /\ call.mode \in {"r", "w"}
          /\ HasPipe \/ HasOne
      <4>1. InPopen
        BY <2>3 DEF InPopen
      <4>2. call.mode = stream[s].mode /\ call.mode \in {"r", "w"}
        BY <2>3, <4>1 DEF CallInv, Loop, cur, TypeInv, CallRec, AllModes
      <4> QED BY <2>3, <4>1, <4>2 DEF HasPipe, HasOne
    <3>2. IsOuter(fds[0][parent_fd(call)], call.mode)
      <4>1. CASE HasPipe
        BY <3>1, <4>1, EndsDiffer DEF HeldInv, EndsHeld, parent_fd, IsOuter
      <4>2. CASE HasOne
        BY <4>2 DEF HeldInv, EndsHeld
      <4> QED BY <3>1, <4>1, <4>2
    <3> QED BY <2>3, <3>1, <3>2, CallFds DEF TagInv, LoopTags
  <2> QED BY <2>1, <2>2, <2>3
<1>2. PICK f \in Fds : HasTag(tag, fds[0][f], s, i) /\ IsOuter(fds[0][f], stream[s].mode)
  BY <1>1
<1>3. fds[0][f].pipe = k
  <2>1. /\ fds[0][f].pipe \in Pipes /\ tag[fds[0][f].pipe] = tag[k]
        /\ tag[fds[0][f].pipe][1] # 0
    BY <1>2, Constants DEF HasTag, Sids
  <2> QED BY <2>1 DEF TagInv, TagsOnce
<1>4. fds[0][f] = Outer(k, stream[s].mode)
  BY <1>2, <1>3 DEF IsOuter, Outer
<1> QED BY <1>4, ChildIsProc DEF Holders

\* A round up to the last one of which a pipe is left has its task.
LEMMA RoundForked ==
    ASSUME CallInv, PidsInv, NEW s \in Sids, stream[s].mode # "spawn",
           NEW i \in Nat \ {0},
           \/ InPopen /\ s = call.sid /\ i <= call.i - 1
           \/ stream[s].state \in {"open", "closing", "closed"} /\ i <= stream[s].n
    PROVE  \E d \in Children : TaskOf(d, s, i)
<1>1. Len(stream[s].pids) \in Nat /\ i <= Len(stream[s].pids)
  <2>1. stream[s].pids \in Seq(Children)
    BY DEF CallInv, TypeInv, StreamRec
  <2>2. CASE InPopen /\ s = call.sid /\ i <= call.i - 1
    BY <2>1, <2>2 DEF CallInv, Loop, cur
  <2>3. CASE stream[s].state \in {"open", "closing", "closed"} /\ i <= stream[s].n
    BY <2>1, <2>3 DEF CallInv, States, PidsInv
  <2> QED BY <2>1, <2>2, <2>3
<1>2. i \in DOMAIN stream[s].pids /\ stream[s].pids[i] \in Children
  BY <1>1 DEF CallInv, TypeInv, StreamRec
<1>3. TaskOf(stream[s].pids[i], s, i)
  BY <1>2 DEF PidsInv
<1> QED BY <1>2, <1>3

\* A task that has been forked has its ends or has ended.
LEMMA AliveOrEnded ==
    ASSUME CallInv, PlainInv, NEW d \in Children, Forked(d), ~Alive(d)
    PROVE  Ended(d)
BY DEF CallInv, TypeInv, ChildRec, Forked, Alive, Ended, PlainInv, Plain

\* If nobody has the other end of a task's pipe, the task of the next round
\* has ended, or the program has closed its end.
LEMMA OuterSide ==
    ASSUME CallInv, HeldInv, WireInv, PidsInv, PlainInv, NEW tag, TagInv(tag),
           NEW c \in Children, Alive(c), Forked(c),
           NEW s \in Sids, s = child[c].sid, stream[s].state # "failed",
           NEW i \in Nat \ {0}, i = Round(c),
           Holders(Outer(OutEnd(c).pipe, child[c].mode)) = {}
    PROVE  \/ \E d \in Children : TaskOf(d, s, i + 1) /\ Ended(d)
           \/ i = stream[s].n /\ stream[s].state \in {"closing", "closed"}
<1>1. PICK k \in Pipes : k = OutEnd(c).pipe /\ tag[k] = <<s, i>>
  BY DEF TagInv, ChildTags, HasTag
<1>2. /\ stream[s].mode = child[c].mode /\ child[c].mode \in {"r", "w"}
      /\ stream[s].n \in Nat /\ i <= stream[s].n /\ stream[s].state # "new"
  BY TaskRounds
<1>3. stream[s].state \in {"opening", "open", "closing", "closed"}
  BY <1>2 DEF CallInv, TypeInv, StreamRec
<1>4. ASSUME NEW d \in Children, TaskOf(d, s, i + 1) PROVE Ended(d)
  <2>1. Forked(d) /\ child[d].mode = stream[s].mode
    BY <1>4, TaskRounds DEF TaskOf
  <2>2. ~Alive(d)
    BY <1>1, <1>2, <1>4, <2>1, TaskHoldsOuter
  <2> QED BY <2>1, <2>2, AliveOrEnded
<1>5. ~\/ IsOpen(s) /\ i = stream[s].n
       \/ InPopen /\ s = call.sid /\ call.i # 1 /\ i = call.i - 1
       \/ call.pc \in {"close", "link"} /\ s = call.sid /\ i = call.i
  BY <1>1, <1>2, ProgramHoldsOuter
<1>6. i + 1 \in Nat \ {0}
  OBVIOUS
<1>7. CASE stream[s].state = "opening"
  <2>1. InPopen /\ s = call.sid /\ call.i \in Nat
    BY <1>7, InLoop DEF CallInv, States
  <2>2. i <= call.i /\ (call.pc \in {"pipe", "fork"} => i < call.i)
    BY <2>1 DEF WireInv, Place, InRound, Forked
  <2>3. i # call.i
    BY <1>5, <2>1, <2>2 DEF InPopen
  <2>4. i # call.i - 1
    BY <1>5, <2>1
  <2>5. i + 1 <= call.i - 1
    BY <2>1, <2>2, <2>3, <2>4
  <2>6. \E d \in Children : TaskOf(d, s, i + 1)
    BY <1>2, <1>6, <2>1, <2>5, RoundForked
  <2> QED BY <1>4, <2>6
<1>8. CASE stream[s].state \in {"open", "closing", "closed"}
  <2>1. CASE i = stream[s].n
    BY <1>5, <1>8, <2>1 DEF IsOpen
  <2>2. CASE i # stream[s].n
    <3>1. i + 1 <= stream[s].n
      BY <1>2, <2>2
    <3>2. \E d \in Children : TaskOf(d, s, i + 1)
      BY <1>2, <1>6, <1>8, <3>1, RoundForked
    <3> QED BY <1>4, <3>2
  <2> QED BY <2>1, <2>2
<1> QED BY <1>3, <1>7, <1>8

\* The same of the pipe of the round before.
LEMMA InnerSide ==
    ASSUME CallInv, WireInv, PidsInv, PlainInv, NEW tag, TagInv(tag),
           NEW s \in Sids, stream[s].mode \in {"r", "w"}, NEW i \in Nat \ {0},
           NEW k \in Pipes, tag[k] = <<s, i>>,
           \/ InPopen /\ s = call.sid /\ i <= call.i - 1
           \/ stream[s].state \in {"open", "closing", "closed"} /\ i <= stream[s].n,
           Holders(Inner(k, stream[s].mode)) = {}
    PROVE  \E d \in Children : TaskOf(d, s, i) /\ Ended(d)
<1>1. PICK d \in Children : TaskOf(d, s, i)
  BY RoundForked
<1>2. Forked(d) /\ child[d].mode = stream[s].mode
  BY <1>1, TaskRounds DEF TaskOf
<1>3. ~Alive(d)
  BY <1>1, <1>2, TaskHoldsInner
<1> QED BY <1>1, <1>2, <1>3, AliveOrEnded

\* The pipe of the round before a task's own.
LEMMA RoundBefore ==
    ASSUME CallInv, WireInv, NEW tag, TagInv(tag),
           NEW c \in Children, Alive(c), Forked(c), Round(c) # 1,
           NEW s \in Sids, s = child[c].sid, stream[s].state # "failed"
    PROVE  /\ Round(c) - 1 \in Nat \ {0}
           /\ InEnd(c).pipe \in Pipes /\ tag[InEnd(c).pipe] = <<s, Round(c) - 1>>
           /\ \/ InPopen /\ s = call.sid /\ Round(c) - 1 <= call.i - 1
              \/ /\ stream[s].state \in {"open", "closing", "closed"}
                 /\ Round(c) - 1 <= stream[s].n
<1>1. /\ Round(c) \in Nat \ {0} /\ stream[s].n \in Nat /\ Round(c) <= stream[s].n
      /\ child[c].prev # -1 /\ stream[s].state # "new"
  BY TaskRounds
<1>2. InEnd(c).pipe \in Pipes /\ tag[InEnd(c).pipe] = <<s, Round(c) - 1>>
  BY <1>1 DEF TagInv, ChildTags, HasTag
<1>3. \/ InPopen /\ s = call.sid /\ Round(c) - 1 <= call.i - 1
      \/ /\ stream[s].state \in {"open", "closing", "closed"}
         /\ Round(c) - 1 <= stream[s].n
  <2>1. CASE stream[s].state = "opening"
    <3>1. InPopen /\ s = call.sid /\ call.i \in Nat
      BY <2>1, InLoop DEF CallInv, States
    <3>2. Round(c) <= call.i
      BY <3>1 DEF WireInv, Place, InRound, Forked
    <3> QED BY <1>1, <3>1, <3>2
  <2>2. CASE stream[s].state # "opening"
    <3>1. stream[s].state \in {"open", "closing", "closed"}
      BY <1>1, <2>2 DEF CallInv, TypeInv, StreamRec
    <3> QED BY <1>1, <3>1
  <2> QED BY <2>1, <2>2
<1> QED BY <1>1, <1>2, <1>3

\* All that the task before has put into an empty pipe has been taken from it.
LEMMA Drained ==
    ASSUME CallInv, WireInv, PidsInv, NEW tag, NEW W, NEW R,
           NEW s \in Sids, StreamFlow(tag, W, R, s),
           W \in Counts, R \in Counts,
           NEW c \in Children, Forked(c), child[c].sid = s, ~child[c].hold,
           NEW k \in Pipes, tag[k] = Source(c), buffer[k] = 0,
           NEW d \in Children, Forked(d), Ended(d), child[d].sid = s,
           Sink(d) = Source(c),
           \A x \in Children : Before(x, c) => x = d \/ Before(x, d)
    PROVE  /\ W[Sink(c)] = stream[s].in
           /\ \A x \in Children : Before(x, c) => Ended(x)
           /\ child[c].mode = "w" => stream[s].state \in {"closing", "closed"}
<1>1. /\ W[Sink(d)] = stream[s].in
      /\ \A x \in Children : Before(x, d) => Ended(x)
      /\ child[d].mode = "w" => stream[s].state \in {"closing", "closed"}
  BY DEF StreamFlow, Finished
<1>2. child[d].mode = child[c].mode
  BY TaskRounds
<1>3. Source(c) \in Sids \X Nat /\ Sink(c) \in Sids \X Nat /\ Source(c)[1] = s
  BY TaskRounds DEF Source, Sink
<1>4. W[Sink(c)] \in Nat /\ R[Source(c)] \in Nat
  BY <1>3 DEF Counts
<1>5. R[Source(c)] = W[Source(c)]
  <2>1. buffer[k] + R[tag[k]] = W[tag[k]]
    BY <1>3 DEF StreamFlow, InPipes
  <2> QED BY <1>4, <2>1
<1>6. R[Source(c)] = W[Sink(c)]
  <2>1. Copies(W, R, c)
    BY DEF StreamFlow
  <2> QED BY <1>4, <2>1 DEF Copies, One
<1> QED BY <1>1, <1>2, <1>5, <1>6

\* A task sees end of file only when nothing can come any more.
LEMMA EofFinished ==
    ASSUME CallInv, HeldInv, WireInv, PidsInv, PlainInv, NEW tag, TagInv(tag),
           NEW W, NEW R, Flow(tag, W, R),
           NEW c \in Children, Forked(c), child[c].pc = "run", ~child[c].hold,
           NEW s \in Sids, s = child[c].sid, Cared(s),
           NEW e, e = fds[c][STDIN_FILENO],
           e = Tty \/ EndOfFile(e) \/ e.end \in {"none", "write"}
    PROVE  /\ W[Sink(c)] = stream[s].in
           /\ \A x \in Children : Before(x, c) => Ended(x)
           /\ child[c].mode = "w" => stream[s].state \in {"closing", "closed"}
<1>1. StreamFlow(tag, W, R, s) /\ W \in Counts /\ R \in Counts
  BY DEF Flow
<1>2. Alive(c) /\ child[c].mode # "spawn"
  BY RunningEnds DEF Forked
<1>3. /\ stream[s].mode = child[c].mode /\ child[c].mode \in {"r", "w"}
      /\ Round(c) \in Nat \ {0} /\ stream[s].n \in Nat /\ Round(c) <= stream[s].n
  BY TaskRounds
<1>4. stream[s].state # "failed"
  BY DEF Cared
<1>5. \A x \in Children : Before(x, c) => Round(x) \in 1..stream[s].n
  BY TaskRounds DEF Before
<1>6. Source(c) \in Sids \X Nat /\ Sink(c) \in Sids \X Nat
  BY TaskRounds DEF Source, Sink
<1>7. W[Sink(c)] \in Nat /\ R[Source(c)] \in Nat
  BY <1>1, <1>6 DEF Counts
<1>8. \A x, d \in Children :
        Before(x, c) /\ Forked(d) /\ child[d].sid = s /\ Round(x) = Round(d) => x = d
  BY DEF PidsInv, Before
<1>9. CASE child[c].mode = "r" /\ Round(c) = 1
  <2>1. Source(c) = <<s, 0>>
    BY <1>9 DEF Source, Takes
  <2>2. R[Source(c)] = stream[s].in
    BY <1>1, <1>3, <1>9, <2>1 DEF StreamFlow, AtEdges
  <2>3. Copies(W, R, c)
    BY <1>1 DEF StreamFlow
  <2>4. W[Sink(c)] = stream[s].in
    BY <1>7, <2>2, <2>3 DEF Copies, One
  <2>5. \A x \in Children : ~Before(x, c)
    BY <1>3, <1>5, <1>9 DEF Before
  <2> QED BY <1>9, <2>4, <2>5
<1>10. CASE child[c].mode = "r" /\ Round(c) # 1
  <2>1. PICK k \in Pipes, i \in Nat \ {0} :
          /\ k = InEnd(c).pipe /\ i = Round(c) - 1 /\ tag[k] = <<s, i>>
          /\ \/ InPopen /\ s = call.sid /\ i <= call.i - 1
             \/ stream[s].state \in {"open", "closing", "closed"} /\ i <= stream[s].n
    BY <1>2, <1>4, <1>10, RoundBefore
  <2>2. e = Read(k)
    BY <1>2, <1>10, <2>1, RunningEnds
  <2>3. buffer[k] = 0 /\ Holders(Write(k)) = {}
    BY <2>2, EndsDiffer DEF EndOfFile
  <2>4. Holders(Inner(k, stream[s].mode)) = {}
    BY <1>3, <1>10, <2>3 DEF Inner
  <2>5. PICK d \in Children : TaskOf(d, s, i) /\ Ended(d)
    BY <1>3, <2>1, <2>4, InnerSide
  <2>6. Forked(d) /\ child[d].sid = s /\ Round(d) = i
    BY <2>5 DEF TaskOf
  <2>7. child[d].mode = "r"
    BY <1>3, <1>10, <2>6, TaskRounds
  <2>8. tag[k] = Source(c) /\ Sink(d) = Source(c)
    BY <1>10, <2>1, <2>6, <2>7 DEF Source, Sink, Takes, Gives
  <2>9. ASSUME NEW x \in Children, Before(x, c) PROVE x = d \/ Before(x, d)
    <3>1. Round(x) \in Int /\ Round(x) < Round(c)
      BY <1>5, <1>10, <2>9 DEF Before
    <3>2. CASE Round(x) = i
      BY <1>8, <2>6, <2>9, <3>2
    <3>3. CASE Round(x) # i
      <4>1. Round(x) < i
        BY <1>3, <2>1, <3>1, <3>3
      <4> QED BY <2>6, <2>7, <2>9, <4>1 DEF Before
    <3> QED BY <3>2, <3>3
  <2> QED BY <1>1, <2>3, <2>5, <2>6, <2>8, <2>9, Drained
<1>11. CASE child[c].mode = "w"
  <2>1. PICK k \in Pipes : k = OutEnd(c).pipe /\ tag[k] = <<s, Round(c)>>
    BY <1>2 DEF TagInv, ChildTags, HasTag
  <2>2. e = Read(k)
    BY <1>2, <1>11, <2>1, RunningEnds
  <2>3. buffer[k] = 0 /\ Holders(Write(k)) = {}
    BY <2>2, EndsDiffer DEF EndOfFile
  <2>4. Holders(Outer(OutEnd(c).pipe, child[c].mode)) = {}
    BY <1>11, <2>1, <2>3 DEF Outer
  <2>5. PICK i \in Nat \ {0} : i = Round(c)
    BY <1>3
  <2>6. \/ \E d \in Children : TaskOf(d, s, i + 1) /\ Ended(d)
        \/ i = stream[s].n /\ stream[s].state \in {"closing", "closed"}
    BY <1>2, <1>4, <2>4, <2>5, OuterSide
  <2>7. Source(c) = <<s, i>> /\ tag[k] = Source(c)
    BY <1>11, <2>1, <2>5 DEF Source, Takes
  <2>8. CASE \E d \in Children : TaskOf(d, s, i + 1) /\ Ended(d)
    <3>1. PICK d \in Children : TaskOf(d, s, i + 1) /\ Ended(d)
      BY <2>8
    <3>2. Forked(d) /\ child[d].sid = s /\ Round(d) = i + 1
      BY <3>1 DEF TaskOf
    <3>3. child[d].mode = "w"
      BY <1>3, <1>11, <3>2, TaskRounds
    <3>4. Sink(d) = Source(c)
      BY <2>7, <3>2, <3>3 DEF Sink, Gives
    <3>5. ASSUME NEW x \in Children, Before(x, c) PROVE x = d \/ Before(x, d)
      <4>1. Round(x) \in Int /\ Round(x) > i
        BY <1>5, <1>11, <2>5, <3>5 DEF Before
      <4>2. CASE Round(x) = i + 1
        BY <1>8, <3>2, <3>5, <4>2
      <4>3. CASE Round(x) # i + 1
        <5>1. Round(x) > i + 1
          BY <4>1, <4>3
        <5> QED BY <3>2, <3>3, <3>5, <5>1 DEF Before
      <4> QED BY <4>2, <4>3
    <3> QED BY <1>1, <2>3, <2>7, <3>1, <3>2, <3>4, <3>5, Drained
  <2>9. CASE i = stream[s].n /\ stream[s].state \in {"closing", "closed"}
    <3>1. buffer[k] + R[tag[k]] = W[tag[k]]
      BY <1>1, <2>1 DEF StreamFlow, InPipes
    <3>2. W[<<s, i>>] = stream[s].in
      BY <1>1, <1>3, <1>11, <2>9 DEF StreamFlow, AtEdges
    <3>3. Copies(W, R, c)
      BY <1>1 DEF StreamFlow
    <3>4. W[Sink(c)] = stream[s].in
      BY <1>7, <2>3, <2>7, <3>1, <3>2, <3>3 DEF Copies, One
    <3>5. \A x \in Children : ~Before(x, c)
      BY <1>5, <1>11, <2>5, <2>9 DEF Before
    <3> QED BY <2>9, <3>4, <3>5
  <2> QED BY <2>6, <2>8, <2>9
<1> QED BY <1>3, <1>9, <1>10, <1>11

\* A task never writes to a pipe that nobody reads.
LEMMA SigpipeNever ==
    ASSUME CallInv, HeldInv, WireInv, PidsInv, PlainInv, NEW tag, TagInv(tag),
           NEW W, NEW R, Flow(tag, W, R),
           NEW c \in Children, Forked(c), child[c].pc = "run",
           NEW s \in Sids, s = child[c].sid, Cared(s),
           NEW e, e = fds[c][STDOUT_FILENO]
    PROVE  ~(e.end = "write" /\ Holders(Read(e.pipe)) = {}) /\ e.end \notin {"none", "read"}
<1>1. StreamFlow(tag, W, R, s)
  BY DEF Flow
<1>2. Alive(c) /\ child[c].mode # "spawn"
  BY RunningEnds DEF Forked
<1>3. /\ stream[s].mode = child[c].mode /\ child[c].mode \in {"r", "w"}
      /\ Round(c) \in Nat \ {0} /\ stream[s].n \in Nat /\ Round(c) <= stream[s].n
  BY TaskRounds
<1>4. stream[s].state # "failed" /\ ~Ended(c)
  BY DEF Cared, Ended
<1>5. \A d \in Children : Forked(d) /\ child[d].sid = s /\ Ended(d) => ~Before(c, d)
  BY <1>1, <1>4 DEF StreamFlow, Finished
<1>6. \/ e = Write(e.pipe)
      \/ e = Tty /\ child[c].mode = "w" /\ Round(c) = 1
  BY <1>2, <1>3, RunningEnds
<1>7. e.end \notin {"none", "read"}
  BY <1>6, EndsDiffer DEF Tty
<1>8. ASSUME e = Write(e.pipe), Holders(Read(e.pipe)) = {} PROVE FALSE
  <2>1. CASE child[c].mode = "r"
    <3>1. OutEnd(c) = e
      BY <1>2, <2>1, RunningEnds
    <3>2. Holders(Outer(OutEnd(c).pipe, child[c].mode)) = {}
      BY <1>8, <2>1, <3>1 DEF Outer
    <3>3. stream[s].state \notin {"closing", "closed"}
      BY <1>3, <2>1 DEF Cared
    <3>4. PICK d \in Children : TaskOf(d, s, Round(c) + 1) /\ Ended(d)
      BY <1>2, <1>3, <1>4, <3>2, <3>3, OuterSide
    <3>5. Forked(d) /\ child[d].sid = s /\ Round(d) = Round(c) + 1
      BY <3>4 DEF TaskOf
    <3>6. child[d].mode = "r"
      BY <1>3, <2>1, <3>5, TaskRounds
    <3>7. Before(c, d)
      BY <1>3, <3>5, <3>6 DEF Before
    <3> QED BY <1>5, <3>4, <3>5, <3>7
  <2>2. CASE child[c].mode = "w"
    <3>1. Round(c) # 1 /\ InEnd(c) = e
      BY <1>2, <1>8, <2>2, RunningEnds, EndsDiffer
    <3>2. PICK k \in Pipes, i \in Nat \ {0} :
            /\ k = InEnd(c).pipe /\ i = Round(c) - 1 /\ tag[k] = <<s, i>>
            /\ \/ InPopen /\ s = call.sid /\ i <= call.i - 1
               \/ stream[s].state \in {"open", "closing", "closed"} /\ i <= stream[s].n
      BY <1>2, <1>4, <3>1, RoundBefore
    <3>3. Holders(Inner(k, stream[s].mode)) = {}
      BY <1>3, <1>8, <2>2, <3>1, <3>2 DEF Inner
    <3>4. PICK d \in Children : TaskOf(d, s, i) /\ Ended(d)
      BY <1>3, <3>2, <3>3, InnerSide
    <3>5. Forked(d) /\ child[d].sid = s /\ Round(d) = i
      BY <3>4 DEF TaskOf
    <3>6. child[d].mode = "w"
      BY <1>3, <2>2, <3>5, TaskRounds
    <3>7. Before(c, d)
      BY <1>3, <3>2, <3>5, <3>6 DEF Before
    <3> QED BY <1>5, <3>4, <3>5, <3>7
  <2> QED BY <1>3, <2>1, <2>2
<1>9. e.end = "write" => e = Write(e.pipe)
  BY <1>6 DEF Tty
<1> QED BY <1>7, <1>8, <1>9

\* One item more through the pipe x.
LEMMA OneMore ==
    ASSUME NEW N \in Counts, NEW x \in Sids \X Nat, NEW M, M = [N EXCEPT ![x] = @ + 1]
    PROVE  /\ M \in Counts /\ M[x] = N[x] + 1 /\ N[x] \in Nat
           /\ \A y \in Sids \X Nat : y # x => M[y] = N[y]
BY DEF Counts

\* The streams other than the one that a step is about.
LEMMA FlowElsewhere ==
    ASSUME CallInv, WireInv, SameStreamsUsed, UNCHANGED call,
           \A c \in Children : SameChild(c),
           NEW s0 \in Sids, stream[s0].state # "new",
           \A s \in Sids \ {s0} : stream'[s] = stream[s],
           \A c \in Children : Forked(c) /\ child[c].sid # s0 =>
               child'[c].hold = child[c].hold /\ (Ended(c)' <=> Ended(c)),
           NEW tag \in Tags, NEW W, NEW R, Flow(tag, W, R),
           \A k \in Pipes : tag[k][1] # s0 => buffer'[k] = buffer[k],
           NEW W2 \in Counts, NEW R2 \in Counts,
           \A s \in Sids \ {s0} : SameCounts(W, R, W2, R2, s),
           Cared(s0)' => StreamFlow(tag, W2, R2, s0)'
    PROVE  Flow(tag, W2, R2)'
<1>1. \A c \in Children : Forked(c)' /\ child'[c].sid # s0 => SameTask(c)
  BY TasksKept DEF SameTask, SameChild
<1>2. ASSUME NEW s \in Sids, s # s0, Cared(s)' PROVE StreamFlow(tag, W2, R2, s)'
  <2>1. Cared(s) /\ SameStream(s) /\ SameCounts(W, R, W2, R2, s)
    BY <1>2 DEF Cared, SameStream, Ahead
  <2>2. SameTasks(s)
    BY <1>1, <1>2 DEF SameTasks
  <2>3. StreamFlow(tag, W, R, s)
    BY <2>1 DEF Flow
  <2>4. InPipes(tag, W2, R2, s)'
    <3> SUFFICES ASSUME NEW k \in Pipes, tag[k][1] = s
                 PROVE  tag[k][2] # 0 /\ buffer'[k] + R2[tag[k]] = W2[tag[k]]
      BY DEF InPipes
    <3>1. tag[k][2] # 0 /\ buffer[k] + R[tag[k]] = W[tag[k]] /\ buffer'[k] = buffer[k]
      BY <1>2, <2>3 DEF StreamFlow, InPipes
    <3>2. W2[tag[k]] = W[tag[k]] /\ R2[tag[k]] = R[tag[k]]
      <4>1. tag[k] = <<s, tag[k][2]>> /\ tag[k][2] \in Nat
        BY DEF Tags
      <4> QED BY <2>1, <4>1 DEF SameCounts
    <3> QED BY <3>1, <3>2
  <2> QED BY <2>1, <2>2, <2>3, <2>4, StreamFlowKept
<1>3. ASSUME NEW s \in Sids, stream'[s].state = "new" PROVE Nothing(W2, R2, s)'
  <2>1. s # s0 /\ stream'[s] = stream[s] /\ SameCounts(W, R, W2, R2, s)
    BY <1>3 DEF SameStreamsUsed
  <2>2. Nothing(W, R, s)
    BY <1>3, <2>1 DEF Flow
  <2> QED BY <2>1, <2>2 DEF Nothing, SameCounts
<1>4. \A s \in Sids : Cared(s)' => StreamFlow(tag, W2, R2, s)'
  BY <1>2
<1> QED BY <1>3, <1>4 DEF Flow

\* A round that has its task is behind those to come.
LEMMA BehindAhead ==
    ASSUME CallInv, WireInv, NEW c \in Children, Forked(c),
           stream[child[c].sid].state = "opening"
    PROVE  Round(c) < Ahead
<1>1. child[c].sid \in Sids /\ Round(c) \in Nat
  BY TaskRounds
<1>2. InPopen /\ child[c].sid = call.sid
  BY <1>1 DEF CallInv, States
<1>3. call.i \in Nat
  BY <1>2, InLoop
<1> QED BY <1>1, <1>2, <1>3 DEF WireInv, Place, InRound, Forked, Ahead, InPopen

\* The pipes that two tasks of a stream read, and those they write, differ.
LEMMA TasksApart ==
    ASSUME CallInv, WireInv, PidsInv, NEW c \in Children, NEW d \in Children,
           Forked(c), Forked(d), child[c].sid = child[d].sid, c # d
    PROVE  /\ Source(c) # Source(d) /\ Sink(c) # Sink(d)
           /\ Round(c) # Round(d)
<1>1. Round(c) # Round(d)
  BY DEF PidsInv
<1>2. child[c].mode = child[d].mode /\ Round(c) \in Nat /\ Round(d) \in Nat
  BY TaskRounds
<1>3. /\ Takes(child[c].mode, Round(c)) # Takes(child[c].mode, Round(d))
      /\ Gives(child[c].mode, Round(c)) # Gives(child[c].mode, Round(d))
  BY <1>1, <1>2 DEF Takes, Gives
<1> QED BY <1>1, <1>2, <1>3 DEF Source, Sink

\* A task exits at the end of the items.
LEMMA ExitFlow ==
    ASSUME CallInv, HeldInv, WireInv, PidsInv, PlainInv, NEW tag, TagInv(tag),
           NEW W, NEW R, Flow(tag, W, R),
           NEW c \in Children, Forked(c), Task_eof(c)
    PROVE  Flow(tag, W, R)'
<1>1. PICK s0 \in Sids : s0 = child[c].sid /\ stream[s0].state # "new"
  BY TaskRounds
<1>2. PICK e \in {fds[c][STDIN_FILENO]} :
        /\ e = fds[c][STDIN_FILENO]
        /\ child[c].pc = "run" /\ ~child[c].hold
        /\ e = Tty \/ EndOfFile(e) \/ e.end \in {"none", "write"}
        /\ child' = [child EXCEPT ![c].pc = "zombie"]
        /\ UNCHANGED <<buffer, stream, call>>
  BY DEF Task_eof, Exit, ChildSteps
<1>3. /\ ChildMoves(c) /\ \A d \in Children \ {c} : child'[d] = child[d] /\ fds'[d] = fds[d]
      /\ child'[c] = [child[c] EXCEPT !.pc = "zombie"]
  <2>1. ChildMoves(c)
    BY ChildStepMoves DEF ChildStep, CallInv
  <2> QED BY <1>2, <2>1, ChildIsProc DEF ChildMoves, CallInv, TypeInv
<1>4. \A d \in Children : SameChild(d)
  BY <1>3, ChildKeepsEnds, UnmovedIsSame DEF ChildStep
<1>5. SameStreamsUsed
  BY <1>2 DEF SameStreamsUsed
<1>6. child'[c].hold = child[c].hold /\ Ended(c)' /\ ~Ended(c)
  BY <1>2, <1>3 DEF CallInv, TypeInv, ChildRec, Ended
<1>7. \A d \in Children : Forked(d)' /\ d # c => SameTask(d)
  BY <1>3, <1>4, <1>5, TasksKept DEF SameTask, Ended
<1>8. ASSUME Cared(s0)' PROVE StreamFlow(tag, W, R, s0)'
  <2>1. Cared(s0)
    BY <1>2, <1>8 DEF Cared
  <2>2. StreamFlow(tag, W, R, s0)
    BY <2>1 DEF Flow
  <2>3. InPipes(tag, W, R, s0)' /\ AtEdges(W, R, s0)' /\ Untouched(W, R, s0)'
    BY <1>2, <2>2 DEF StreamFlow, InPipes, AtEdges, Untouched, Ahead
  <2>4. /\ W[Sink(c)] = stream[s0].in
        /\ \A x \in Children : Before(x, c) => Ended(x)
        /\ child[c].mode = "w" => stream[s0].state \in {"closing", "closed"}
    BY <1>1, <1>2, <2>1, EofFinished
  <2>5. /\ Source(c)' = Source(c) /\ Sink(c)' = Sink(c) /\ child'[c].mode = child[c].mode
        /\ child'[c].sid = child[c].sid /\ Round(c)' = Round(c)
    BY <1>4, <1>5, TasksKept DEF Source, Sink, SameChild
  <2>6. Copies(W, R, c)'
    BY <1>1, <1>6, <2>2, <2>5 DEF StreamFlow, Copies
  <2>7. ASSUME NEW x \in Children, Before(x, c)' PROVE Ended(x)'
    <3>1. x # c /\ Forked(x)'
      <4>1. Round(c) \in Nat
        BY TaskRounds
      <4> QED BY <2>5, <2>7, <4>1 DEF Before
    <3>2. SameTask(x)
      BY <1>7, <3>1
    <3>3. Before(x, c)
      BY <2>5, <2>7, <3>2 DEF Before, SameTask
    <3> QED BY <2>4, <3>2, <3>3 DEF SameTask
  <2>8. Finished(W, c)'
    BY <1>1, <1>2, <1>6, <2>4, <2>5, <2>7 DEF Finished
  <2>9. ASSUME NEW x \in Children, x # c, Forked(x)', child'[x].sid = s0
        PROVE  Copies(W, R, x)' /\ Finished(W, x)'
    <3>1. SameTask(x) /\ Forked(x) /\ child[x].sid = s0
      BY <1>7, <2>9 DEF SameTask
    <3>2. Copies(W, R, x) /\ Finished(W, x)
      BY <2>2, <3>1 DEF StreamFlow
    <3>3. Source(x)' = Source(x) /\ Sink(x)' = Sink(x)
      BY <3>1 DEF SameTask, Source, Sink
    <3>4. Copies(W, R, x)'
      BY <3>1, <3>2, <3>3 DEF Copies, SameTask
    <3>5. ASSUME NEW d \in Children, Before(d, x)', Ended(x) PROVE Ended(d)'
      <4>1. CASE d = c
        BY <1>6, <4>1
      <4>2. CASE d # c
        <5>1. SameTask(d)
          BY <1>7, <3>5, <4>2 DEF Before
        <5>2. Before(d, x)
          BY <3>1, <3>5, <5>1 DEF Before, SameTask
        <5> QED BY <3>2, <3>5, <5>1, <5>2 DEF Finished, SameTask
      <4> QED BY <4>1, <4>2
    <3>6. Ended(x)' =>
            /\ ~child'[x].hold /\ W[Sink(x)'] = stream'[child'[x].sid].in
            /\ child'[x].mode = "w" => stream'[child'[x].sid].state \in {"closing", "closed"}
      BY <1>2, <3>1, <3>2, <3>3 DEF Finished, SameTask
    <3> QED BY <3>1, <3>4, <3>5, <3>6 DEF Finished, SameTask
  <2> QED BY <2>3, <2>6, <2>8, <2>9 DEF StreamFlow
<1>9. /\ \A s \in Sids \ {s0} : stream'[s] = stream[s]
      /\ \A d \in Children : Forked(d) /\ child[d].sid # s0 =>
           child'[d].hold = child[d].hold /\ (Ended(d)' <=> Ended(d))
      /\ \A k \in Pipes : tag[k][1] # s0 => buffer'[k] = buffer[k]
      /\ \A s \in Sids \ {s0} : SameCounts(W, R, W, R, s)
      /\ W \in Counts /\ R \in Counts /\ tag \in Tags
  BY <1>1, <1>2, <1>3 DEF SameCounts, Flow, Ended, TagInv
<1> QED BY <1>1, <1>2, <1>4, <1>5, <1>8, <1>9, FlowElsewhere

\* A task takes an item from its source or puts the one it has into its sink.
LEMMA ItemFlow ==
    ASSUME CallInv, WireInv, PidsInv, NEW tag, TagInv(tag),
           NEW W, NEW R, Flow(tag, W, R),
           NEW c \in Children, Forked(c), child[c].pc = "run",
           ChildMoves(c), \A d \in Children : SameChild(d),
           NEW h \in BOOLEAN, child' = [child EXCEPT ![c].hold = h],
           NEW s0 \in Sids, s0 = child[c].sid,
           \A s \in Sids \ {s0} : stream'[s] = stream[s],
           \A k \in Pipes : tag[k][1] # s0 => buffer'[k] = buffer[k],
           NEW W2, NEW R2,
           \/ h /\ ~child[c].hold /\ W2 = W /\ R2 = [R EXCEPT ![Source(c)] = @ + 1]
           \/ ~h /\ child[c].hold /\ R2 = R /\ W2 = [W EXCEPT ![Sink(c)] = @ + 1],
           Cared(s0) =>
               /\ InPipes(tag, W2, R2, s0)' /\ AtEdges(W2, R2, s0)'
               /\ \/ stream'[s0].in = stream[s0].in
                  \/ \A x \in Children : Forked(x) /\ child[x].sid = s0 => ~Ended(x)
    PROVE  Flow(tag, W2, R2)'
<1>1. UNCHANGED call /\ StreamsKept /\ SameStreamsUsed
  BY UsedIfKept DEF ChildMoves
<1>2. /\ child'[c] = [child[c] EXCEPT !.hold = h]
      /\ \A d \in Children \ {c} : child'[d] = child[d]
      /\ child[c] \in ChildRec
  BY DEF CallInv, TypeInv
<1>3. child'[c].hold = h /\ child'[c].pc = "run" /\ ~Ended(c) /\ ~Ended(c)'
  BY <1>2 DEF ChildRec, Ended
<1>4. /\ W \in Counts /\ R \in Counts
      /\ Source(c) \in Sids \X Nat /\ Sink(c) \in Sids \X Nat
      /\ stream[s0].state # "new" /\ stream[s0].mode \in {"r", "w"}
      /\ stream[s0].mode = child[c].mode
      /\ Round(c) \in Nat \ {0}
  BY TaskRounds DEF Flow, Source, Sink
<1>5. /\ W2 \in Counts /\ R2 \in Counts
      /\ \A y \in Sids \X Nat : y # Source(c) => R2[y] = R[y]
      /\ \A y \in Sids \X Nat : y # Sink(c) => W2[y] = W[y]
      /\ W[Sink(c)] \in Nat /\ R[Source(c)] \in Nat
      /\ \/ h /\ ~child[c].hold /\ W2[Sink(c)] = W[Sink(c)]
                                /\ R2[Source(c)] = R[Source(c)] + 1
         \/ ~h /\ child[c].hold /\ R2[Source(c)] = R[Source(c)]
                                /\ W2[Sink(c)] = W[Sink(c)] + 1
  BY <1>4, OneMore DEF Counts
<1>6. \A d \in Children : Forked(d)' /\ d # c => SameTask(d)
  BY <1>1, <1>2, TasksKept DEF SameTask, Ended
<1>7. /\ Source(c)' = Source(c) /\ Sink(c)' = Sink(c)
      /\ child'[c].sid = s0 /\ Round(c)' = Round(c)
  BY <1>1, TasksKept DEF Source, Sink, SameChild
<1>8. ASSUME Cared(s0)' PROVE StreamFlow(tag, W2, R2, s0)'
  <2>1. Cared(s0) /\ StreamFlow(tag, W, R, s0)
    BY <1>1, <1>8 DEF Cared, StreamsKept, Flow
  <2>2. Untouched(W2, R2, s0)'
    <3> SUFFICES ASSUME stream'[s0].state = "opening", NEW j \in Nat \ {0}, j >= Ahead'
                 PROVE  /\ R2[<<s0, Takes(stream'[s0].mode, j)>>] = 0
                        /\ W2[<<s0, Gives(stream'[s0].mode, j)>>] = 0
      BY DEF Untouched
    <3>1. /\ stream[s0].state = "opening" /\ j >= Ahead /\ Ahead \in Nat
          /\ stream'[s0].mode = stream[s0].mode
      <4>1. stream[s0].state = "opening" /\ stream'[s0].mode = stream[s0].mode
        BY <1>1 DEF StreamsKept
      <4>2. Ahead' = Ahead
        BY <1>1 DEF Ahead
      <4>3. Ahead \in Nat
        BY DEF Ahead, CallInv, TypeInv, CallRec
      <4> QED BY <4>1, <4>2, <4>3
    <3>2. Round(c) < j
      BY <1>4, <3>1, BehindAhead
    <3>3. /\ R[<<s0, Takes(stream[s0].mode, j)>>] = 0
          /\ W[<<s0, Gives(stream[s0].mode, j)>>] = 0
      BY <2>1, <3>1 DEF StreamFlow, Untouched
    <3>4. /\ Takes(stream[s0].mode, j) # Takes(child[c].mode, Round(c))
          /\ Gives(stream[s0].mode, j) # Gives(child[c].mode, Round(c))
          /\ Takes(stream[s0].mode, j) \in Nat /\ Gives(stream[s0].mode, j) \in Nat
      BY <1>4, <3>2 DEF Takes, Gives
    <3>5. /\ <<s0, Takes(stream[s0].mode, j)>> # Source(c)
          /\ <<s0, Gives(stream[s0].mode, j)>> # Sink(c)
      BY <3>4 DEF Source, Sink
    <3> QED BY <1>5, <3>1, <3>3, <3>4, <3>5
  <2>3. Copies(W2, R2, c)'
    <3>1. R[Source(c)] = W[Sink(c)] + One(child[c].hold)
      BY <2>1 DEF StreamFlow, Copies
    <3>2. R2[Source(c)] = W2[Sink(c)] + One(h)
      BY <1>5, <3>1 DEF One
    <3> QED BY <1>3, <1>7, <3>2 DEF Copies
  <2>4. Finished(W2, c)'
    BY <1>3 DEF Finished
  <2>5. ASSUME NEW x \in Children, x # c, Forked(x)', child'[x].sid = s0
        PROVE  Copies(W2, R2, x)' /\ Finished(W2, x)'
    <3>1. SameTask(x) /\ Forked(x) /\ child[x].sid = s0
      BY <1>6, <2>5 DEF SameTask
    <3>2. Copies(W, R, x) /\ Finished(W, x)
      BY <2>1, <3>1 DEF StreamFlow
    <3>3. Source(x)' = Source(x) /\ Sink(x)' = Sink(x)
      BY <3>1 DEF SameTask, Source, Sink
    <3>4. W2[Sink(x)] = W[Sink(x)] /\ R2[Source(x)] = R[Source(x)]
      <4>1. Source(x) # Source(c) /\ Sink(x) # Sink(c)
        BY <2>5, <3>1, TasksApart
      <4>2. Source(x) \in Sids \X Nat /\ Sink(x) \in Sids \X Nat
        BY <3>1, TaskRounds DEF Source, Sink
      <4> QED BY <1>5, <4>1, <4>2
    <3>5. Copies(W2, R2, x)'
      BY <3>1, <3>2, <3>3, <3>4 DEF Copies, SameTask
    <3>6. ASSUME Ended(x), NEW d \in Children, Before(d, x)' PROVE Ended(d)'
      <4>1. Before(d, x)
        <5>1. CASE d = c
          BY <1>7, <3>1, <3>6, <5>1 DEF Before, SameTask
        <5>2. CASE d # c
          <6>1. SameTask(d)
            BY <1>6, <3>6, <5>2 DEF Before
          <6> QED BY <3>1, <3>6, <6>1 DEF Before, SameTask
        <5> QED BY <5>1, <5>2
      <4>2. Ended(d)
        BY <3>2, <3>6, <4>1 DEF Finished
      <4>3. d # c
        BY <1>3, <4>2
      <4>4. SameTask(d)
        BY <1>6, <3>6, <4>3 DEF Before
      <4> QED BY <4>2, <4>4 DEF SameTask
    <3>7. ASSUME Ended(x)
          PROVE  /\ ~child'[x].hold /\ W2[Sink(x)'] = stream'[s0].in
                 /\ child'[x].mode = "w" => stream'[s0].state \in {"closing", "closed"}
      <4>1. stream'[s0].in = stream[s0].in
        BY <2>1, <3>1, <3>7
      <4>2. stream'[s0].state = stream[s0].state
        BY <1>1 DEF StreamsKept
      <4> QED BY <3>1, <3>2, <3>3, <3>4, <3>7, <4>1, <4>2 DEF Finished, SameTask
    <3> QED BY <2>5, <3>1, <3>5, <3>6, <3>7 DEF Finished, SameTask
  <2> QED BY <2>1, <2>2, <2>3, <2>4, <2>5 DEF StreamFlow
<1>9. \A d \in Children : Forked(d) /\ child[d].sid # s0 =>
          child'[d].hold = child[d].hold /\ (Ended(d)' <=> Ended(d))
  BY <1>2 DEF Ended
<1>10. ASSUME NEW s \in Sids \ {s0} PROVE SameCounts(W, R, W2, R2, s)
  <2>1. \A i \in Nat : <<s, i>> # Source(c) /\ <<s, i>> # Sink(c)
    BY DEF Source, Sink
  <2> QED BY <1>5, <2>1 DEF SameCounts
<1>11. tag \in Tags
  BY DEF TagInv
<1> QED BY <1>1, <1>4, <1>5, <1>8, <1>9, <1>10, <1>11, FlowElsewhere

\* The ends a running task reads and writes are those of its source and sink.
LEMMA TaskPipes ==
    ASSUME CallInv, WireInv, NEW tag, TagInv(tag),
           NEW c \in Children, Forked(c), child[c].pc = "run"
    PROVE  /\ \A e : e = fds[c][STDIN_FILENO] =>
                \/ e = Tty /\ child[c].mode = "r" /\ Round(c) = 1
                \/ /\ e = Read(e.pipe) /\ e.pipe \in Pipes /\ tag[e.pipe] = Source(c)
                   /\ child[c].mode = "r" => Round(c) # 1
           /\ \A e : e = fds[c][STDOUT_FILENO] =>
                \/ e = Tty /\ child[c].mode = "w" /\ Round(c) = 1
                \/ /\ e = Write(e.pipe) /\ e.pipe \in Pipes /\ tag[e.pipe] = Sink(c)
                   /\ child[c].mode = "w" => Round(c) # 1
<1>1. Alive(c) /\ child[c].mode # "spawn" /\ child[c].mode \in {"r", "w"}
  BY RunningEnds DEF Forked
<1>2. /\ HasTag(tag, OutEnd(c), child[c].sid, Round(c))
      /\ Round(c) # 1 => HasTag(tag, InEnd(c), child[c].sid, Round(c) - 1)
  BY <1>1, TaskRounds DEF TagInv, ChildTags
<1>3. CASE child[c].mode = "r"
  <2>1. /\ OutEnd(c) = fds[c][STDOUT_FILENO] /\ InEnd(c) = fds[c][STDIN_FILENO]
        /\ OutEnd(c) = Write(OutEnd(c).pipe)
        /\ IF Round(c) = 1 THEN InEnd(c) = Tty ELSE InEnd(c) = Read(InEnd(c).pipe)
    BY <1>1, <1>3, RunningEnds
  <2>2. /\ Source(c) = <<child[c].sid, Round(c) - 1>>
        /\ Sink(c) = <<child[c].sid, Round(c)>>
    BY <1>3 DEF Source, Sink, Takes, Gives
  <2> QED BY <1>2, <1>3, <2>1, <2>2 DEF HasTag
<1>4. CASE child[c].mode = "w"
  <2>1. /\ OutEnd(c) = fds[c][STDIN_FILENO] /\ InEnd(c) = fds[c][STDOUT_FILENO]
        /\ OutEnd(c) = Read(OutEnd(c).pipe)
        /\ IF Round(c) = 1 THEN InEnd(c) = Tty ELSE InEnd(c) = Write(InEnd(c).pipe)
    BY <1>1, <1>4, RunningEnds
  <2>2. /\ Source(c) = <<child[c].sid, Round(c)>>
        /\ Sink(c) = <<child[c].sid, Round(c) - 1>>
    BY <1>4 DEF Source, Sink, Takes, Gives
  <2> QED BY <1>2, <1>4, <2>1, <2>2 DEF HasTag
<1> QED BY <1>1, <1>3, <1>4

\* Two pipes with the label of a stream are one.
LEMMA PipeOf ==
    ASSUME NEW tag, TagInv(tag), NEW k \in Pipes, NEW l \in Pipes,
           tag[k][1] \in Sids, tag[k] = tag[l]
    PROVE  k = l
BY Constants DEF TagInv, TagsOnce, Sids

\* An item taken from a pipe, or put into it, counts once.
LEMMA TakeFromPipe ==
    ASSUME BufferInv, NEW tag, TagInv(tag), NEW W \in Counts, NEW R \in Counts,
           NEW s \in Sids, InPipes(tag, W, R, s), NEW k \in Pipes, tag[k][1] = s,
           buffer[k] > 0, buffer' = [buffer EXCEPT ![k] = @ - 1],
           NEW R2, R2 = [R EXCEPT ![tag[k]] = @ + 1]
    PROVE  InPipes(tag, W, R2, s)'
<1>1. \A l \in Pipes : tag[l][1] = s => tag[l] \in Sids \X Nat
  BY DEF TagInv, Tags
<1>2. /\ R2[tag[k]] = R[tag[k]] + 1 /\ R[tag[k]] \in Nat /\ W[tag[k]] \in Nat
      /\ \A y \in Sids \X Nat : y # tag[k] => R2[y] = R[y]
  BY <1>1, OneMore DEF Counts
<1>3. /\ buffer'[k] = buffer[k] - 1 /\ buffer[k] \in Nat
      /\ \A l \in Pipes \ {k} : buffer'[l] = buffer[l]
  BY DEF BufferInv
<1>4. ASSUME NEW l \in Pipes, tag[l][1] = s
      PROVE  tag[l][2] # 0 /\ buffer'[l] + R2[tag[l]] = W[tag[l]]
  <2>1. tag[l][2] # 0 /\ buffer[l] + R[tag[l]] = W[tag[l]]
    BY <1>4 DEF InPipes
  <2>2. CASE l = k
    BY <1>2, <1>3, <2>1, <2>2
  <2>3. CASE l # k
    <3>1. tag[l] # tag[k]
      BY <2>3, PipeOf
    <3>2. R2[tag[l]] = R[tag[l]] /\ buffer'[l] = buffer[l]
      BY <1>1, <1>2, <1>3, <1>4, <2>3, <3>1
    <3> QED BY <2>1, <3>2
  <2> QED BY <2>2, <2>3
<1> QED BY <1>4 DEF InPipes

\* An item put into a pipe is counted where the pipe belongs.
LEMMA PutIntoPipe ==
    ASSUME BufferInv, NEW tag, TagInv(tag), NEW W \in Counts, NEW R \in Counts,
           NEW s \in Sids, InPipes(tag, W, R, s), NEW k \in Pipes, tag[k][1] = s,
           buffer' = [buffer EXCEPT ![k] = @ + 1],
           NEW W2, W2 = [W EXCEPT ![tag[k]] = @ + 1]
    PROVE  InPipes(tag, W2, R, s)'
<1>1. \A l \in Pipes : tag[l][1] = s => tag[l] \in Sids \X Nat
  BY DEF TagInv, Tags
<1>2. /\ W2[tag[k]] = W[tag[k]] + 1 /\ R[tag[k]] \in Nat /\ W[tag[k]] \in Nat
      /\ \A y \in Sids \X Nat : y # tag[k] => W2[y] = W[y]
  BY <1>1, OneMore DEF Counts
<1>3. /\ buffer'[k] = buffer[k] + 1 /\ buffer[k] \in Nat
      /\ \A l \in Pipes \ {k} : buffer'[l] = buffer[l]
  BY DEF BufferInv
<1>4. ASSUME NEW l \in Pipes, tag[l][1] = s
      PROVE  tag[l][2] # 0 /\ buffer'[l] + R[tag[l]] = W2[tag[l]]
  <2>1. tag[l][2] # 0 /\ buffer[l] + R[tag[l]] = W[tag[l]]
    BY <1>4 DEF InPipes
  <2>2. CASE l = k
    BY <1>2, <1>3, <2>1, <2>2
  <2>3. CASE l # k
    <3>1. tag[l] # tag[k]
      BY <2>3, PipeOf
    <3>2. W2[tag[l]] = W[tag[l]] /\ buffer'[l] = buffer[l]
      BY <1>1, <1>2, <1>3, <1>4, <2>3, <3>1
    <3> QED BY <2>1, <3>2
  <2> QED BY <2>2, <2>3
<1> QED BY <1>4 DEF InPipes

\* An item that passes the edge of the pipeline is in no pipe.
LEMMA AtTheEdge ==
    ASSUME UNCHANGED buffer, NEW tag, TagInv(tag), NEW W \in Counts, NEW R \in Counts,
           NEW s \in Sids, InPipes(tag, W, R, s), NEW W2, NEW R2,
           W2 = W \/ W2 = [W EXCEPT ![<<s, 0>>] = @ + 1],
           R2 = R \/ R2 = [R EXCEPT ![<<s, 0>>] = @ + 1]
    PROVE  InPipes(tag, W2, R2, s)'
<1>1. \A y \in Sids \X Nat : y # <<s, 0>> => W2[y] = W[y] /\ R2[y] = R[y]
  BY OneMore DEF Counts
<1>2. ASSUME NEW l \in Pipes, tag[l][1] = s
      PROVE  tag[l][2] # 0 /\ buffer'[l] + R2[tag[l]] = W2[tag[l]]
  <2>1. tag[l][2] # 0 /\ buffer[l] + R[tag[l]] = W[tag[l]]
    BY <1>2 DEF InPipes
  <2>2. tag[l] \in Sids \X Nat /\ tag[l] # <<s, 0>>
    BY <1>2, <2>1 DEF TagInv, Tags
  <2> QED BY <1>1, <2>1, <2>2
<1> QED BY <1>2 DEF InPipes

\* A task that reads takes from the pipe of the task before it.
LEMMA ReadFlow ==
    ASSUME CallInv, WireInv, PidsInv, BufferInv, NEW tag, TagInv(tag),
           NEW W, NEW R, Flow(tag, W, R),
           NEW c \in Children, Forked(c), Task_read(c)
    PROVE  \E N \in Counts : Flow(tag, W, N)'
<1>0. PICK e \in {fds[c][STDIN_FILENO]} : e = fds[c][STDIN_FILENO]
  OBVIOUS
<1>1. PICK s0 \in Sids : s0 = child[c].sid
  BY TaskRounds
<1>2. /\ child[c].pc = "run" /\ ~child[c].hold
      /\ child' = [child EXCEPT ![c].hold = TRUE]
      /\ UNCHANGED <<fds, call>>
      /\ \/ /\ e.end = "read" /\ buffer[e.pipe] > 0
            /\ buffer' = [buffer EXCEPT ![e.pipe] = @ - 1]
            /\ UNCHANGED stream
         \/ /\ e = Tty
            /\ stream' = [stream EXCEPT ![s0].in = @ + 1]
            /\ UNCHANGED buffer
  BY <1>0, <1>1 DEF Task_read
<1>3. ChildMoves(c) /\ \A d \in Children : SameChild(d)
  <2>1. ChildMoves(c)
    BY ChildStepMoves DEF ChildStep, CallInv
  <2>2. \A d \in Children \ {c} : child'[d] = child[d] /\ fds'[d] = fds[d]
    BY <1>2, <2>1 DEF ChildMoves
  <2> QED BY <2>1, <2>2, ChildKeepsEnds, UnmovedIsSame DEF ChildStep
<1>4. /\ W \in Counts /\ R \in Counts /\ Source(c) \in Sids \X Nat
      /\ stream[s0].mode = child[c].mode /\ child[c].mode \in {"r", "w"}
      /\ Round(c) \in Nat \ {0} /\ stream[s0].n \in Nat /\ Round(c) <= stream[s0].n
      /\ Source(c) = <<s0, IF child[c].mode = "w" THEN Round(c) ELSE Round(c) - 1>>
  BY <1>1, TaskRounds DEF Flow, Source, Takes
<1>5. PICK N \in Counts : N = [R EXCEPT ![Source(c)] = @ + 1]
  BY <1>4, OneMore
<1>6. /\ N[Source(c)] = R[Source(c)] + 1
      /\ \A y \in Sids \X Nat : y # Source(c) => N[y] = R[y]
  BY <1>4, <1>5, OneMore
<1>7. \/ e = Tty /\ child[c].mode = "r" /\ Round(c) = 1
      \/ /\ e = Read(e.pipe) /\ e.pipe \in Pipes /\ tag[e.pipe] = Source(c)
         /\ child[c].mode = "r" => Round(c) # 1
  BY <1>0, <1>2, TaskPipes
<1>8. CASE e = Tty /\ child[c].mode = "r" /\ Round(c) = 1
  <2>1. /\ stream' = [stream EXCEPT ![s0].in = @ + 1] /\ UNCHANGED buffer
        /\ Source(c) = <<s0, 0>>
    BY <1>2, <1>4, <1>8 DEF Tty
  <2>2. /\ \A s \in Sids \ {s0} : stream'[s] = stream[s]
        /\ stream'[s0] = [stream[s0] EXCEPT !.in = @ + 1]
        /\ stream[s0] \in StreamRec
    BY <2>1 DEF CallInv, TypeInv
  <2>3. /\ stream'[s0].in = stream[s0].in + 1 /\ stream'[s0].out = stream[s0].out
        /\ stream'[s0].mode = stream[s0].mode /\ stream'[s0].n = stream[s0].n
    BY <2>2 DEF StreamRec
  <2>4. ASSUME Cared(s0)
        PROVE  /\ InPipes(tag, W, N, s0)' /\ AtEdges(W, N, s0)'
               /\ \A x \in Children : Forked(x) /\ child[x].sid = s0 => ~Ended(x)
    <3>1. StreamFlow(tag, W, R, s0)
      BY <2>4 DEF Flow
    <3>2. InPipes(tag, W, N, s0)'
      BY <1>4, <1>5, <2>1, <3>1, AtTheEdge DEF StreamFlow
    <3>3. AtEdges(W, N, s0)'
      <4>1. R[<<s0, 0>>] = stream[s0].in /\ R[<<s0, stream[s0].n>>] = stream[s0].out
        BY <1>4, <1>8, <3>1 DEF StreamFlow, AtEdges
      <4>2. N[<<s0, 0>>] = R[<<s0, 0>>] + 1 /\ N[<<s0, stream[s0].n>>] = R[<<s0, stream[s0].n>>]
        BY <1>4, <1>6, <2>1
      <4> QED BY <1>4, <1>8, <2>3, <4>1, <4>2 DEF AtEdges
    <3>4. ASSUME NEW x \in Children, Forked(x), child[x].sid = s0, Ended(x) PROVE FALSE
      <4>1. x # c /\ ~Ended(c)
        BY <1>2, <3>4 DEF Ended
      <4>2. Round(x) # 1 /\ Round(x) \in Nat \ {0} /\ child[x].mode = "r"
        BY <1>1, <1>4, <1>8, <3>4, <4>1, TasksApart, TaskRounds
      <4>3. Before(c, x)
        BY <1>1, <1>8, <3>4, <4>2 DEF Before
      <4> QED BY <3>1, <3>4, <4>1, <4>3 DEF StreamFlow, Finished
    <3> QED BY <3>2, <3>3, <3>4
  <2>5. /\ Cared(s0) =>
             /\ InPipes(tag, W, N, s0)' /\ AtEdges(W, N, s0)'
             /\ \/ stream'[s0].in = stream[s0].in
                \/ \A x \in Children : Forked(x) /\ child[x].sid = s0 => ~Ended(x)
        /\ \A k \in Pipes : tag[k][1] # s0 => buffer'[k] = buffer[k]
        /\ \A s \in Sids \ {s0} : stream'[s] = stream[s]
    BY <2>1, <2>2, <2>4
  <2>6. Flow(tag, W, N)'
    <3>1. PICK h \in BOOLEAN :
            /\ h /\ ~child[c].hold /\ child' = [child EXCEPT ![c].hold = h]
            /\ child[c].pc = "run"
      BY <1>2
    <3>2. N = [R EXCEPT ![Source(c)] = @ + 1]
      BY <1>5
    <3> QED BY <1>1, <1>3, <2>5, <3>1, <3>2, ItemFlow
  <2> QED BY <2>6
<1>9. CASE /\ e = Read(e.pipe) /\ e.pipe \in Pipes /\ tag[e.pipe] = Source(c)
           /\ child[c].mode = "r" => Round(c) # 1
  <2>1. PICK k \in Pipes : k = e.pipe /\ tag[k] = Source(c) /\ tag[k][1] = s0
    BY <1>4, <1>9
  <2>2. /\ UNCHANGED stream /\ buffer[k] > 0
        /\ buffer' = [buffer EXCEPT ![k] = @ - 1]
    BY <1>2, <1>9, <2>1, EndsDiffer
  <2>3. \A l \in Pipes : tag[l][1] # s0 => buffer'[l] = buffer[l]
    BY <2>1, <2>2 DEF BufferInv
  <2>4. ASSUME Cared(s0) PROVE InPipes(tag, W, N, s0)' /\ AtEdges(W, N, s0)'
    <3>1. StreamFlow(tag, W, R, s0)
      BY <2>4 DEF Flow
    <3>2. InPipes(tag, W, N, s0)'
      BY <1>4, <1>5, <2>1, <2>2, <3>1, TakeFromPipe DEF StreamFlow
    <3>3. child[c].mode = "r" =>
            /\ N[<<s0, 0>>] = R[<<s0, 0>>]
            /\ N[<<s0, stream[s0].n>>] = R[<<s0, stream[s0].n>>]
      <4> SUFFICES ASSUME child[c].mode = "r"
                   PROVE  /\ <<s0, 0>> # Source(c) /\ <<s0, stream[s0].n>> # Source(c)
        BY <1>4, <1>6
      <4> QED BY <1>4, <1>9
    <3>4. AtEdges(W, N, s0)'
      BY <1>4, <2>2, <3>1, <3>3 DEF StreamFlow, AtEdges
    <3> QED BY <3>2, <3>4
  <2>5. Flow(tag, W, N)'
    BY <1>1, <1>2, <1>3, <1>5, <2>2, <2>3, <2>4, ItemFlow
  <2> QED BY <2>5
<1> QED BY <1>7, <1>8, <1>9

\* A task that writes puts into the pipe of the task after it.
LEMMA WriteFlow ==
    ASSUME CallInv, WireInv, PidsInv, BufferInv, NEW tag, TagInv(tag),
           NEW W, NEW R, Flow(tag, W, R),
           NEW c \in Children, Forked(c), Task_write(c)
    PROVE  \E M \in Counts : Flow(tag, M, R)'
<1>0. PICK e \in {fds[c][STDOUT_FILENO]} : e = fds[c][STDOUT_FILENO]
  OBVIOUS
<1>1. PICK s0 \in Sids : s0 = child[c].sid
  BY TaskRounds
<1>2. /\ child[c].pc = "run" /\ child[c].hold
      /\ child' = [child EXCEPT ![c].hold = FALSE]
      /\ UNCHANGED <<fds, call>>
      /\ \/ /\ e.end = "write"
            /\ buffer' = [buffer EXCEPT ![e.pipe] = @ + 1]
            /\ UNCHANGED stream
         \/ /\ e = Tty
            /\ stream' = [stream EXCEPT ![s0].out = @ + 1]
            /\ UNCHANGED buffer
  BY <1>0, <1>1 DEF Task_write
<1>3. ChildMoves(c) /\ \A d \in Children : SameChild(d)
  <2>1. ChildMoves(c)
    BY ChildStepMoves DEF ChildStep, CallInv
  <2>2. \A d \in Children \ {c} : child'[d] = child[d] /\ fds'[d] = fds[d]
    BY <1>2, <2>1 DEF ChildMoves
  <2> QED BY <2>1, <2>2, ChildKeepsEnds, UnmovedIsSame DEF ChildStep
<1>4. /\ W \in Counts /\ R \in Counts /\ Sink(c) \in Sids \X Nat
      /\ stream[s0].mode = child[c].mode /\ child[c].mode \in {"r", "w"}
      /\ Round(c) \in Nat \ {0} /\ stream[s0].n \in Nat /\ Round(c) <= stream[s0].n
      /\ Sink(c) = <<s0, IF child[c].mode = "w" THEN Round(c) - 1 ELSE Round(c)>>
  BY <1>1, TaskRounds DEF Flow, Sink, Gives
<1>5. PICK M \in Counts : M = [W EXCEPT ![Sink(c)] = @ + 1]
  BY <1>4, OneMore
<1>6. /\ M[Sink(c)] = W[Sink(c)] + 1
      /\ \A y \in Sids \X Nat : y # Sink(c) => M[y] = W[y]
  BY <1>4, <1>5, OneMore
<1>7. \/ e = Tty /\ child[c].mode = "w" /\ Round(c) = 1
      \/ /\ e = Write(e.pipe) /\ e.pipe \in Pipes /\ tag[e.pipe] = Sink(c)
         /\ child[c].mode = "w" => Round(c) # 1
  BY <1>0, <1>2, TaskPipes
<1>8. CASE e = Tty /\ child[c].mode = "w" /\ Round(c) = 1
  <2>1. /\ stream' = [stream EXCEPT ![s0].out = @ + 1] /\ UNCHANGED buffer
        /\ Sink(c) = <<s0, 0>>
    BY <1>2, <1>4, <1>8 DEF Tty
  <2>2. /\ \A s \in Sids \ {s0} : stream'[s] = stream[s]
        /\ stream'[s0] = [stream[s0] EXCEPT !.out = @ + 1]
        /\ stream[s0] \in StreamRec
    BY <2>1 DEF CallInv, TypeInv
  <2>3. /\ stream'[s0].in = stream[s0].in /\ stream'[s0].out = stream[s0].out + 1
        /\ stream'[s0].mode = stream[s0].mode /\ stream'[s0].n = stream[s0].n
    BY <2>2 DEF StreamRec
  <2>4. ASSUME Cared(s0) PROVE InPipes(tag, M, R, s0)' /\ AtEdges(M, R, s0)'
    <3>1. StreamFlow(tag, W, R, s0)
      BY <2>4 DEF Flow
    <3>2. InPipes(tag, M, R, s0)'
      BY <1>4, <1>5, <2>1, <3>1, AtTheEdge DEF StreamFlow
    <3>3. AtEdges(M, R, s0)'
      <4>1. W[<<s0, 0>>] = stream[s0].out /\ W[<<s0, stream[s0].n>>] = stream[s0].in
        BY <1>4, <1>8, <3>1 DEF StreamFlow, AtEdges
      <4>2. M[<<s0, 0>>] = W[<<s0, 0>>] + 1 /\ M[<<s0, stream[s0].n>>] = W[<<s0, stream[s0].n>>]
        BY <1>4, <1>6, <2>1
      <4> QED BY <1>4, <1>8, <2>3, <4>1, <4>2 DEF AtEdges
    <3> QED BY <3>2, <3>3
  <2>5. Flow(tag, M, R)'
    BY <1>1, <1>2, <1>3, <1>5, <2>1, <2>2, <2>3, <2>4, ItemFlow
  <2> QED BY <2>5
<1>9. CASE /\ e = Write(e.pipe) /\ e.pipe \in Pipes /\ tag[e.pipe] = Sink(c)
           /\ child[c].mode = "w" => Round(c) # 1
  <2>1. PICK k \in Pipes : k = e.pipe /\ tag[k] = Sink(c) /\ tag[k][1] = s0
    BY <1>4, <1>9
  <2>2. UNCHANGED stream /\ buffer' = [buffer EXCEPT ![k] = @ + 1]
    BY <1>2, <1>9, <2>1, EndsDiffer
  <2>3. \A l \in Pipes : tag[l][1] # s0 => buffer'[l] = buffer[l]
    BY <2>1, <2>2 DEF BufferInv
  <2>4. ASSUME Cared(s0) PROVE InPipes(tag, M, R, s0)' /\ AtEdges(M, R, s0)'
    <3>1. StreamFlow(tag, W, R, s0)
      BY <2>4 DEF Flow
    <3>2. InPipes(tag, M, R, s0)'
      BY <1>4, <1>5, <2>1, <2>2, <3>1, PutIntoPipe DEF StreamFlow
    <3>3. child[c].mode = "w" =>
            /\ M[<<s0, 0>>] = W[<<s0, 0>>]
            /\ M[<<s0, stream[s0].n>>] = W[<<s0, stream[s0].n>>]
      <4> SUFFICES ASSUME child[c].mode = "w"
                   PROVE  /\ <<s0, 0>> # Sink(c) /\ <<s0, stream[s0].n>> # Sink(c)
        BY <1>4, <1>6
      <4> QED BY <1>4, <1>9
    <3>4. AtEdges(M, R, s0)'
      BY <1>4, <2>2, <3>1, <3>3 DEF StreamFlow, AtEdges
    <3> QED BY <3>2, <3>4
  <2>5. Flow(tag, M, R)'
    BY <1>1, <1>2, <1>3, <1>5, <2>2, <2>3, <2>4, ItemFlow
  <2> QED BY <2>5
<1> QED BY <1>7, <1>8, <1>9

\* The tasks of a stream when the program reads from it or writes to it.
LEMMA TasksRest ==
    ASSUME CallInv, WireInv, SameStreamsUsed, UNCHANGED <<child, fds>>,
           NEW c \in Children, Forked(c)'
    PROVE  /\ Forked(c) /\ child'[c] = child[c] /\ Round(c)' = Round(c)
           /\ Source(c)' = Source(c) /\ Sink(c)' = Sink(c)
           /\ Ended(c)' <=> Ended(c)
           /\ \A d \in Children : Before(d, c)' => Before(d, c) /\ (Ended(d)' <=> Ended(d))
<1>1. \A d \in Children : SameChild(d)
  BY UnmovedIsSame
<1>2. \A d \in Children : Forked(d)' => Forked(d) /\ Round(d)' = Round(d)
  BY <1>1, TasksKept
<1>3. Forked(c) /\ child'[c] = child[c] /\ Round(c)' = Round(c)
  BY <1>2
<1>4. \A d \in Children : Before(d, c)' => Before(d, c)
  BY <1>2, <1>3 DEF Before
<1>5. \A d \in Children : Ended(d)' <=> Ended(d)
  BY DEF Ended
<1>6. Source(c)' = Source(c) /\ Sink(c)' = Sink(c)
  BY <1>3 DEF Source, Sink
<1> QED BY <1>3, <1>4, <1>5, <1>6

\* The program reads from the pipe of the last task.
LEMMA ProgramReadFlow ==
    ASSUME CallInv, HeldInv, WireInv, BufferInv, NEW tag, TagInv(tag),
           NEW W, NEW R, Flow(tag, W, R), NEW sid \in Sids, Program_read(sid)
    PROVE  \E N \in Counts : Flow(tag, W, N)'
<1>0. PICK e \in {fds[0][stream[sid].fd]} : e = fds[0][stream[sid].fd]
  OBVIOUS
<1>1. /\ IsOpen(sid) /\ stream[sid].mode = "r" /\ stream[sid].state = "open"
      /\ buffer[e.pipe] > 0
      /\ buffer' = [buffer EXCEPT ![e.pipe] = @ - 1]
      /\ stream' = [stream EXCEPT ![sid].out = @ + 1]
      /\ UNCHANGED <<fds, child, call>>
  BY <1>0 DEF Program_read, IsOpen
<1>2. stream[sid].n \in Nat /\ stream[sid].n >= 1 /\ W \in Counts /\ R \in Counts
  BY <1>1 DEF CallInv, TypeInv, States, StreamRec, Flow
<1>3. PICK k \in Pipes : k = e.pipe /\ tag[k] = <<sid, stream[sid].n>> /\ tag[k][1] = sid
  <2>1. HasTag(tag, e, sid, stream[sid].n)
    BY <1>0, <1>1 DEF TagInv, OpenTags
  <2> QED BY <2>1 DEF HasTag
<1>4. /\ \A s \in Sids \ {sid} : stream'[s] = stream[s]
      /\ stream'[sid] = [stream[sid] EXCEPT !.out = @ + 1]
      /\ stream[sid] \in StreamRec
  BY <1>1 DEF CallInv, TypeInv
<1>5. /\ stream'[sid].in = stream[sid].in /\ stream'[sid].out = stream[sid].out + 1
      /\ stream'[sid].mode = stream[sid].mode /\ stream'[sid].n = stream[sid].n
      /\ stream'[sid].state = stream[sid].state
  BY <1>4 DEF StreamRec
<1>6. SameStreamsUsed
  BY <1>4, <1>5 DEF SameStreamsUsed
<1>7. PICK N \in {[R EXCEPT ![tag[k]] = @ + 1]} :
        /\ N = [R EXCEPT ![tag[k]] = @ + 1] /\ N \in Counts
        /\ N[<<sid, stream[sid].n>>] = R[<<sid, stream[sid].n>>] + 1
        /\ \A y \in Sids \X Nat : y # <<sid, stream[sid].n>> => N[y] = R[y]
  <2>1. <<sid, stream[sid].n>> \in Sids \X Nat
    BY <1>2
  <2>2. tag[k] \in Sids \X Nat
    BY <1>3, <2>1
  <2> QED BY <1>2, <1>3, <2>2, OneMore
<1>8. ASSUME Cared(sid)' PROVE StreamFlow(tag, W, N, sid)'
  <2>1. StreamFlow(tag, W, R, sid)
    BY <1>1 DEF Flow, Cared
  <2>2. InPipes(tag, W, N, sid)'
    BY <1>1, <1>2, <1>3, <1>7, <2>1, TakeFromPipe DEF StreamFlow
  <2>3. AtEdges(W, N, sid)'
    <3>1. R[<<sid, 0>>] = stream[sid].in /\ R[<<sid, stream[sid].n>>] = stream[sid].out
      BY <1>1, <2>1 DEF StreamFlow, AtEdges
    <3>2. N[<<sid, 0>>] = R[<<sid, 0>>]
      BY <1>2, <1>7
    <3> QED BY <1>1, <1>5, <1>7, <3>1, <3>2 DEF AtEdges
  <2>4. Untouched(W, N, sid)'
    BY <1>1, <1>5 DEF Untouched
  <2>5. ASSUME NEW c \in Children, Forked(c)', child'[c].sid = sid
        PROVE  Copies(W, N, c)' /\ Finished(W, c)'
    <3>1. /\ Forked(c) /\ child'[c] = child[c]
          /\ Source(c)' = Source(c) /\ Sink(c)' = Sink(c)
          /\ Ended(c)' <=> Ended(c)
          /\ \A d \in Children : Before(d, c)' => Before(d, c) /\ (Ended(d)' <=> Ended(d))
      BY <1>1, <1>6, <2>5, TasksRest
    <3>2. Copies(W, R, c) /\ Finished(W, c) /\ child[c].sid = sid
      BY <2>1, <2>5, <3>1 DEF StreamFlow
    <3>3. N[Source(c)] = R[Source(c)]
      <4>1. child[c].mode = "r" /\ Round(c) \in Nat \ {0} /\ Round(c) <= stream[sid].n
        BY <1>1, <3>1, <3>2, TaskRounds
      <4>2. Source(c) = <<sid, Round(c) - 1>> /\ Round(c) - 1 \in Nat
              /\ Round(c) - 1 # stream[sid].n
        BY <1>2, <3>2, <4>1 DEF Source, Takes
      <4> QED BY <1>7, <4>2
    <3>4. Copies(W, N, c)'
      BY <3>1, <3>2, <3>3 DEF Copies
    <3>5. Finished(W, c)'
      BY <1>5, <3>1, <3>2 DEF Finished
    <3> QED BY <3>4, <3>5
  <2> QED BY <2>2, <2>3, <2>4, <2>5 DEF StreamFlow
<1>9. /\ \A d \in Children : SameChild(d)
      /\ \A d \in Children : Forked(d) /\ child[d].sid # sid =>
           child'[d].hold = child[d].hold /\ (Ended(d)' <=> Ended(d))
      /\ \A l \in Pipes : tag[l][1] # sid => buffer'[l] = buffer[l]
      /\ stream[sid].state # "new" /\ tag \in Tags
  BY <1>1, <1>3, UnmovedIsSame DEF Ended, BufferInv, TagInv
<1>10. ASSUME NEW s \in Sids \ {sid} PROVE SameCounts(W, R, W, N, s)
  <2>1. \A i \in Nat : <<s, i>> # <<sid, stream[sid].n>>
    OBVIOUS
  <2> QED BY <1>7, <2>1 DEF SameCounts
<1>11. /\ UNCHANGED call /\ N \in Counts /\ W \in Counts /\ R \in Counts
       /\ \A s \in Sids \ {sid} : stream'[s] = stream[s]
  BY <1>1, <1>2, <1>4, <1>7
<1>12. Flow(tag, W, N)'
  BY <1>6, <1>8, <1>9, <1>10, <1>11, FlowElsewhere
<1> QED BY <1>11, <1>12

\* The program writes to the pipe of the first task.
LEMMA ProgramWriteFlow ==
    ASSUME CallInv, HeldInv, WireInv, BufferInv, NEW tag, TagInv(tag),
           NEW W, NEW R, Flow(tag, W, R), NEW sid \in Sids, Program_write(sid)
    PROVE  \E M \in Counts : Flow(tag, M, R)'
<1>0. PICK e \in {fds[0][stream[sid].fd]} : e = fds[0][stream[sid].fd]
  OBVIOUS
<1>1. /\ IsOpen(sid) /\ stream[sid].mode = "w" /\ stream[sid].state = "open"
      /\ buffer' = [buffer EXCEPT ![e.pipe] = @ + 1]
      /\ stream' = [stream EXCEPT ![sid].in = @ + 1]
      /\ UNCHANGED <<fds, child, call>>
  BY <1>0 DEF Program_write, IsOpen
<1>2. stream[sid].n \in Nat /\ stream[sid].n >= 1 /\ W \in Counts /\ R \in Counts
  BY <1>1 DEF CallInv, TypeInv, States, StreamRec, Flow
<1>3. PICK k \in Pipes : k = e.pipe /\ tag[k] = <<sid, stream[sid].n>> /\ tag[k][1] = sid
  <2>1. HasTag(tag, e, sid, stream[sid].n)
    BY <1>0, <1>1 DEF TagInv, OpenTags
  <2> QED BY <2>1 DEF HasTag
<1>4. /\ \A s \in Sids \ {sid} : stream'[s] = stream[s]
      /\ stream'[sid] = [stream[sid] EXCEPT !.in = @ + 1]
      /\ stream[sid] \in StreamRec
  BY <1>1 DEF CallInv, TypeInv
<1>5. /\ stream'[sid].out = stream[sid].out /\ stream'[sid].in = stream[sid].in + 1
      /\ stream'[sid].mode = stream[sid].mode /\ stream'[sid].n = stream[sid].n
      /\ stream'[sid].state = stream[sid].state
  BY <1>4 DEF StreamRec
<1>6. SameStreamsUsed
  BY <1>4, <1>5 DEF SameStreamsUsed
<1>7. PICK M \in {[W EXCEPT ![tag[k]] = @ + 1]} :
        /\ M = [W EXCEPT ![tag[k]] = @ + 1] /\ M \in Counts
        /\ M[<<sid, stream[sid].n>>] = W[<<sid, stream[sid].n>>] + 1
        /\ \A y \in Sids \X Nat : y # <<sid, stream[sid].n>> => M[y] = W[y]
  <2>1. <<sid, stream[sid].n>> \in Sids \X Nat
    BY <1>2
  <2>2. tag[k] \in Sids \X Nat
    BY <1>3, <2>1
  <2> QED BY <1>2, <1>3, <2>2, OneMore
<1>8. ASSUME Cared(sid)' PROVE StreamFlow(tag, M, R, sid)'
  <2>1. StreamFlow(tag, W, R, sid)
    BY <1>1 DEF Flow, Cared
  <2>2. InPipes(tag, M, R, sid)'
    BY <1>1, <1>2, <1>3, <1>7, <2>1, PutIntoPipe DEF StreamFlow
  <2>3. AtEdges(M, R, sid)'
    <3>1. W[<<sid, 0>>] = stream[sid].out /\ W[<<sid, stream[sid].n>>] = stream[sid].in
      BY <1>1, <2>1 DEF StreamFlow, AtEdges
    <3>2. M[<<sid, 0>>] = W[<<sid, 0>>]
      BY <1>2, <1>7
    <3> QED BY <1>1, <1>5, <1>7, <3>1, <3>2 DEF AtEdges
  <2>4. Untouched(M, R, sid)'
    BY <1>1, <1>5 DEF Untouched
  <2>5. ASSUME NEW c \in Children, Forked(c)', child'[c].sid = sid
        PROVE  Copies(M, R, c)' /\ Finished(M, c)'
    <3>1. /\ Forked(c) /\ child'[c] = child[c]
          /\ Source(c)' = Source(c) /\ Sink(c)' = Sink(c)
          /\ Ended(c)' <=> Ended(c)
      BY <1>1, <1>6, <2>5, TasksRest
    <3>2. Copies(W, R, c) /\ Finished(W, c) /\ child[c].sid = sid
      BY <2>1, <2>5, <3>1 DEF StreamFlow
    <3>3. child[c].mode = "w" /\ Round(c) \in Nat \ {0} /\ Round(c) <= stream[sid].n
      BY <1>1, <3>1, <3>2, TaskRounds
    <3>4. M[Sink(c)] = W[Sink(c)]
      <4>1. Sink(c) = <<sid, Round(c) - 1>> /\ Round(c) - 1 \in Nat
              /\ Round(c) - 1 # stream[sid].n
        BY <1>2, <3>2, <3>3 DEF Sink, Gives
      <4> QED BY <1>7, <4>1
    <3>5. Copies(M, R, c)'
      BY <3>1, <3>2, <3>4 DEF Copies
    <3>6. ~Ended(c)'
      BY <1>1, <3>1, <3>2, <3>3 DEF Finished
    <3> QED BY <3>5, <3>6 DEF Finished
  <2> QED BY <2>2, <2>3, <2>4, <2>5 DEF StreamFlow
<1>9. /\ \A d \in Children : SameChild(d)
      /\ \A d \in Children : Forked(d) /\ child[d].sid # sid =>
           child'[d].hold = child[d].hold /\ (Ended(d)' <=> Ended(d))
      /\ \A l \in Pipes : tag[l][1] # sid => buffer'[l] = buffer[l]
      /\ stream[sid].state # "new" /\ tag \in Tags
  BY <1>1, <1>3, UnmovedIsSame DEF Ended, BufferInv, TagInv
<1>10. ASSUME NEW s \in Sids \ {sid} PROVE SameCounts(W, R, M, R, s)
  <2>1. \A i \in Nat : <<s, i>> # <<sid, stream[sid].n>>
    OBVIOUS
  <2> QED BY <1>7, <2>1 DEF SameCounts
<1>11. /\ UNCHANGED call /\ M \in Counts /\ W \in Counts /\ R \in Counts
       /\ \A s \in Sids \ {sid} : stream'[s] = stream[s]
  BY <1>1, <1>2, <1>4, <1>7
<1>12. Flow(tag, M, R)'
  BY <1>6, <1>8, <1>9, <1>10, <1>11, FlowElsewhere
<1> QED BY <1>11, <1>12

\* A step of a child that moves no item of the streams that are cared for.
LEMMA ChildQuiet ==
    ASSUME CallInv, WireInv, NEW c \in Children, ChildMoves(c),
           \A d \in Children : SameChild(d), UNCHANGED buffer,
           \A s \in Sids : Cared(s) => stream'[s] = stream[s],
           \A s \in Sids : stream[s].state = "new" => stream'[s] = stream[s],
           Forked(c) /\ Cared(child[c].sid) =>
               child'[c].hold = child[c].hold /\ (Ended(c)' <=> Ended(c)),
           NEW tag, NEW W, NEW R, Flow(tag, W, R)
    PROVE  Flow(tag, W, R)'
<1>1. /\ UNCHANGED call /\ StreamsKept /\ SameStreamsUsed
      /\ \A d \in Children \ {c} : child'[d] = child[d]
  BY UsedIfKept DEF ChildMoves
<1>2. ASSUME NEW s \in Sids, Cared(s)' PROVE Cared(s) /\ SameStream(s) /\ SameTasks(s)
  <2>1. Cared(s) /\ stream'[s] = stream[s]
    BY <1>1, <1>2 DEF Cared, StreamsKept
  <2>2. Ahead' = Ahead
    BY <1>1 DEF Ahead
  <2>3. ASSUME NEW d \in Children, Forked(d)', child'[d].sid = s PROVE SameTask(d)
    <3>1. Forked(d) /\ child[d].sid = s /\ child'[d].mode = child[d].mode
            /\ Round(d)' = Round(d)
      BY <1>1, <2>3, TasksKept DEF SameChild
    <3>2. child'[d].hold = child[d].hold /\ (Ended(d)' <=> Ended(d))
      BY <1>1, <2>1, <3>1 DEF Ended
    <3> QED BY <2>3, <3>1, <3>2 DEF SameTask
  <2> QED BY <2>1, <2>2, <2>3 DEF SameStream, SameTasks
<1>3. \A s \in Sids : stream'[s].state = "new" => stream'[s] = stream[s]
  BY <1>1 DEF StreamsKept
<1> QED BY <1>2, <1>3, FlowQuiet

\* A process of spawn has its standard descriptors, and no pipe.
LEMMA SpawnFlow ==
    ASSUME CallInv, WireInv, PlainInv, NEW c \in Children, ~Forked(c),
           ChildStep(c) \/ Stray_exit(c),
           NEW tag, NEW W, NEW R, Flow(tag, W, R)
    PROVE  Flow(tag, W, R)'
<1>1. ChildMoves(c) /\ \A d \in Children : SameChild(d)
  <2>1. ChildMoves(c)
    BY ChildStepMoves DEF CallInv
  <2>2. \A d \in Children \ {c} : child'[d] = child[d] /\ fds'[d] = fds[d]
    BY <2>1, ChildIsProc DEF ChildMoves
  <2> QED BY <2>1, <2>2, ChildKeepsEnds, UnmovedIsSame
<1>2. child[c].pc # "unborn" /\ child[c].mode = "spawn"
  BY <1>1 DEF ChildMoves, Forked
<1>3. PICK s0 \in Sids :
        /\ s0 = child[c].sid /\ stream[s0].state # "new" /\ stream[s0].mode = "spawn"
  BY <1>2 DEF WireInv, Place, Placed
<1>4. UNCHANGED buffer /\ \A s \in Sids \ {s0} : stream'[s] = stream[s]
  <2>1. CASE Task_read(c)
    <3>1. fds[c][STDIN_FILENO] = Tty /\ Tty.end = "tty"
      BY <1>2, <2>1 DEF Task_read, PlainInv, Plain, Tty
    <3>2. UNCHANGED buffer /\ stream' = [stream EXCEPT ![s0].in = @ + 1]
      BY <1>3, <2>1, <3>1 DEF Task_read
    <3> QED BY <3>2 DEF CallInv, TypeInv
  <2>2. CASE Task_write(c)
    <3>1. fds[c][STDOUT_FILENO] = Tty /\ Tty.end = "tty"
      BY <1>2, <2>2 DEF Task_write, PlainInv, Plain, Tty
    <3>2. UNCHANGED buffer /\ stream' = [stream EXCEPT ![s0].out = @ + 1]
      BY <1>3, <2>2, <3>1 DEF Task_write
    <3> QED BY <3>2 DEF CallInv, TypeInv
  <2>3. CASE ~Task_read(c) /\ ~Task_write(c)
    BY <2>3 DEF ChildStep, Child_move_out, Child_close_parent, Child_move_in, move_fd_fails,
                Pexecx, Task_eof, Task_sigpipe, Exit, Stray_exit, ChildSteps
  <2> QED BY <2>1, <2>2, <2>3
<1>5. \A s \in Sids : Cared(s) => stream'[s] = stream[s]
  BY <1>3, <1>4 DEF Cared
<1>6. \A s \in Sids : stream[s].state = "new" => stream'[s] = stream[s]
  BY <1>3, <1>4
<1> QED BY <1>1, <1>4, <1>5, <1>6, ChildQuiet

\* Each step of a child keeps the account of every stream.
LEMMA ChildFlow ==
    ASSUME CallInv, HeldInv, WireInv, PidsInv, PlainInv, BufferInv,
           Failures \subseteq {"pipe", "fork"},
           NEW c \in Children, ChildStep(c) \/ Stray_exit(c),
           NEW tag, TagInv(tag), NEW W, NEW R, Flow(tag, W, R)
    PROVE  \E M, N \in Counts : Flow(tag, M, N)'
<1>0. W \in Counts /\ R \in Counts
  BY DEF Flow
<1>1. CASE ~Forked(c)
  <2>1. Flow(tag, W, R)'
    BY <1>1, SpawnFlow
  <2> QED BY <1>0, <2>1
<1>2. CASE Forked(c) /\ Task_read(c)
  BY <1>0, <1>2, ReadFlow
<1>3. CASE Forked(c) /\ Task_write(c)
  BY <1>0, <1>3, WriteFlow
<1>4. CASE Forked(c) /\ Task_eof(c)
  <2>1. Flow(tag, W, R)'
    BY <1>4, ExitFlow
  <2> QED BY <1>0, <2>1
<1>5. CASE Forked(c) /\ ~Task_read(c) /\ ~Task_write(c) /\ ~Task_eof(c)
  <2>1. ChildMoves(c) /\ \A d \in Children : SameChild(d)
    <3>1. ChildMoves(c)
      BY ChildStepMoves DEF CallInv
    <3>2. \A d \in Children \ {c} : child'[d] = child[d] /\ fds'[d] = fds[d]
      BY <3>1, ChildIsProc DEF ChildMoves
    <3> QED BY <3>1, <3>2, ChildKeepsEnds, UnmovedIsSame
  <2>2. UNCHANGED <<buffer, stream>>
    BY <1>5 DEF ChildStep, Child_move_out, Child_close_parent, Child_move_in, move_fd_fails,
                Pexecx, Task_sigpipe, Exit, Stray_exit, ChildSteps
  <2>3. Cared(child[c].sid) => child'[c].hold = child[c].hold /\ (Ended(c)' <=> Ended(c))
    <3>1. CASE Task_sigpipe(c)
      <4>1. PICK e \in {fds[c][STDOUT_FILENO]} :
              /\ e = fds[c][STDOUT_FILENO] /\ child[c].pc = "run"
              /\ \/ e.end = "write" /\ Holders(Read(e.pipe)) = {}
                 \/ e.end \in {"none", "read"}
        BY <3>1 DEF Task_sigpipe, Exit, ChildSteps
      <4>2. child[c].sid \in Sids
        BY <1>5, TaskRounds
      <4>3. ~Cared(child[c].sid)
        BY <1>5, <4>1, <4>2, SigpipeNever
      <4> QED BY <4>3
    <3>2. CASE Stray_exit(c)
      BY <3>2 DEF Stray_exit, ChildSteps, PlainInv, Plain
    <3>3. CASE ~Task_sigpipe(c) /\ ~Stray_exit(c)
      <4>1. \E at, next \in {"move_out", "close_parent", "move_in", "exec", "run"} :
              child[c].pc = at /\ child' = [child EXCEPT ![c].pc = next]
        BY <1>5, <3>3 DEF ChildStep, Child_move_out, Child_close_parent,
                          Child_move_in, move_fd_fails, Pexecx, ChildSteps, AfterClose
      <4> QED BY <4>1 DEF Ended, CallInv, TypeInv, ChildRec
    <3> QED BY <3>1, <3>2, <3>3
  <2>4. Flow(tag, W, R)'
    BY <2>1, <2>2, <2>3, ChildQuiet
  <2> QED BY <1>0, <2>4
<1> QED BY <1>1, <1>2, <1>3, <1>4, <1>5

\* Every step but pipe keeps the labels.
LEMMA NextFlow ==
    ASSUME CallInv, HeldInv, WireInv, CallInv', WireInv', PidsInv, PlainInv, BufferInv,
           Failures \subseteq {"pipe", "fork"}, [Next]_vars, ~Ppopen_pipe,
           NEW tag, TagInv(tag), NEW W, NEW R, Flow(tag, W, R)
    PROVE  \E M, N \in Counts : Flow(tag, M, N)'
<1>0. W \in Counts /\ R \in Counts
  BY DEF Flow
<1>1. CASE UNCHANGED vars
  <2>1. \A c \in Children : SameChild(c) /\ (Ended(c)' <=> Ended(c))
    BY <1>1, UnmovedIsSame DEF vars, Ended
  <2>2. \A s \in Sids : Cared(s)' => Cared(s) /\ SameStream(s)
    BY <1>1 DEF vars, Cared, SameStream, Ahead
  <2>3. SameStreamsUsed /\ UNCHANGED <<buffer, child, stream>>
    BY <1>1 DEF vars, SameStreamsUsed
  <2>4. Flow(tag, W, R)'
    BY <2>1, <2>2, <2>3, FlowKept
  <2> QED BY <1>0, <2>4
<1>2. CASE Ppopen_pipe_fails \/ Ppopen_fork_fails
  <2>1. InPopen /\ Throw /\ UNCHANGED <<fds, child, buffer>>
    BY <1>2 DEF Ppopen_pipe_fails, Ppopen_fork_fails, InPopen, At
  <2>2. Flow(tag, W, R)'
    BY <2>1, ThrowFlow
  <2> QED BY <1>0, <2>2
<1>3. CASE Ppopen_fork
  <2>1. Flow(tag, W, R)'
    BY <1>3, ForkFlow
  <2> QED BY <1>0, <2>1
<1>4. CASE Ppopen_close
  <2>1. Flow(tag, W, R)'
    BY <1>4, CloseFlow
  <2> QED BY <1>0, <2>1
<1>5. CASE Ppopen_pipeline_link
  <2>1. Flow(tag, W, R)'
    BY <1>5, LinkFlow
  <2> QED BY <1>0, <2>1
<1>6. CASE Pspawn_fork
  <2>1. Flow(tag, W, R)'
    BY <1>6, SpawnForkFlow
  <2> QED BY <1>0, <2>1
<1>7. ASSUME NEW pid \in Children, Ppclose_wait(pid)
      PROVE  \E M, N \in Counts : Flow(tag, M, N)'
  <2>1. Flow(tag, W, R)'
    BY <1>7, WaitFlow
  <2> QED BY <1>0, <2>1
<1>8. CASE \/ \E mode \in Modes \ {"spawn"}, n \in 1..MaxStages :
                  Ppopen_pipeline(mode, n)
           \/ Pspawn
  <2>1. PICK mode \in AllModes, n \in Nat \ {0}, pc \in {"pipe", "fork"},
             sid \in Sids :
               Begins(sid, mode, n, pc) /\ Begun(sid, mode, n, pc)
    BY <1>8, CallsBegin
  <2>2. Flow(tag, W, R)'
    BY <2>1, BeginFlow
  <2> QED BY <1>0, <2>2
<1>9. ASSUME NEW sid \in Sids, Ppclose(sid)
      PROVE  \E M, N \in Counts : Flow(tag, M, N)'
  <2>1. Flow(tag, W, R)'
    BY <1>9, PcloseFlow
  <2> QED BY <1>0, <2>1
<1>10. ASSUME NEW sid \in Sids, Program_read(sid) \/ Program_write(sid)
       PROVE  \E M, N \in Counts : Flow(tag, M, N)'
  <2>1. CASE Program_read(sid)
    BY <1>0, <2>1, ProgramReadFlow
  <2>2. CASE Program_write(sid)
    BY <1>0, <2>2, ProgramWriteFlow
  <2> QED BY <1>10, <2>1, <2>2
<1>11. ASSUME NEW c \in Children, ChildStep(c) \/ Stray_exit(c)
       PROVE  \E M, N \in Counts : Flow(tag, M, N)'
  BY <1>11, ChildFlow
<1> QED
  BY <1>1, <1>2, <1>3, <1>4, <1>5, <1>6, <1>7, <1>8, <1>9, <1>10, <1>11
  DEF Next, CallStep, ProgramStep, Sids

\* At first nothing has gone through any pipe.
LEMMA InitFlow ==
    ASSUME Init, NEW tag, NEW W, W = [x \in Sids \X Nat |-> 0]
    PROVE  Flow(tag, W, W)
<1>1. /\ W \in Counts /\ \A s \in Sids : ~Cared(s)
      /\ \A s \in Sids : stream[s].in = 0 /\ stream[s].out = 0
  BY DEF Init, New, Sids, Cared, Counts
<1>2. \A s \in Sids : \A i \in Nat : W[<<s, i>>] = 0
  OBVIOUS
<1> QED BY <1>1, <1>2 DEF Flow, Nothing

\* At the two ends of a stream, what the pipes hold is all that is missing.
LEMMA InvDelivered ==
    ASSUME CallInv, HeldInv, WireInv, PidsInv, PlainInv, ReapInv, NEW tag, TagInv(tag),
           NEW W, NEW R, Flow(tag, W, R)
    PROVE  Delivered
<1>1. ASSUME NEW s \in Sids, stream[s].state = "closed", stream[s].mode = "w"
      PROVE  stream[s].out = stream[s].in
  <2>1. StreamFlow(tag, W, R, s)
    BY <1>1 DEF Flow, Cared
  <2>2. stream[s].pids \in Seq(Children) /\ Len(stream[s].pids) >= 1
    BY <1>1 DEF CallInv, TypeInv, StreamRec, PidsInv
  <2>3. 1 \in DOMAIN stream[s].pids
    BY <2>2
  <2>4. PICK d \in Children : d = stream[s].pids[1]
    BY <2>2, <2>3
  <2>5. TaskOf(d, s, 1) /\ child[d].pc = "reaped"
    BY <1>1, <2>3, <2>4 DEF PidsInv, ReapInv, Reaped, Sids
  <2>6. Forked(d) /\ child[d].sid = s /\ Round(d) = 1 /\ Ended(d)
    BY <2>5 DEF TaskOf, Ended
  <2>7. W[Sink(d)] = stream[s].in
    BY <2>1, <2>6 DEF StreamFlow, Finished
  <2>8. child[d].mode = "w"
    BY <1>1, <2>6, TaskRounds
  <2>9. Sink(d) = <<s, 0>>
    BY <2>6, <2>8 DEF Sink, Gives
  <2>10. W[<<s, 0>>] = stream[s].out
    BY <1>1, <2>1 DEF StreamFlow, AtEdges
  <2> QED BY <2>7, <2>9, <2>10
<1>2. ASSUME NEW s \in Sids, stream[s].state = "open", stream[s].mode = "r",
             EndOfFile(fds[0][stream[s].fd])
      PROVE  stream[s].out = stream[s].in
  <2>1. StreamFlow(tag, W, R, s) /\ R \in Counts
    BY <1>2 DEF Flow, Cared
  <2>2. stream[s].n \in Nat \ {0}
    BY <1>2 DEF CallInv, TypeInv, States, StreamRec
  <2>3. PICK k \in Pipes : k = fds[0][stream[s].fd].pipe /\ tag[k] = <<s, stream[s].n>>
    BY <1>2 DEF TagInv, OpenTags, HasTag, IsOpen
  <2>4. buffer[k] = 0 /\ Holders(Write(k)) = {}
    BY <1>2, <2>3 DEF EndOfFile
  <2>5. Holders(Inner(k, stream[s].mode)) = {}
    BY <1>2, <2>4 DEF Inner
  <2>6. PICK d \in Children : TaskOf(d, s, stream[s].n) /\ Ended(d)
    BY <1>2, <2>2, <2>3, <2>5, InnerSide
  <2>7. Forked(d) /\ child[d].sid = s /\ Round(d) = stream[s].n
    BY <2>6 DEF TaskOf
  <2>8. W[Sink(d)] = stream[s].in
    BY <2>1, <2>6, <2>7 DEF StreamFlow, Finished
  <2>9. child[d].mode = "r"
    BY <1>2, <2>7, TaskRounds
  <2>10. Sink(d) = tag[k]
    BY <2>3, <2>7, <2>9 DEF Sink, Gives
  <2>11. buffer[k] + R[tag[k]] = W[tag[k]] /\ R[tag[k]] \in Nat
    <3>1. tag[k] \in Sids \X Nat
      BY <2>2, <2>3
    <3> QED BY <2>1, <2>3, <3>1 DEF StreamFlow, InPipes, Counts
  <2>12. R[tag[k]] = stream[s].out
    BY <1>2, <2>1, <2>3 DEF StreamFlow, AtEdges
  <2> QED BY <2>4, <2>8, <2>10, <2>11, <2>12
<1> QED BY <1>1, <1>2 DEF Delivered, Sids

\* The labels and the counts exist in every state.
GhostInv == \E tag \in Tags, W \in Counts, R \in Counts : TagInv(tag) /\ Flow(tag, W, R)

\* After each step there are labels and counts again; only pipe labels anew.
LEMMA NextGhost ==
    ASSUME CallInv, HeldInv, WireInv, CallInv', WireInv', PidsInv, PlainInv, BufferInv,
           GhostInv, Failures \subseteq {"pipe", "fork"}, [Next]_vars
    PROVE  GhostInv'
<1>1. PICK tag \in Tags, W \in Counts, R \in Counts : TagInv(tag) /\ Flow(tag, W, R)
  BY DEF GhostInv
<1>2. CASE ~Ppopen_pipe
  <2>1. TagInv(tag)'
    BY <1>1, <1>2, NextTags
  <2>2. PICK M \in Counts, N \in Counts : Flow(tag, M, N)'
    BY <1>1, <1>2, NextFlow
  <2> QED BY <2>1, <2>2 DEF GhostInv
<1>3. CASE Ppopen_pipe
  <2>1. PICK k \in {UnusedPipe} : k = UnusedPipe
    OBVIOUS
  <2>2. PICK new \in {[tag EXCEPT ![k] = <<call.sid, call.i>>]} :
          new = [tag EXCEPT ![k] = <<call.sid, call.i>>]
    OBVIOUS
  <2>3. TagInv(new)'
    BY <1>1, <1>3, <2>1, <2>2, PipeTags
  <2>4. Flow(new, W, R)'
    BY <1>1, <1>3, <2>1, <2>2, PipeFlow
  <2>5. new \in Tags
    BY <2>3 DEF TagInv
  <2> QED BY <2>3, <2>4, <2>5 DEF GhostInv
<1> QED BY <1>2, <1>3

\* In the beginning no pipe has a label and nothing was counted.
LEMMA InitGhost == Init => GhostInv
<1> SUFFICES ASSUME Init PROVE GhostInv
  OBVIOUS
<1>1. PICK tag \in {[k \in Pipes |-> <<0, 0>>]} : tag = [k \in Pipes |-> <<0, 0>>]
  OBVIOUS
<1>2. PICK W \in {[x \in Sids \X Nat |-> 0]} : W = [x \in Sids \X Nat |-> 0]
  OBVIOUS
<1>3. TagInv(tag) /\ Flow(tag, W, W)
  BY <1>1, <1>2, InitTags, InitFlow
<1>4. tag \in Tags /\ W \in Counts
  BY <1>3 DEF TagInv, Flow
<1> QED BY <1>3, <1>4 DEF GhostInv

\* The inductive invariant of Delivered.
FlowInv ==
    /\ CallInv /\ ReapInv /\ HeldInv /\ WireInv
    /\ PidsInv /\ PlainInv /\ BufferInv /\ GhostInv

\* FlowInv is inductive.
LEMMA NextFlowInv ==
    ASSUME FlowInv, Failures \subseteq {"pipe", "fork"}, [Next]_vars PROVE FlowInv'
<1>1. CallInv'
  BY NextCallInv DEF FlowInv
<1>2. ReapInv'
  BY NextReapInv DEF FlowInv
<1>3. HeldInv'
  BY NextHeld DEF FlowInv
<1>4. WireInv'
  BY NextWire DEF FlowInv
<1>5. PidsInv'
  BY <1>4, NextPids DEF FlowInv
<1>6. PlainInv'
  BY NextPlain DEF FlowInv
<1>7. BufferInv'
  BY NextBuffer DEF FlowInv
<1>8. GhostInv'
  BY <1>1, <1>4, NextGhost DEF FlowInv
<1> QED BY <1>1, <1>2, <1>3, <1>4, <1>5, <1>6, <1>7, <1>8 DEF FlowInv

\* Nothing is lost between the program and the tasks, however the processes
\* interleave, and whatever pipe and fork do: a program that is started with
\* its standard descriptors, that runs tasks which can be executed and that no
\* signal interrupts in wait, reads from popen_pipeline all that went into
\* the first task before end of file, and has had all that it wrote come out
\* of the last task when pclose returns.
THEOREM ItemsDelivered ==
    ASSUME \A c \in Closed : c = {}, Failures \subseteq {"pipe", "fork"}
    PROVE  Spec => []Delivered
<1>1. Init => FlowInv
  <2> SUFFICES ASSUME Init PROVE FlowInv
    OBVIOUS
  <2>1. ReapInv
    BY DEF Init, ReapInv, WaitedSoFar, Reaped, At, Idle, New
  <2> QED
    BY <2>1, InitCallInv, InitHeld, InitWire, InitPids, InitPlain, InitGhost DEF FlowInv
<1>2. FlowInv /\ [Next]_vars => FlowInv'
  BY NextFlowInv
<1>3. FlowInv => Delivered
  BY InvDelivered DEF FlowInv, GhostInv
<1> QED BY <1>1, <1>2, <1>3, PTL DEF Spec

=============================================================================
