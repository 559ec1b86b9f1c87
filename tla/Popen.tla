-------------------------------- MODULE Popen --------------------------------
(***************************************************************************)
(* posix.popen, popen_pipeline, pclose and spawn (lib/posix/init.lua): a   *)
(* Lua program that runs the stages of a pipeline in child processes,      *)
(* joined by pipes, and keeps one end of the last pipe made.               *)
(*                                                                         *)
(* Process 0 is the program, process -1 the one that started it and that   *)
(* keeps the descriptors it passed on; the children are numbered in the    *)
(* order of their fork. Each process has a table of file descriptors; a    *)
(* child begins with a copy of its parent's. A pipe holds up to PIPE_BUF   *)
(* items and is at end of file when no process has its write end. Each     *)
(* system call is a step, so that the processes interleave between any two *)
(* (the dup2 and close of move_fd are one: the child holds the end         *)
(* throughout).                                                            *)
(*                                                                         *)
(* A task copies its standard input to its standard output until end of    *)
(* file, like cat: the task that needs all of the wiring.                  *)
(***************************************************************************)
EXTENDS Integers, Sequences, FiniteSets

CONSTANTS
    MaxFd,        \* descriptors are 0..MaxFd: the limit RLIMIT_NOFILE
    PIPE_BUF,     \* items a pipe holds
    MaxStages,    \* tasks of one pipeline
    MaxProcs,     \* forks of a behaviour
    MaxStreams,   \* calls of popen, popen_pipeline and spawn of a behaviour
    MaxOpen,      \* streams open at once
    Items,        \* items that enter a stream
    Modes,        \* values of the argument `mode', and "spawn"
    Closed,       \* sets of standard descriptors a program may start without
    Failures      \* what may fail, a subset of AllFailures

\* "raise": a task that is a Lua function raises an error.  "EINTR": a
\* signal handler interrupts wait.
AllFailures == {"pipe", "fork", "dup2", "exec", "raise", "EINTR"}

STDIN_FILENO  == 0
STDOUT_FILENO == 1

ASSUME PopenAssumption ==
    /\ MaxFd \in Nat /\ MaxFd >= 3
    /\ {PIPE_BUF, MaxStages, MaxProcs, MaxStreams} \subseteq Nat \ {0}
    /\ {MaxOpen, Items} \subseteq Nat
    /\ Modes \subseteq {"r", "w", "invalid", "spawn"}
    /\ Closed \subseteq SUBSET {STDIN_FILENO, STDOUT_FILENO}
    /\ Failures \subseteq AllFailures

Fds      == 0..MaxFd
Children == 1..MaxProcs
Procs    == -1..MaxProcs
\* As many as there are descriptors of all processes, so that one is always free.
Pipes    == 1..((MaxProcs + 2) * (MaxFd + 1))
Ends     == [end : {"read", "write"}, pipe : Pipes]
None     == [end |-> "none", pipe |-> 0]
Tty      == [end |-> "tty", pipe |-> 0]

\* ReadEnd and WriteEnd of pipe k.
Read(k)  == [end |-> "read", pipe |-> k]
Write(k) == [end |-> "write", pipe |-> k]

VARIABLES
    fds,        \* the descriptor tables
    buffer,     \* items in each pipe
    child,      \* what each child is doing
    stream,     \* the pfd tables, and the items that went in and came out
    call,       \* the call the program is in
    had         \* the program's descriptors when each call began

vars == <<fds, buffer, child, stream, call, had>>

nproc == Cardinality({c \in Children : child[c].pc # "unborn"})
nstream == Cardinality({s \in 1..MaxStreams : stream[s].state # "new"})

-----------------------------------------------------------------------------
(* The kernel, as the code uses it.                                        *)

Holders(e) == {p \in Procs : \E f \in Fds : fds[p][f] = e}

\* The lowest free descriptors, which pipe(2) returns, and an unused pipe.
FreeFds == {f \in Fds : fds[0][f] = None}
Lowest(S) == CHOOSE f \in S : \A g \in S : f <= g
UnusedPipe == Lowest({k \in Pipes : Holders(Read(k)) \cup Holders(Write(k)) = {}})

CloseFd(t, f) == [t EXCEPT ![f] = None]

\* Mistake: the descriptor is closed even when it is in its place already.
move_fd_always(t, from_fd, to_fd) ==
    CloseFd([t EXCEPT ![to_fd] = t[from_fd]], from_fd)

\* close(from_fd) after dup2(from_fd, to_fd), unless they are the same.
move_fd(t, from_fd, to_fd) ==
    IF from_fd = to_fd THEN t
    ELSE CloseFd([t EXCEPT ![to_fd] = t[from_fd]], from_fd)

AllClosed == [f \in Fds |-> None]

-----------------------------------------------------------------------------
(* The locals of Ppopen.                                                   *)

parent_fd(c) == IF c.mode = "r" THEN c.rd ELSE c.wr
child_fd(c)  == IF c.mode = "r" THEN c.wr ELSE c.rd
in_fd(c)     == IF c.mode = "r" THEN STDIN_FILENO ELSE STDOUT_FILENO
out_fd(c)    == IF c.mode = "r" THEN STDOUT_FILENO ELSE STDIN_FILENO

\* popen_pipeline forks the stages from the first to the last to read, and
\* from the last to the first to write.
Task(mode, n, i) == IF mode = "w" THEN n + 1 - i ELSE i

Idle == [pc |-> "lua", sid |-> 0, mode |-> "r", n |-> 0, i |-> 0, rd |-> 0,
         wr |-> 0, pid |-> 0]

Unborn == [pc |-> "unborn", sid |-> 0, mode |-> "r", rd |-> 0, wr |-> 0,
           prev |-> -1, task |-> 0, hold |-> FALSE]

New == [state |-> "new", mode |-> "r", n |-> 0, pids |-> <<>>, fd |-> -1,
        in |-> 0, out |-> 0, ret |-> 0]

At(at) == call.pc = at
cur == stream[call.sid]

-----------------------------------------------------------------------------
(* popen_pipeline, with popen as the pipeline of one task.                 *)

Ppopen_pipeline(mode, n) ==
    LET sid == nstream + 1 IN
    /\ At("lua")
    /\ nstream < MaxStreams
    /\ nproc + n <= MaxProcs
    /\ Cardinality({s \in 1..MaxStreams : stream[s].state = "open"}) < MaxOpen
    /\ call' = [Idle EXCEPT !.pc = "pipe", !.sid = sid, !.mode = mode,
                            !.n = n, !.i = 1]
    /\ stream' = [stream EXCEPT ![sid].state = "opening", ![sid].mode = mode,
                                ![sid].n = n]
    /\ had' = [had EXCEPT ![sid] = fds[0]]
    /\ UNCHANGED <<fds, buffer, child>>

\* error: the call is left, with whatever it has opened and forked so far.
Throw ==
    /\ call' = Idle
    /\ stream' = [stream EXCEPT ![call.sid].state = "failed"]

Ppopen_pipe_fails ==
    /\ At("pipe")
    /\ "pipe" \in Failures \/ Cardinality(FreeFds) < 2
    /\ Throw
    /\ UNCHANGED <<fds, buffer, child, had>>

\* The mode is looked at after the pipe is made.
Ppopen_pipe ==
    LET rd == Lowest(FreeFds)
        wr == Lowest(FreeFds \ {rd})
        k  == UnusedPipe
    IN
    /\ At("pipe")
    /\ Cardinality(FreeFds) >= 2
    /\ fds' = [fds EXCEPT ![0] = [@ EXCEPT ![rd] = Read(k), ![wr] = Write(k)]]
    /\ buffer' = [buffer EXCEPT ![k] = 0]
    /\ \/ /\ call.mode \in {"r", "w"}
          /\ call' = [call EXCEPT !.pc = "fork", !.rd = rd, !.wr = wr]
          /\ UNCHANGED stream
       \/ call.mode = "invalid" /\ Throw
    /\ UNCHANGED <<child, had>>

Fork(pid, pc) ==
    /\ fds' = [fds EXCEPT ![pid] = fds[0]]
    /\ child' = [child EXCEPT ![pid] =
                   [pc |-> pc, sid |-> call.sid, mode |-> call.mode,
                    rd |-> call.rd, wr |-> call.wr,
                    prev |-> IF call.i = 1 THEN -1 ELSE cur.fd,
                    task |-> Task(call.mode, call.n, call.i), hold |-> FALSE]]

Ppopen_fork ==
    /\ At("fork") /\ call.mode # "spawn"
    /\ Fork(nproc + 1, "move_out")
    /\ call' = [call EXCEPT !.pc = "close", !.pid = nproc + 1]
    /\ UNCHANGED <<buffer, stream, had>>

Ppopen_fork_fails ==
    /\ At("fork") /\ call.mode # "spawn" /\ "fork" \in Failures
    /\ Throw
    /\ UNCHANGED <<fds, buffer, child, had>>

Ppopen_close ==
    /\ At("close")
    /\ fds' = [fds EXCEPT ![0] = CloseFd(@, child_fd(call))]
    /\ call' = [call EXCEPT !.pc = "link"]
    /\ UNCHANGED <<buffer, child, stream, had>>

\* Mistake: the end of the previous pipe is not closed.
Ppopen_pipeline_link_keep ==
    /\ At("link")
    /\ stream' = [stream EXCEPT ![call.sid].fd = parent_fd(call),
                                ![call.sid].pids = Append(@, call.pid),
                                ![call.sid].state =
                                    IF call.i = call.n THEN "open" ELSE @]
    /\ call' = IF call.i = call.n THEN Idle
               ELSE [call EXCEPT !.pc = "pipe", !.i = @ + 1]
    /\ UNCHANGED <<fds, buffer, child, had>>

\* The first stage's pfd is the result of popen; for a later one the loop of
\* popen_pipeline closes the end of the previous pipe and keeps the new one.
Ppopen_pipeline_link ==
    /\ At("link")
    /\ fds' = IF call.i = 1 THEN fds
              ELSE [fds EXCEPT ![0] = CloseFd(@, cur.fd)]
    /\ stream' = [stream EXCEPT ![call.sid].fd = parent_fd(call),
                                ![call.sid].pids = Append(@, call.pid),
                                ![call.sid].state =
                                    IF call.i = call.n THEN "open" ELSE @]
    /\ call' = IF call.i = call.n THEN Idle
               ELSE [call EXCEPT !.pc = "pipe", !.i = @ + 1]
    /\ UNCHANGED <<buffer, child, had>>

-----------------------------------------------------------------------------
(* spawn: fork, run the task, and wait for it with Ppclose_wait.           *)

Pspawn ==
    LET sid == nstream + 1 IN
    /\ At("lua") /\ "spawn" \in Modes
    /\ nstream < MaxStreams /\ nproc < MaxProcs
    /\ call' = [Idle EXCEPT !.pc = "fork", !.sid = sid, !.mode = "spawn",
                            !.n = 1, !.i = 1]
    /\ stream' = [stream EXCEPT ![sid].state = "opening",
                                ![sid].mode = "spawn", ![sid].n = 1]
    /\ had' = [had EXCEPT ![sid] = fds[0]]
    /\ UNCHANGED <<fds, buffer, child>>

Pspawn_fork ==
    /\ At("fork") /\ call.mode = "spawn"
    /\ \/ /\ Fork(nproc + 1, "exec")
          /\ call' = [call EXCEPT !.pc = "wait"]
          /\ stream' = [stream EXCEPT ![call.sid].pids = <<nproc + 1>>,
                                      ![call.sid].state = "closing"]
       \/ "fork" \in Failures /\ Throw /\ UNCHANGED <<fds, child>>
    /\ UNCHANGED <<buffer, had>>

-----------------------------------------------------------------------------
(* pclose.                                                                 *)

Ppclose(sid) ==
    /\ At("lua")
    /\ stream[sid].state = "open"
    /\ fds' = [fds EXCEPT ![0] = CloseFd(@, stream[sid].fd)]
    /\ stream' = [stream EXCEPT ![sid].state = "closing"]
    /\ call' = [Idle EXCEPT !.pc = "wait", !.sid = sid, !.i = 1]
    /\ UNCHANGED <<buffer, child, had>>

\* Mistake: only the last process is waited for.
Ppclose_wait_last(pid) ==
    /\ At("wait") /\ pid = cur.pids[Len(cur.pids)]
    /\ child[pid].pc = "zombie"
    /\ child' = [child EXCEPT ![pid].pc = "reaped"]
    /\ call' = Idle
    /\ stream' = [stream EXCEPT ![call.sid].state = "closed",
                                ![call.sid].ret = pid]
    /\ UNCHANGED <<fds, buffer, had>>

\* One call of wait, for the processes of pfd.pids in turn.  What the last
\* one gives is the result.
Ppclose_wait(pid) ==
    /\ At("wait") /\ pid = cur.pids[call.i]
    /\ \/ /\ child[pid].pc = "zombie"
          /\ child' = [child EXCEPT ![pid].pc = "reaped"]
       \/ /\ "EINTR" \in Failures /\ child[pid].pc # "zombie"
          /\ UNCHANGED child
    /\ IF call.i < Len(cur.pids)
         THEN /\ call' = [call EXCEPT !.i = @ + 1]
              /\ UNCHANGED stream
         ELSE /\ call' = Idle
              /\ stream' = [stream EXCEPT ![call.sid].state = "closed",
                              ![call.sid].ret =
                                  IF child[pid].pc = "zombie" THEN pid ELSE 0]
    /\ UNCHANGED <<fds, buffer, had>>

-----------------------------------------------------------------------------
(* A child, between fork and exec.                                         *)

ChildSteps(c, at, next, table) ==
    /\ child[c].pc = at
    /\ child' = [child EXCEPT ![c].pc = next]
    /\ fds' = [fds EXCEPT ![c] = table]
    /\ UNCHANGED <<buffer, stream, call, had>>

\* dup2 fails: error unwinds out of popen, as that of a task does.
move_fd_fails(c, at, from_fd, to_fd) ==
    /\ "dup2" \in Failures
    /\ from_fd # to_fd
    /\ ChildSteps(c, at, "stray", fds[c])

Child_move_out(c) ==
    \/ ChildSteps(c, "move_out", "close_parent",
                  move_fd(fds[c], child_fd(child[c]), out_fd(child[c])))
    \/ move_fd_fails(c, "move_out", child_fd(child[c]), out_fd(child[c]))

AfterClose(c) == IF child[c].prev = -1 THEN "exec" ELSE "move_in"

\* Mistake: the child keeps the program's end.
Child_close_parent_none(c) ==
    ChildSteps(c, "close_parent", AfterClose(c), fds[c])

Child_close_parent(c) ==
    ChildSteps(c, "close_parent", AfterClose(c),
               CloseFd(fds[c], parent_fd(child[c])))

\* The function popen_pipeline gives to popen as the task of a later stage.
Child_move_in(c) ==
    \/ ChildSteps(c, "move_in", "exec",
                  move_fd(fds[c], child[c].prev, in_fd(child[c])))
    \/ move_fd_fails(c, "move_in", child[c].prev, in_fd(child[c]))

\* Pexecx: run the task; or execp fails, and the child exits; or the task is
\* a function that raises an error, and the child returns from the call of
\* popen to run a copy of the program.
Pexecx(c) ==
    \/ ChildSteps(c, "exec", "run", fds[c])
    \/ "exec" \in Failures /\ ChildSteps(c, "exec", "zombie", AllClosed)
    \/ "raise" \in Failures /\ ChildSteps(c, "exec", "stray", fds[c])

-----------------------------------------------------------------------------
(* A task, and what the program does with its end of a stream.             *)

EndOfFile(e) == e.end = "read" /\ buffer[e.pipe] = 0
                               /\ Holders(Write(e.pipe)) = {}

Exit(c) == ChildSteps(c, "run", "zombie", AllClosed)

Task_read(c) ==
    LET e == fds[c][STDIN_FILENO] IN
    /\ child[c].pc = "run" /\ ~child[c].hold
    /\ child' = [child EXCEPT ![c].hold = TRUE]
    /\ \/ /\ e.end = "read" /\ buffer[e.pipe] > 0
          /\ buffer' = [buffer EXCEPT ![e.pipe] = @ - 1]
          /\ UNCHANGED stream
       \/ /\ e = Tty /\ stream[child[c].sid].in < Items
          /\ stream' = [stream EXCEPT ![child[c].sid].in = @ + 1]
          /\ UNCHANGED buffer
    /\ UNCHANGED <<fds, call, had>>

\* End of file, which a terminal may give at any time; or an error, because
\* descriptor 0 cannot be read.
Task_eof(c) ==
    LET e == fds[c][STDIN_FILENO] IN
    /\ ~child[c].hold
    /\ e = Tty \/ EndOfFile(e) \/ e.end \in {"none", "write"}
    /\ Exit(c)

Task_write(c) ==
    LET e == fds[c][STDOUT_FILENO] IN
    /\ child[c].pc = "run" /\ child[c].hold
    /\ child' = [child EXCEPT ![c].hold = FALSE]
    /\ \/ /\ e.end = "write" /\ Holders(Read(e.pipe)) # {}
          /\ buffer[e.pipe] < PIPE_BUF
          /\ buffer' = [buffer EXCEPT ![e.pipe] = @ + 1]
          /\ UNCHANGED stream
       \/ /\ e = Tty
          /\ stream' = [stream EXCEPT ![child[c].sid].out = @ + 1]
          /\ UNCHANGED buffer
    /\ UNCHANGED <<fds, call, had>>

\* SIGPIPE; or an error, because descriptor 1 cannot be written.
Task_sigpipe(c) ==
    LET e == fds[c][STDOUT_FILENO] IN
    /\ child[c].hold
    /\ \/ e.end = "write" /\ Holders(Read(e.pipe)) = {}
       \/ e.end \in {"none", "read"}
    /\ Exit(c)

\* The copy of the program may exit.
Stray_exit(c) == ChildSteps(c, "stray", "zombie", AllClosed)

Program_read(sid) ==
    LET e == fds[0][stream[sid].fd] IN
    /\ At("lua") /\ stream[sid].state = "open" /\ stream[sid].mode = "r"
    /\ e.end = "read" /\ buffer[e.pipe] > 0
    /\ buffer' = [buffer EXCEPT ![e.pipe] = @ - 1]
    /\ stream' = [stream EXCEPT ![sid].out = @ + 1]
    /\ UNCHANGED <<fds, child, call, had>>

Program_write(sid) ==
    LET e == fds[0][stream[sid].fd] IN
    /\ At("lua") /\ stream[sid].state = "open" /\ stream[sid].mode = "w"
    /\ stream[sid].in < Items
    /\ e.end = "write" /\ Holders(Read(e.pipe)) # {}
    /\ buffer[e.pipe] < PIPE_BUF
    /\ buffer' = [buffer EXCEPT ![e.pipe] = @ + 1]
    /\ stream' = [stream EXCEPT ![sid].in = @ + 1]
    /\ UNCHANGED <<fds, child, call, had>>

-----------------------------------------------------------------------------
\* The descriptors the program was started with.
StdFds == fds[-1]

Init ==
    /\ \E c \in Closed :
          LET std == [f \in Fds |-> IF f \in {0, 1} \ c THEN Tty ELSE None]
          IN fds = [p \in Procs |-> IF p \in {-1, 0} THEN std ELSE AllClosed]
    /\ buffer = [k \in Pipes |-> 0]
    /\ child = [c \in Children |-> Unborn]
    /\ stream = [s \in 1..MaxStreams |-> New]
    /\ call = Idle
    /\ had = [s \in 1..MaxStreams |-> AllClosed]

CallStep ==
    \/ Ppopen_pipe \/ Ppopen_pipe_fails
    \/ Ppopen_fork \/ Ppopen_fork_fails
    \/ Ppopen_close \/ Ppopen_pipeline_link
    \/ Pspawn_fork
    \/ \E pid \in Children : Ppclose_wait(pid)

ChildStep(c) ==
    \/ Child_move_out(c) \/ Child_close_parent(c) \/ Child_move_in(c)
    \/ Pexecx(c)
    \/ Task_read(c) \/ Task_eof(c) \/ Task_write(c) \/ Task_sigpipe(c)

ProgramStep ==
    \/ \E mode \in Modes \ {"spawn"}, n \in 1..MaxStages :
            Ppopen_pipeline(mode, n)
    \/ Pspawn
    \/ \E sid \in 1..MaxStreams :
            Ppclose(sid) \/ Program_read(sid) \/ Program_write(sid)

Next ==
    \/ CallStep \/ ProgramStep
    \/ \E c \in Children : ChildStep(c) \/ Stray_exit(c)

\* Every process runs on: a call of the program that can proceed does, and
\* so does a task.  Nothing makes the program call pclose or use its stream.
Fairness == WF_vars(CallStep) /\ \A c \in Children : WF_vars(ChildStep(c))

Spec == Init /\ [][Next]_vars

FairSpec == Spec /\ Fairness

-----------------------------------------------------------------------------
(* Properties.                                                             *)

\* The stage of stream s that runs task i, if it has been forked.
Stage(s, i) == {c \in Children : child[c].sid = s /\ child[c].task = i}

\* A task's standard input and output are the ends of pipes of its own stream:
\* it reads what the task before it writes, and the program holds the outer
\* end.  All else, and the standard descriptor of a task at the other edge of
\* the pipeline, is what the program had when it called popen_pipeline: a task
\* keeps no other end of its own stream's pipes, which would keep its
\* neighbours from reaching end of file.
Wired ==
    \A c \in Children : child[c].pc = "run" /\ child[c].mode # "spawn" =>
        LET s == stream[child[c].sid]
            t == child[c].task
            stdin  == fds[c][STDIN_FILENO]
            stdout == fds[c][STDOUT_FILENO]
        IN /\ IF s.mode = "r" \/ t < s.n THEN stdout.end = "write"
                                         ELSE stdout = had[child[c].sid][STDOUT_FILENO]
           /\ IF s.mode = "w" \/ t > 1 THEN stdin.end = "read"
                                       ELSE stdin = had[child[c].sid][STDIN_FILENO]
           /\ \A d \in Stage(child[c].sid, t + 1) :
                  child[d].pc = "run" =>
                      fds[d][STDIN_FILENO] = [stdout EXCEPT !.end = "read"]
           /\ s.state = "open" =>
                  /\ s.mode = "r" /\ t = s.n => fds[0][s.fd] = Read(stdout.pipe)
                  /\ s.mode = "w" /\ t = 1 => fds[0][s.fd] = Write(stdin.pipe)
           /\ \A f \in Fds \ {STDIN_FILENO, STDOUT_FILENO} :
                  fds[c][f] = had[child[c].sid][f]

\* Unless a call has failed, the program holds no descriptor but those it
\* started with and one for each open stream.
ParentHolds ==
    At("lua") /\ (\A s \in 1..MaxStreams : stream[s].state # "failed") =>
        \A f \in Fds : fds[0][f] # StdFds[f] =>
            \E s \in 1..MaxStreams : stream[s].state = "open" /\ stream[s].fd = f

\* pclose and spawn return only when every process they started has ended
\* and has been waited for.
Reaped ==
    \A s \in 1..MaxStreams : stream[s].state = "closed" =>
        \A i \in DOMAIN stream[s].pids : child[stream[s].pids[i]].pc = "reaped"

\* Nothing is lost on the way: what the program wrote has come out of the
\* last task when pclose returns, and what went into the first task has been
\* read when the program sees end of file.
Delivered ==
    \A s \in 1..MaxStreams :
        /\ stream[s].state = "closed" /\ stream[s].mode = "w" =>
               stream[s].out = stream[s].in
        /\ stream[s].state = "open" /\ stream[s].mode = "r"
               /\ EndOfFile(fds[0][stream[s].fd]) =>
               stream[s].out = stream[s].in

\* Every call of popen_pipeline and spawn returns, and so does pclose of a
\* stream when no stream that was made after it is open: a task reaches end of
\* file, or fails to write, once its neighbour is gone.  (The children of a
\* later stream hold the program's end of an earlier one, so that pclose of the
\* earlier one may wait for ever.)
CallsReturn ==
    \A s \in 1..MaxStreams :
        (/\ ~At("lua") /\ call.sid = s
         /\ At("wait") =>
              \A t \in 1..MaxStreams : t > s => stream[t].state # "open")
        ~> At("lua")

=============================================================================
