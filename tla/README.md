# luaposix in TLA+

luaposix binds the POSIX interface to Lua.  Most of its functions check their
arguments, make one request of the system and push the result; a few carry
logic of their own: the queue of signals, pipelines, mode strings, the arithmetic
of times, the table of `poll`, iterators, the table `posix` itself.  This project
models both kinds: each piece of logic as a module, and the many small bindings
as one module, `Binding`, that runs a record of the steps of each function.

Modules are checked with TLC (`tlc -config X.cfg M`) and proved with TLAPS
(`tlapm M.tla`).  `PROJECT.json` lists components, runs, the lines of the
source each definition stands for, the mistakes that each property catches,
hazards and theorems.

## 1. Inventory

| component | source | state | operations | what is hard | what makes it correct |
|---|---|---|---|---|---|
| posix.signal | `ext/posix/signal.c` | an array of 25 queued signals, its count, two guards, the debug hook, a registry table of Lua functions; the kernel's mask, pending set and dispositions | `signal`, `raise`, `kill`, `killpg`; the C handler `sig_postpone`; the hook `sig_handle` | the C handler interrupts anything; a handler can fail, or call `signal` | no write out of the array, no queued signal without a hook or a function, each handled once, the mask restored |
| pipelines | `lib/posix/init.lua` with `ext/posix/unistd.c`, `ext/posix/sys/wait.c` | descriptor tables of the program and its children, `pfd` tables | `popen`, `popen_pipeline`, `pclose`, `spawn`, `execx` | children run at once with the program; an end of a pipe kept anywhere keeps everybody waiting; every call can fail | tasks joined in order, nothing lost, nothing kept, calls return |
| timeval arithmetic | `lib/posix/init.lua` | none across calls, but results are fed back | `timeradd`, `timersub`, `timercmp` | two forms of table, carries and borrows | no time gained or lost |
| file modes | `lib/posix/compat.lua`, `lib/posix/_base.lua`, `ext/posix/sys/stat.c` | the file creation mask, the modes of files | `umask`, `chmod`, `creat`, `open`, `mkdir`, `mkfifo`, `msgget` | the mask is read by setting it; mode strings in three notations | a query leaves the mask alone; strings mean what they say |
| bindings | every file of `ext/posix`, `ext/include/_helpers.c`, `openpty` of `init.lua` | `errno`; buffers and descriptors a function holds while it runs | 145 functions, and `openpty` | `errno` is shared and anything may change it; buffers on error paths; results narrowed to int | nothing kept, failures and successes told apart, errors about arguments before effects |
| poll | `ext/posix/poll.c` | a Lua table copied to a C array and back | `poll`, `rpoll` | a static array of 16 or an allocated one; `revents` written only when something is ready; two walks over the table | flags are those last reported, each at its own descriptor |
| iterators | `ext/posix/dirent.c`, `grp.c`, `pwd.c`, `getopt` in `unistd.c` | an open directory in a userdata; the C library's one cursor for groups, users and options | `dir`, `files`, `getgrent`, `getpwent`, `set*`, `end*`, `getopt` | two iterations share one cursor; the collector and the end both close | closed once, each entry once |
| structs | `termio.c`, `time.c`, `sys/resource.c`, `sys/socket.c`, `sys/msg.c`, `fcntl.c`, `_helpers.c` | a table the program keeps and edits | pairs such as `tcgetattr` and `tcsetattr`; `fcntl` with a lock | widths, signs, missing and unknown fields | what was read can be written back, or is refused |
| namespace | `lib/posix/init.lua`, `deprecated.lua`, `compat.lua`, the function tables of every C file | the table `posix` | merging of the submodules, the wrappers over them, `__call` of submodules | the order of merging decides who wins; what is built depends on the platform | no clash; old programs get the function they know |

Components interact by plain calls: `init.lua`, `compat.lua` and
`deprecated.lua` call the C bindings, which call the system.  Three things cross
these lines.  A Lua signal handler can run between any two Lua instructions,
hence inside any function written in Lua (section 6 says what that means for
`umask`).  A system call can be interrupted by a signal, which `pclose` meets in
`wait` (`Popen`) and `poll` returns as an error (`Poll`).  And `errno` is one
variable: each function meets what the ones before it left (`Binding`,
`Cursor`).

## 2. Modules

| module | models | TLC | proofs |
|---|---|---|---|
| `Signal` | `signal.c` | `MCSignal` | `SignalProofs` |
| `SignalQueue` | what `Signal` promises | | |
| `Popen` | pipelines | `MCPopen` | `PopenProofs` |
| `TimeVal` | arithmetic of times | `MCTimeVal` | `TimeValProofs` |
| `FileMode` | mode strings, the mask | `MCFileMode` | `FileModeProofs` |
| `Binding`, `Calls` | how a binding runs; the bindings | `MCBinding` | `BindingProofs` |
| `Poll` | `poll.c` | `MCPoll` | `PollProofs` |
| `Cursor` | directories, databases, `getopt` | `MCCursor` | `CursorProofs` |
| `Exports`, `Namespace` | names of the submodules; their merge | `MCNamespace` | |
| `Marshal` | structs as tables | `MCMarshal` | `MarshalProofs` |

An operator under a comment that begins with "Mistake:" is the mutated form of
the definition that follows it; nothing else uses it.

### Signal

One thread.  `frames` is the stack of activations of `sig_postpone` that have
interrupted it; the interpreter (`pc`) moves only when it is empty.

| model | code |
|---|---|
| `pending`, `blocked`, `disp`, `resethand` | the kernel's view of the process |
| `signal_count`, `signals`, `defer_signal`, `signal_pending` | the globals of the same names |
| `hook` | `lua_sethook(signalL, sig_handle, ...)` is in force |
| `handlers` | the registry table keyed by `&signalL` |
| `sig_postpone_*` | one step for each access to a shared variable in `sig_postpone` |
| `Psignal`, `Psignal_*` | argument switch; `sigaction`; `lua_rawset`; the result |
| `HookFires`, `sig_handle_*`, `HandlerEnds` | the hook, one step for each access, the Lua handler in between |
| `top` | what `lua_gettable(L, -2)` will find: the table, or the error value of a handler that failed |
| `lost` | history: a signal was taken from the array and its function not called |

A Lua handler may call `raise` and `signal` as any code may; Lua runs no hook
inside a hook (`inhook`).  A handler ends in one of three ways, because the
loop behaves differently after each: it returns, raises a value that can be
indexed (a string), or one that cannot (`error(nil)`, `error(1)`).

`SignalQueue` is the abstract specification: a bounded stack, `Catch`, `Call`
and `Return`.  `Signal` implements it under the mapping `Stack`, `Calling`.

### Popen

Each system call is a step of the process that makes it.  A process has a table
of descriptors, a pipe a count of items; a read end is at end of file when no
process holds the write end, and a write end gives SIGPIPE when none holds the
read end.  `Ppopen_pipe`, `Ppopen_fork`, `Ppopen_close` and
`Ppopen_pipeline_link` are the parent's side of one round of
`popen_pipeline`; `Child_move_out`, `Child_close_parent`, `Child_move_in` and
`Pexecx` the child's.  `popen` is the pipeline of one task.  `Ppclose` closes,
then `Ppclose_wait` is one call of `wait`; `spawn` forks and waits the same
way.  A task copies its input to its output: it needs all of the wiring, and
ends only when the wiring lets it.  What can fail is a constant, `Failures`.

A child whose Lua task raises an error, or whose `dup2` fails, unwinds into the
caller of `popen`; it is modelled as a process that holds what it holds until it
exits (`"stray"`).  `had` is history: the program's descriptors when each call
began, which are those its children may keep.
The argument `pipe_fn` is always `pipe`.

### TimeVal

`timeradd` and `timersub` with their loops step by step, the result fed back as
the next argument.  A missing field is `nil`.

### FileMode

A mode is the set of its bits, a mode string a record of the notation it is in,
split as the patterns of `mode_munch` split it.  The patterns do not see a clause
without a class, and join it to the class of the next one, which is then not
seen either (`Lost`); an empty string of digits is no mode.  `umask` is four
steps (`umask_read`, `umask_restore`, `umask_munch`, `umask_push`), `chmod` is
two, and the call of `open` in `creat` and `open` may fail.  `before` is the mask
when the last call of `umask` began.

### Binding and Calls

A function is a record: its steps in the order of the source, what its system
call may return, and how the result is pushed.  `Calls` has one record for each
C function, and for `openpty`, which is made of five of them.  `getaddrinfo` and
`glob` fail with a number of their own, one of `Codes`, and return that.

| step | code |
|---|---|
| `args` | `checknargs`, `checkint`, `checktable`...: go on, or raise an error |
| `hint` | `pathconf` in `getcwd`, before the arguments are counted |
| `zero` | `errno = 0` |
| `alloc`, `free` | `lua_getallocf` and `lalloc`; `free`, `globfree`, `freeaddrinfo` |
| `conv` | an error found in the arguments that is returned with the present `errno` |
| `islink`, `slice` | the tests of `readlink` and `write` |
| `peek`, `sys`, `make` | a call that only looks, one that changes something, one that returns memory or a descriptor |
| `set` | `set_errno` |
| `close` | `close(master)` of `openpty` |
| `push` | `pusherror`, `pushresult` and its relatives |

`held` counts what was taken and not given back.  `failed`, `done` and `asked`
are history: the error of the system call that failed, whether the system was
asked to change anything, whether it has answered.  A result that is wider than
int is narrowed by `toint`.  `free`, when there is something to free, and
`close` may set `errno`.  A `realpath`, `glob` or `getaddrinfo` that failed is
taken to have left nothing to free: their failure is pushed at once.

### Poll

`fds` is the program's table, `ready` the kernel's; both change between the
steps of a call (`Change`) or of the program (`Edit`).  `Ppoll` is the check, the
count and the first walk; `poll` the system call, which may report, time out or be
interrupted; `Ppoll_write` the second walk, taken only for a positive result;
`Ppoll_push` the result.  The order in which `lua_next` visits the table is any
order, the same in both walks.  `told` remembers what the kernel reported.

### Cursor

Three parts that share `errno`.  A `files` iterator has a stream in its
userdata (`p`); `aux_files` reads or closes, `dir_gc` is the collector, which
runs when it likes once the program has let go (`Drop`).  A stream that was
closed may be opened again by another iterator, so a stale pointer would matter.
`dir` reads a whole directory between two of its own steps.  `getgrent` and
`getpwent` move the C library's cursor and look at `errno`, which other calls
leave at any value.  `getopt` shares `optind` and the place inside a word.

### Exports and Namespace

`Exports` lists the names each C file defines, with the preprocessor condition
each depends on, as 10 features.  `Namespace` goes through `init.lua`: `merge`
copies one submodule (and asserts there is no clash), `inject_deprecated` and
`inject_compat` lay the wrappers over it, `preload` puts the submodules in and
gives each a `__call` when a function had its name, `last` adds `sys` and
`version`.

### Marshal

A kind of struct is a record: each field with its C type, the type it goes
through on the way from Lua, and whether it is needed; the names that are only
given, those only allowed, and whether others are refused.  `Get` makes a table
from a struct, `Edit` is the program, `Set` takes the table.  A field that the
table does not have is 0 in what `Set` gives to the system, where the code clears
the struct (the link-layer address but for its index: `cleared`), or is what was on
the stack (`c_line`: `stale`).  The speeds of a terminal are the lowest bits of its
`cflag`: `cfsetispeed` and `cfsetospeed` are those of the GNU C library, which
refuse a speed that has other bits, and whose result `tcsetattr` does not look at.
`Pfcntl` is apart:
it writes back into the table it was given.  Which structs the system gives, what
the program assigns and which locks it asks for are constants: a few for TLC, any
for the proofs.

## 3. Runs

| run | expects | shows |
|---|---|---|
| `signal_interleavings` | pass | with two signals at any step, two slots, and handlers that end in every way: types and bounds of the array (`TypeOK`, `WritesInBounds`), `sig_postpone` never interrupts itself (`NeverDeferred`), no lost wakeup (`QueueHooked`), every queued signal has its function (`HandlerKnown`) |
| `signal_delivery` | pass | when handlers return: no signal dropped from the queue (`NoneLost`), the mask restored (`MaskRestored`), the abstract stack implemented (`ImplementsQueue`), and every queued signal handled (`QueuedIsHandled`) |
| `signal_mask_lost` | violation of `MaskRestored` | a handler raises `error(nil)` with another signal queued: the hook is left by an error and all signals stay blocked |
| `popen_pipelines` | pass | pipelines of up to three tasks, both modes, and `spawn`, two streams open at once: `Wired`, `ParentHolds`, `Reaped`, `Delivered`, and every call returns but `pclose` of a stream while a later one is open (`CallsReturn`) |
| `popen_failures` | pass | `Wired` when `pipe`, `fork`, `dup2`, `execp`, a task or `wait` fails or the mode is invalid, two streams open at once, by a program with or without standard input |
| `timeval_arithmetic` | pass | `ChainExact`, `SubRestores`, `CompareExact` |
| `file_modes` | pass | `ReturnDescribesMask`, `QueryKeepsMask`, `ChmodKeepsOthers` |
| `binding_calls` | pass | for every function on every path, with any `errno` before it: nothing kept (`NothingHeld`), failures and successes reported as such, with the number of the call that failed where nothing was freed in between (`FailureReported`, `SuccessReported`), errors about arguments before effects (`RaiseHasNoEffect`), `write` passes on what it was asked to (`WriteSlice`) |
| `poll_tables` | pass | over any sequence of calls and edits: `FlagsReported`, `ReturnCounts`, `ListFits` |
| `iterators` | pass | `StreamsOwned`, `FilesInOrder`, `LoopWhole`, `OwnOptions` |
| `namespace` | pass | on 22 platforms: `NoClash`, `LegacyCalled` |
| `struct_tables` | pass | for 11 kinds of struct: which tables that were read are taken again and what the system is then given (`RoundTrip`), what it is given of a table that was edited (`SetExact`), and `LockKept` |

### Bounds

Signals: two, because every race is between one signal and the interpreter or
between two signals, and two slots so that the array is empty, partial and
full.  One Lua function: which function is stored does not steer the code.
`signal_delivery` leaves out SA_RESETHAND to keep the liveness check short; the
other run and the theorems have it.

Pipelines: three tasks, so that there is a first, a middle and a last one; pipes
of one item, so that every writer can block; two items; three forks, which one
pipeline may use or two streams share.  Two streams may be open at once, so that
the children of the second inherit an end of the first.  There are as
many pipes as descriptors of all processes, so they never run out.  Descriptors
end where the pipelines need them, which makes `pipe` fail in `popen_failures`.

Times: a second of three units and times up to two seconds meet every carry
and borrow; four calls.  Modes: eleven strings, in every notation, accepted and
refused, and three files.

Bindings: an int of three bits and results one bit wider, so that each kind of
narrowing happens; two error numbers, `EINVAL` among them, and two codes of
`getaddrinfo` and `glob`, a negative one and a positive; a string of three
bytes, with offsets and counts from two below 0 to one past its end.  A call
begins from any `errno`, so sequences of any length are covered.

Poll: two descriptors and a static array of one entry, so that tables are below,
at and above its size; one flag that is asked for and one that is always
reported.

Iterators: two, with three streams, so that a stream is reused while another is
open; directories and databases of two entries; two command lines with words of
one and two letters and an operand.  States in which both `getopt` and another
part are at work are not explored further (`OnePart`): they share nothing and no
property is about both.  Iterators, streams and loops are symmetric.

Namespace: all features, none, all but one, and one alone; names depend on one
feature each.  Structs: widths of two, three and four bits keep the order of
short, int and long, and leave a speed of two bits below the top bit of a flag
word; fields at the least, middle and greatest value; edits that put in nothing, no
number, -1, 0, 2 or the greatest number; one edit.

Deadlock is not checked where the program may stop: in `Popen` and `TimeVal`
the bounds on calls stop it (a call of `Popen` that hangs violates
`CallsReturn`, but for the case that it leaves out), `_exit`, `abort` and a successful `exec` end it in `Binding`,
`require` ends in `Namespace`, and `OnePart` cuts states off in `Cursor`.

### Fairness

`Signal`: the kernel delivers a signal that is pending and not blocked; the
thread goes on; a Lua handler ends.  Strong fairness for the interpreter says
that a storm of signals, each of which interrupts it for a few instructions,
does not stop it for good.  `Popen`: every process that can make a step does;
nothing makes the program use or close its stream.  The other modules state
safety only.

## 4. Proofs

`SignalProofs` proves, for any set of signals and functions, any number of
slots and every way for handlers to end: `TypeOK`, `NeverDeferred`,
`WritesInBounds`, `QueueHooked`, `HandlerKnown`.  With the assumption that no
handler raises a value that cannot be indexed it proves `MaskRestored`, and
with the assumption that handlers return, `NoneLost`; the violation run shows
the first assumption is needed.  None of these is inductive.  The inductive
invariant says where each thing may be: while an activation of `sig_postpone`
is on the stack every signal is blocked, so there is at most one and
`defer_signal` follows its position; a count that is about to be raised is
below the maximum and its slot holds a signal; inside the hook every signal is
blocked, so the loop is not interrupted; a signal in the queue has a function,
or is the one `Psignal` is about to store; the hook is installed when the queue
is not empty, except in the steps of `sig_postpone` that are about to install it
and in the loop.

`RefinesQueue` proves `ImplementsQueue`, with the assumption that handlers
return: the initial states map to an empty stack, and each action of `Signal`
is matched with one of `SignalQueue` or with none.  The step of
`sig_postpone` that raises the count is `Catch` (the slot stored just before is
not yet part of the stack), the step of the loop that takes a signal is `Call`,
the end of its handler is `Return`.  The steps in between need the invariant
above: that the slot read is the one written, and that nothing interrupts
the loop.

`PopenProofs` is about pipelines of any length, any number of streams,
processes and descriptors, pipes of any capacity and every failure.  Its
invariant has four layers, each needed by the next.

* `CallInv`: types; processes and streams are numbered without gaps (`InTurn`);
  what the locals of `popen_pipeline`, `pclose` and `spawn` have to do with the
  stream they are about (`Loop`, `Waits`, `States`), with a reserve of processes
  for the rounds to come.  With `WaitedSoFar` (the processes before the present
  one have been waited for) it gives `Reaped`, if no signal interrupts `wait`;
  section 6 says why that is needed.
* `HeldInv`: every descriptor that a call or an open stream refers to is open
  and is the end it should be (`EndsHeld`), no two refer to the same
  (`HeldOnce`), and while no call has failed no other is open (`NoneElse`).  It
  gives `ParentHolds`, whichever standard descriptors are closed.
* `WireInv`: each child was forked in one round of its stream's loop (`Place`);
  between `fork` and `exec` it has both ends it will need, wherever they are by
  now (`OutEnd`, `InEnd`, `Moving`); children of neighbouring rounds have the two
  ends of one pipe (`Joined`); the last one has the other end of what the program
  keeps (`Outermost`).  A child's steps move ends and do not change them
  (`ChildKeepsEnds`), and the program's steps keep what the children are joined by
  (`WireStep`), so only `fork` has to establish anything.
* `HadInv`: while a call runs, the program has what it had when the call began,
  but for the ends of that call's own pipes that it still needs, and a child has
  what the program had and what it has not yet moved or closed of those ends.  At
  `exec` none is left (`ChildHad`), so a task has no descriptor but its own two and
  those of the caller.

  Together they give `Wired` for a program that is started with both standard
  descriptors.  Without standard output `Wired` does not hold (section 6); without
  standard input it does, which TLC checks.

`ItemsDelivered` proves `Delivered` for any number of tasks, streams, items and
descriptors and pipes of any capacity, also when `pipe` or `fork` fails.  Its
assumptions are that the program is started with both standard descriptors, as
for `Wired`, that tasks can be executed and raise no error, since a task that
does not run takes no input, and that no signal interrupts `wait`, since `pclose`
would return too early.  The state does not say how many items have ever gone
into a pipe, nor which stream it was made for, so the invariant `FlowInv` states
that such numbers exist (`GhostInv`): a label for each pipe, the stream and the
round of the loop that made it (`TagInv`: the ends that a task is wired to and
those that the program keeps are of the pipes with the labels of their rounds), and
for each stream and round what was put into its pipe and what was taken from it.  They satisfy, in
every state (`Flow`):

* a pipe has as many items in it as were put in and not taken out (`InPipes`), at
  the edges these are what the program wrote and read (`AtEdges`), and the pipes
  of rounds still to come have seen none (`Untouched`);
* a task has written all that it has read but the item in its hand (`Copies`);
* a task that has ended has passed on all that went into the stream, and so have
  the tasks before it (`Finished`).

The last one is where the descriptors come in.  A task ends at end of file only
when nobody holds the write end of its input: then the task before it has ended
(it would hold its end: `WireInv`, `PlainInv`), or, for the first task of a
pipeline that is written, the program has closed the stream.  It ends on SIGPIPE
only when nobody holds the read end of its output: the task after it would have
to have ended first, and that one has all the items; or the program has closed a
stream that it read, whose items need not arrive (`Cared`).  `PidsInv` gives each round one
process, so that "every process was waited for" of `Reaped` is "every task has
ended" here.  That there is always a pipe to give out follows from a pigeonhole
argument: there are as many pipes as descriptors of all processes.

`TimeValProofs` proves `ChainExact`, `SubRestores` and `CompareExact` for every
length of a second: the invariant relates the locals in mid-loop to the amount
already owed, and a carry or a borrow does not change it; `UsecInv` bounds the
microseconds, without which equal amounts could be written in two ways.

`FileModeProofs` proves `QueryKeepsMask` and `ReturnDescribesMask` for every set of
mode strings: between the two system calls of `umask` the local holds the mask
that was there, after them the mask is that one until a string is accepted, and
the string that is pushed is read back as the mask it was made from.
`ChmodKeepsOthers` is proved for strings of any number of clauses: what
`mode_munch` has computed after each clause is a function over their numbers,
and the set of the numbers up to which the other classes are untouched contains
0 and the successor of each of its members (`SetInduction`).

`BindingProofs` proves `TypeOK`, `NothingHeld`, `RaiseHasNoEffect`
and `WriteSlice` for any set of functions that satisfies
`OrderAssumption`: between a step that takes something and any place where the
function can be left there is a step that gives it back, and no argument is
checked after the system was changed.  `FailureReported` and `SuccessReported`
need `ReportAssumption` too: after a call a function does nothing that sets
`errno` but give back what it took, it ends by pushing the result, the test it is pushed with suits what the
call returns, and a lookup that may leave `errno` alone comes right after
`errno = 0`.  TLC evaluates both assumptions on every record of `Calls`.  The
invariant `HeldInv` says that something is held only between a step that takes
and the next that gives back, `DoneInv` that the system was changed only by a
step that has been passed; `SliceInv` follows the bytes of `write`, for strings
of every length, to the return; the rest follows the answer of the system from
the call to the push.  Where a buffer is freed on the way `FailureReported` says
that the failure is reported, and not with which number (section 6).

`PollProofs` proves `FlagsReported`, `ListFits` and `ReturnCounts` for any set of
descriptors, any order of visit and any size of the static array: the array
matches the table (`Converted`), what the kernel wrote is what `told` has
(`Reported`), and the table is up to date when no write is due (`UpToDate`); the
entries that are counted are then the same set in the array and in the table.

`CursorProofs` proves `StreamsOwned` and `FilesInOrder` for any number of
iterators and streams, and `LoopWhole` for databases of any length.  `DirInv`
adds to the properties that an iterator that is not live or dropped has no
stream, and `DbInv` that the entries of the present loop are those up to the cursor.
It proves `OwnOptions` for any set of command lines of any length: the options
asked for are at every moment those given so far followed by those left in the
command line (`OptSplit`), where what is left is the rest of the word that the C
library is in and the words from `optind` on up to the first operand.  The options of
a command line are the concatenation of its words, a recursive definition of the
library; what is needed of it (of no words, of a word and more words) is proved
from the least length at which it would fail.

`MarshalProofs` proves `RoundTrip`, `SetExact` and `LockKept` for every width of
short, int, long and speeds, equal ones included, and for every struct, edit and
lock.
Each assignment in C changes a number by a multiple of the number of values of
the type (`ToIs`); the narrower size divides the wider one, so the way through Lua
changes it by a multiple of the field's size (`TakenThrough`), and two values of
the field that differ so are the same (`OnlyOne`).  That each field goes through a
type at least as wide is shown kind by kind (`SoundKinds`).  For a terminal the speeds are followed
through the two calls that set them (`TermiosSet`): each replaces the lowest bits of
the flags and leaves the rest (`SpeedSet`), so what was read is set as it was, the
speeds that `tcgetattr` gives being those of the flags.  The two tables that are
refused are `Refused`.  The prover knows
nothing of exponents; the three laws about powers of two that are used are the
assumption `PowersOfTwo`, which TLC evaluates.

The other assumptions are those on the constants: `PopenAssumption`,
`BindingAssumption`, `StructAssumption` (a field of a struct has a value of its
type, and the speeds of a terminal are those of its flags), `LockAssumption` and the like, all evaluated by TLC.

Model-checked only: liveness (`QueuedIsHandled`, `CallsReturn`), which is out of
the prover's reach; `Wired` and `Delivered` without standard input; and
`NoClash` and `LegacyCalled` of `Namespace`, which are about a finite list of
names that TLC goes through.

## 5. Hazards

`PROJECT.json` lists them at the line where they bite.  Most are of four kinds:
a step of another process, of the collector or of the C signal handler between
two lines; an early exit, by error or by return, that skips what follows;
`errno`, or a cursor, left over from another call; and a value at its boundary.
Not covered: several Lua states or coroutines (`signalL` is the one that loaded
the module last), a file changed between `chmod`'s two system calls, the
clean-up that a failing `popen` does not do, a signal handler between the two
system calls of `umask`, the order of `next` in the two walks of `poll`, which is
taken from Lua, and those that go wrong in the way the next section says.

## 6. Observed divergences

What the code does where a reader of its documents might expect something else.
The run `signal_mask_lost` shows the first; the models have the others as the
code has them, and the properties say where they stop.

Signals.  A handler that raises a value that cannot be indexed leaves every
signal blocked; one that raises a string makes the signals queued below it be
dropped.  `signal` returns the new handler when it replaces a Lua function.
Giving back a C handler of the host reads the wrong upvalue and installs
SIG_DFL.

Pipelines.  The children of a stream inherit the ends of every stream that is
open: when a stream to write and then another are open, `pclose` of the first closes
the program's end only, its task never sees end of file while the later children
run, and the call waits for ever if those wait for the program.  A program without
standard input gets, from its first `popen` to read, the number 0 for the read end,
and its later children have that as their standard input.  The status of a pipeline that
is written is the first task's.  A program without standard output gets a child
that closes its own end, because `close(parent_fd)` comes after `move_fd`.  A
`wait` interrupted by a signal makes `pclose` skip that child.

Times and modes.  `timeradd` leaves a sum of exactly 1000000 microseconds
unadjusted, and `timercmp` takes it for less than the same amount adjusted.
`umask` is documented to return the previous mask (`@treturn string previous umask`,
`compat.lua:268`); after a change it returns the new one, as the tests expect
("it returns current umask", `spec/posix_compat_spec.yaml:192`, and `umask "a=r"`
giving `"r--r--r--"`), and `ReturnDescribesMask` states that.  `umask` reads the
mask by setting it to 0: a signal handler between the two system calls creates
files without a mask, and one that raises leaves the mask 0; nothing in the code
guards against it.  `chmod` refuses the documented `'+x'`; `msgget` refuses its
documented default mode.

Bindings.  `read`, `recv`, `recvfrom`, `getcwd`, `mkdtemp`, `mkstemp`, `msgsnd` and
`msgrcv` free a buffer after the call has failed and before they read `errno`; an
allocator that sets `errno` changes the number they return.  The number that
`getaddrinfo` returns, documented as an errnum, is not one of `errno`.  `posix_fadvise` returns an error number and the wrapper looks at
`errno`.  `lseek` is narrowed to int, and `nice` reports -1 as a failure;
`pathconf` and `sysconf` push -1 for a failure.  `readlink` of a file that is no
link returns EINVAL and leaves `errno`.  A bad address in `connect`, `bind` and
`sendto`, and an unknown command of `msgctl`, are reported with the `errno` of an
earlier call.  `chown` with an unknown name changes to -1, that is, not at all.
`strftime` pushes an uninitialised buffer when the result is empty.

Poll and iterators.  After a timeout or an interruption the table has the
`revents` of an earlier call.  `getgrent` and `getpwent` do not reset `errno`, so
the end of a loop may be reported as an error, and the cursor then stays.
`getopt` sets `optind` before it checks its list, and the C library's place
inside a word survives into the next loop, against the comment at
`ext/posix/unistd.c:584`.

Structs and names.  `CS5` depends on `BS5` (`termio.c:465`).  The path of an abstract
socket is not given back (`NEWS.md:332`), and the table of a socket whose path reads
as empty has no `path` and is refused.  Of a link-layer address only the index is
given and taken; protocol, type and address are 0.  `c_line` of a termios and
`l_pid` of a lock are not initialised.  `tcsetattr` documents the fields iflag,
oflag, cflag, lflag and cc (`termio.c:254`); a table with just these sets the speed to
B0, which hangs up the line, because ispeed and ospeed default to it and
`cfsetospeed` clears the speed in cflag.  A speed that is refused leaves ispeed or
ospeed of the struct uninitialised.  `IPC_SET` refuses the table that `IPC_STAT` gives.  For
`SO_LINGER` and the timeouts `getsockopt` gives a table where `setsockopt` takes
two integers.  The wrappers `bind`, `connect`, `openlog`, `statvfs`, `msgget` and
`setlogmask` are there also where the function is not built.  `euidaccess` uses
names (`set`, `posix`, `EACCESS`) that its strict environment does not have.

## 7. Plan

Done: every module of section 2, in the order of what can go wrong unnoticed, and
proofs of all safety properties but those that section 4 lists as model-checked.
What could follow: `Wired` and `Delivered` as theorems also for a program without
standard input, the older argument orders of `deprecated.lua` against the functions they call,
message sizes of `msgsnd` and `msgrcv`.

## 8. Not modelled

`compat-5.2.c` is vendored, and `build-aux/luke` with `lukefile` is the build.
`bitwise` and `strict` choose between implementations of what the models take as
given.  `glob` of `init.lua` only fills in defaults; `euidaccess` fails as section
6 says before it does anything.  The rearrangements of arguments and results in
`deprecated.lua` have no state; `Namespace` has which function a name runs.

Inside modelled parts: `sig_handler_wrap` only calls the host's handler; several
Lua states and coroutines; metamethods in the entries of `poll`; failures of
Lua's own allocations; overflow of `offset + nbytes` in `write` and of the sizes
of `msgsnd` and `msgrcv`; the `__GNU__` branch of `getcwd`; arguments of options
and the GNU permutation in `getopt`; the mark IBAUD0 that the C library puts into
iflag and takes out again; a socket path that is too long, which is cut; the lifetime of syslog's identity string, and
`setlogmask` of `compat.lua`; the states of a socket, which are the kernel's.
