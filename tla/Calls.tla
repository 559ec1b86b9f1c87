------------------------------- MODULE Calls -------------------------------
(***************************************************************************)
(* The functions of the C submodules, as Binding.tla runs them, and        *)
(* openpty: the steps in the order of the source, what the system call     *)
(* returns and how the result is pushed.  Not here: Psignal (Signal.tla),  *)
(* poll and rpoll (Poll.tla), directories, getgrent, getpwent and getopt   *)
(* (Cursor.tla).                                                           *)
(***************************************************************************)
EXTENDS Binding

\* Arguments, one call that changes something, its result.
Direct(name, s, p) == Fn(name, <<"args", "sys", "push">>, s, p)

\* The same, for a call that only looks something up.
Lookup(name, s, p) == Fn(name, <<"args", "peek", "push">>, s, p)

\* A call that fills a buffer of the allocator.
Buffered(name, s, p) ==
    Fn(name, <<"args", "alloc", "sys", "free", "push">>, s, p)

\* A call that returns memory of its own.
Made(name, s, p) == Fn(name, <<"args", "make", "free", "push">>, s, p)

(* unistd.c: processes, descriptors and paths *)
P_exit == Direct("_exit", "exits", "value")
Paccess == Lookup("access", "zero", "result")
Palarm == Direct("alarm", "sure", "value")
Pchdir == Direct("chdir", "zero", "result")
Pchown == Direct("chown", "zero", "result")
Pclose == Direct("close", "zero", "result")
Pcrypt == Lookup("crypt", "ptr", "value")
Pdup == Direct("dup", "fd", "result")
Pdup2 == Direct("dup2", "fd", "result")
runexec == Direct("exec", "fails", "test")
Pfdatasync == Direct("fdatasync", "zero", "result")
Pfork == Direct("fork", "fd", "result")
Pfsync == Direct("fsync", "zero", "result")
Pgetcwd == Fn("getcwd", <<"hint", "args", "alloc", "sys", "free", "push">>,
    "ptr", "null")
Pgetegid == Lookup("getegid", "sure", "value")
Pgeteuid == Lookup("geteuid", "sure", "value")
Pgetgid == Lookup("getgid", "sure", "value")
Pgetgroups == Fn("getgroups", <<"peek", "args", "peek", "push">>, "fd", "test")
Pgetlogin == Lookup("getlogin", "ptr", "value")
Pgetpgrp == Lookup("getpgrp", "sure", "value")
Pgetpid == Lookup("getpid", "sure", "value")
Pgetppid == Lookup("getppid", "sure", "value")
Pgetuid == Lookup("getuid", "sure", "value")
Pgethostid == Lookup("gethostid", "sure", "value")
Pisatty == Lookup("isatty", "bool", "bool")
Plchown == Direct("lchown", "zero", "result")
Plink == Direct("link", "zero", "result")
Plinkat == Direct("linkat", "zero", "result")
Plseek == Direct("lseek", "wide", "result")
Pnice == Direct("nice", "signed", "result")
Ppathconf == Lookup("pathconf", "conf", "value")
Ppipe == Direct("pipe", "zero", "test")
Pread == Fn("read", <<"args", "zero", "alloc", "sys", "free", "push">>,
    "wide", "test")
Preadlink == Fn("readlink", <<"args", "zero", "peek", "islink", "peek", "push">>,
    "fd", "test")
Prmdir == Direct("rmdir", "zero", "result")
Psetpid == Direct("setpid", "fd", "result")
Psleep == Direct("sleep", "sure", "value")
Psync == Direct("sync", "void", "value")
Psysconf == Lookup("sysconf", "conf", "value")
Pttyname == Lookup("ttyname", "ptr", "entry")
Ptcgetpgrp == Lookup("tcgetpgrp", "fd", "result")
Ptcsetpgrp == Direct("tcsetpgrp", "zero", "result")
Punlink == Direct("unlink", "zero", "result")
Pwrite == Fn("write", <<"args", "slice", "sys", "push">>, "fd", "result")
Pftruncate == Direct("ftruncate", "zero", "result")
Ptruncate == Direct("truncate", "zero", "result")

(* stdlib.c, stdio.c, fcntl.c, libgen.c, glob.c, fnmatch.c, ctype.c *)
Pabort == Direct("abort", "exits", "value")
Pgetenv == Lookup("getenv", "ptr", "value")
Pgrantpt == Direct("grantpt", "zero", "result")
Pmkdtemp == Buffered("mkdtemp", "ptr", "null")
Pmkstemp == Buffered("mkstemp", "fd", "test")
Popenpt == Direct("openpt", "fd", "result")
Pptsname == Lookup("ptsname", "ptr", "null")
Prealpath == Made("realpath", "ptr", "null")
Psetenv == Direct("setenv", "zero", "result")
Psetenv_unset == Direct("unsetenv", "zero", "ignored")
Punlockpt == Direct("unlockpt", "zero", "result")
Pctermid == Lookup("ctermid", "sure", "value")
Pfileno == Lookup("fileno", "fd", "result")
Pfdopen == Direct("fdopen", "ptr", "null")
Prename == Direct("rename", "zero", "result")
Pfcntl == Direct("fcntl", "fd", "result")
Popen == Direct("open", "fd", "result")
Pposix_fadvise == Direct("posix_fadvise", "errnum", "errnum")
Pbasename == Buffered("basename", "sure", "value")
Pdirname == Buffered("dirname", "sure", "value")
Pglob == Made("glob", "code", "status")
Pfnmatch == Lookup("fnmatch", "int", "value")
bind_ctype == Lookup("isgraph", "int", "value")

(* signal.c, sched.c, errno.c, syslog.c, utime.c *)
Pkill == Direct("kill", "zero", "result")
Pkillpg == Direct("killpg", "zero", "result")
Praise == Direct("raise", "zero", "value")
Psched_getscheduler == Lookup("sched_getscheduler", "fd", "result")
Psched_setscheduler == Direct("sched_setscheduler", "zero", "result")
Perrno == Lookup("errno", "errno", "value")
Pset_errno == Fn("set_errno", <<"args", "set", "args">>, "void", "value")
Popenlog == Direct("openlog", "void", "value")
Psyslog == Direct("syslog", "void", "value")
Pcloselog == Direct("closelog", "void", "value")
Psetlogmask == Direct("setlogmask", "int", "result")
PLOG_MASK == Lookup("LOG_MASK", "int", "value")
Putime == Direct("utime", "zero", "result")

(* grp.c and pwd.c: lookups, with errno set to 0 before *)
Pgetgrgid == Fn("getgrgid", <<"args", "zero", "peek", "push">>,
    "entry", "entry")

Pgetgrnam == Fn("getgrnam", <<"args", "zero", "peek", "push">>,
    "entry", "entry")
Pgetpwnam == Fn("getpwnam", <<"args", "zero", "peek", "push">>,
    "entry", "entry")
Pgetpwuid == Fn("getpwuid", <<"args", "zero", "peek", "push">>,
    "entry", "entry")

(* sys/stat.c, sys/statvfs.c, sys/resource.c, sys/utsname.c, sys/wait.c *)
PS_ISBLK == Lookup("S_ISBLK", "int", "value")
PS_ISCHR == Lookup("S_ISCHR", "int", "value")
PS_ISDIR == Lookup("S_ISDIR", "int", "value")
PS_ISFIFO == Lookup("S_ISFIFO", "int", "value")
PS_ISLNK == Lookup("S_ISLNK", "int", "value")
PS_ISREG == Lookup("S_ISREG", "int", "value")
PS_ISSOCK == Lookup("S_ISSOCK", "int", "value")
Pchmod == Direct("chmod", "zero", "result")
Plstat == Lookup("lstat", "zero", "test")
Pfstat == Lookup("fstat", "zero", "test")
Pmkdir == Direct("mkdir", "zero", "result")
Pmkfifo == Direct("mkfifo", "zero", "result")
Pstat == Lookup("stat", "zero", "test")
Pumask == Direct("umask", "sure", "value")
Pstatvfs == Lookup("statvfs", "zero", "test")
Pgetrlimit == Lookup("getrlimit", "zero", "test")
Psetrlimit == Direct("setrlimit", "zero", "result")
Puname == Lookup("uname", "zero", "test")
Pwait == Direct("wait", "fd", "test")

(* sys/msg.c *)
Pmsgctl == Fn("msgctl", <<"args", "conv", "sys", "push">>, "zero", "result")
Pmsgget == Direct("msgget", "fd", "result")
Pmsgsnd == Buffered("msgsnd", "zero", "test")
Pmsgrcv == Buffered("msgrcv", "fd", "test")

(* sys/socket.c *)
Psocket == Direct("socket", "fd", "result")
Psocketpair == Direct("socketpair", "zero", "test")
Pgetaddrinfo == Made("getaddrinfo", "code", "status")
Pconnect == Fn("connect", <<"args", "conv", "sys", "push">>, "zero", "result")
Pbind == Fn("bind", <<"args", "conv", "sys", "push">>, "zero", "result")
Plisten == Direct("listen", "zero", "result")
Paccept == Direct("accept", "fd", "test")
Precv == Fn("recv", <<"args", "zero", "alloc", "sys", "free", "push">>,
    "wide", "test")
Precvfrom == Fn("recvfrom", <<"args", "zero", "alloc", "sys", "free", "push">>,
    "wide", "test")
Psend == Direct("send", "wide", "result")
Psendto == Fn("sendto", <<"args", "conv", "sys", "push">>, "wide", "result")
Pshutdown == Direct("shutdown", "zero", "result")
Psetsockopt == Direct("setsockopt", "zero", "result")
Pgetsockopt == Lookup("getsockopt", "zero", "test")
Pgetsockname == Lookup("getsockname", "zero", "test")
Pgetpeername == Lookup("getpeername", "zero", "test")
Pif_nametoindex == Lookup("if_nametoindex", "ptr", "null")

(* termio.c *)
Ptcdrain == Direct("tcdrain", "zero", "result")
Ptcflow == Direct("tcflow", "zero", "result")
Ptcflush == Direct("tcflush", "zero", "result")
Ptcgetattr == Lookup("tcgetattr", "zero", "test")
Ptcsendbreak == Direct("tcsendbreak", "zero", "result")
Ptcsetattr == Direct("tcsetattr", "zero", "result")
Ptcgetwinsize == Lookup("tcgetwinsize", "zero", "test")
Ptcsetwinsize == Direct("tcsetwinsize", "zero", "result")

(* time.c, sys/time.c, sys/times.c *)
Pclock_getres == Lookup("clock_getres", "zero", "test")
Pclock_gettime == Lookup("clock_gettime", "zero", "test")
Pgmtime == Lookup("gmtime", "ptr", "null")
Plocaltime == Lookup("localtime", "ptr", "null")
Pmktime == Lookup("mktime", "epoch", "positive")
Pnanosleep == Direct("nanosleep", "zero", "result")
Pstrftime == Lookup("strftime", "sure", "value")
Pstrptime == Lookup("strptime", "ptr", "value")
Ptime == Fn("time", <<"peek", "args", "push">>, "wide", "test")
Pgettimeofday == Lookup("gettimeofday", "zero", "test")
Ptimes == Lookup("times", "zero", "test")

(* init.lua: openpty calls openpt, grantpt, unlockpt, ptsname and open *)
Popenpty == Fn("openpty", <<"args", "make", "sys", "sys",
    "peek", "sys", "close", "push">>,
    "fd", "saved")

(* All of them. *)
AllCalls ==
    {P_exit, Paccess, Palarm, Pchdir, Pchown, Pclose, Pcrypt, Pdup, Pdup2,
     runexec, Pfdatasync, Pfork, Pfsync, Pgetcwd, Pgetegid, Pgeteuid,
     Pgetgid, Pgetgroups, Pgetlogin, Pgetpgrp, Pgetpid, Pgetppid, Pgetuid,
     Pgethostid, Pisatty, Plchown, Plink, Plinkat, Plseek, Pnice, Ppathconf,
     Ppipe, Pread, Preadlink, Prmdir, Psetpid, Psleep, Psync, Psysconf,
     Pttyname, Ptcgetpgrp, Ptcsetpgrp, Punlink, Pwrite, Pftruncate,
     Ptruncate, Pabort, Pgetenv, Pgrantpt, Pmkdtemp, Pmkstemp, Popenpt,
     Pptsname, Prealpath, Psetenv, Psetenv_unset, Punlockpt, Pctermid,
     Pfileno, Pfdopen, Prename, Pfcntl, Popen, Pposix_fadvise, Pbasename,
     Pdirname, Pglob, Pfnmatch, bind_ctype, Pkill, Pkillpg, Praise,
     Psched_getscheduler, Psched_setscheduler, Perrno, Pset_errno, Popenlog,
     Psyslog, Pcloselog, Psetlogmask, PLOG_MASK, Putime, Pgetgrgid,
     Pgetgrnam, Pgetpwnam, Pgetpwuid, PS_ISBLK, PS_ISCHR, PS_ISDIR,
     PS_ISFIFO, PS_ISLNK, PS_ISREG, PS_ISSOCK, Pchmod, Plstat, Pfstat,
     Pmkdir, Pmkfifo, Pstat, Pumask, Pstatvfs, Pgetrlimit, Psetrlimit,
     Puname, Pwait, Pmsgctl, Pmsgget, Pmsgsnd, Pmsgrcv, Psocket,
     Psocketpair, Pgetaddrinfo, Pconnect, Pbind, Plisten, Paccept, Precv,
     Precvfrom, Psend, Psendto, Pshutdown, Psetsockopt, Pgetsockopt,
     Pgetsockname, Pgetpeername, Pif_nametoindex, Ptcdrain, Ptcflow,
     Ptcflush, Ptcgetattr, Ptcsendbreak, Ptcsetattr, Ptcgetwinsize,
     Ptcsetwinsize, Pclock_getres, Pclock_gettime, Pgmtime, Plocaltime,
     Pmktime, Pnanosleep, Pstrftime, Pstrptime, Ptime, Pgettimeofday,
     Ptimes, Popenpty}

=============================================================================
