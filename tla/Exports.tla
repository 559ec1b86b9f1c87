------------------------------ MODULE Exports ------------------------------
(***************************************************************************)
(* The names that the C submodules export: the posix_*_fns tables and the  *)
(* constants that luaopen_posix_* adds.  A constant that the source guards *)
(* with #ifdef of its own name is taken to be defined: leaving it out      *)
(* removes a name and adds none; so are those of Linux sockets and the     *)
(* window size functions.  CS5 is guarded with BS5 (termio.c:465), which   *)
(* no system defines, and is never exported.                               *)
(***************************************************************************)
EXTENDS Integers, Sequences, TLC


(* ctype.c *)
ctype_fns == {"isgraph", "isprint"}

(* dirent.c *)
dirent_fns == {"dir", "files"}

(* errno.c *)
errno_fns == {"errno", "set_errno"}
errno_consts_a ==
    {"E2BIG", "EACCES", "EADDRINUSE", "EADDRNOTAVAIL", "EAFNOSUPPORT",
     "EAGAIN", "EALREADY", "EBADF", "EBADMSG", "EBUSY", "ECANCELED",
     "ECHILD", "ECONNABORTED", "ECONNREFUSED", "ECONNRESET", "EDEADLK",
     "EDESTADDRREQ", "EDOM", "EEXIST", "EFAULT", "EFBIG", "EHOSTUNREACH",
     "EIDRM", "EILSEQ", "EINPROGRESS", "EINTR", "EINVAL", "EIO", "EISCONN",
     "EISDIR", "ELOOP", "EMFILE", "EMLINK", "EMSGSIZE", "ENAMETOOLONG",
     "ENETDOWN", "ENETRESET"}
errno_consts_b ==
    {"ENETUNREACH", "ENFILE", "ENOBUFS", "ENODEV", "ENOENT", "ENOEXEC",
     "ENOLCK", "ENOMEM", "ENOMSG", "ENOPROTOOPT", "ENOSPC", "ENOSYS",
     "ENOTCONN", "ENOTDIR", "ENOTEMPTY", "ENOTSOCK", "ENOTSUP", "ENOTTY",
     "ENXIO", "EOPNOTSUPP", "EOVERFLOW", "EPERM", "EPIPE", "EPROTO",
     "EPROTONOSUPPORT", "EPROTOTYPE", "ERANGE", "EROFS", "ESPIPE", "ESRCH",
     "ETIMEDOUT", "ETXTBSY", "EWOULDBLOCK", "EXDEV"}

(* fcntl.c *)
fcntl_fns == {"fcntl", "open", "posix_fadvise"}
fcntl_consts_a ==
    {"AT_EACCESS", "AT_FDCWD", "AT_REMOVEDIR", "AT_SYMLINK_FOLLOW",
     "AT_SYMLINK_NOFOLLOW", "AT_EMPTY_PATH", "AT_NO_AUTOMOUNT",
     "FD_CLOEXEC", "F_DUPFD", "F_GETFD", "F_SETFD", "F_GETFL", "F_SETFL",
     "F_GETLK", "F_SETLK", "F_SETLKW", "F_GETOWN", "F_SETOWN", "F_RDLCK",
     "F_WRLCK", "F_UNLCK"}
fcntl_consts_b ==
    {"O_RDONLY", "O_WRONLY", "O_RDWR", "O_APPEND", "O_CREAT", "O_DSYNC",
     "O_EXCL", "O_NOCTTY", "O_NONBLOCK", "O_RSYNC", "O_SYNC", "O_TRUNC",
     "O_CLOEXEC", "O_TMPFILE", "POSIX_FADV_NORMAL", "POSIX_FADV_SEQUENTIAL",
     "POSIX_FADV_RANDOM", "POSIX_FADV_NOREUSE", "POSIX_FADV_WILLNEED",
     "POSIX_FADV_DONTNEED"}

(* fnmatch.c *)
fnmatch_fns == {"fnmatch"}
fnmatch_consts ==
    {"FNM_PATHNAME", "FNM_NOESCAPE", "FNM_NOMATCH", "FNM_PERIOD"}

(* glob.c *)
glob_fns == {"glob"}
glob_consts ==
    {"GLOB_ERR", "GLOB_MARK", "GLOB_NOCHECK", "GLOB_ABORTED",
     "GLOB_NOMATCH", "GLOB_NOSPACE"}

(* grp.c *)
grp_fns == {"endgrent", "getgrent", "getgrgid", "getgrnam", "setgrent"}

(* libgen.c *)
libgen_fns == {"basename", "dirname"}

(* poll.c *)
poll_fns == {"poll", "rpoll"}

(* pwd.c *)
pwd_fns == {"endpwent", "getpwent", "getpwnam", "getpwuid", "setpwent"}

(* sched.c *)
sched_fns == {"sched_getscheduler", "sched_setscheduler"}
sched_consts == {"SCHED_FIFO", "SCHED_RR", "SCHED_OTHER"}

(* signal.c *)
signal_fns == {"kill", "killpg", "raise", "signal"}
signal_consts_a ==
    {"SIGABRT", "SIGALRM", "SIGBUS", "SIGCHLD", "SIGCONT", "SIGFPE",
     "SIGHUP", "SIGILL", "SIGINFO", "SIGINT", "SIGKILL", "SIGPIPE",
     "SIGQUIT", "SIGSEGV", "SIGSTOP", "SIGTERM", "SIGTSTP", "SIGTTIN",
     "SIGTTOU", "SIGUSR1", "SIGUSR2", "SIGSYS", "SIGTRAP", "SIGURG",
     "SIGVTALRM", "SIGWINCH", "SIGXCPU", "SIGXFSZ"}
signal_consts_b ==
    {"SIG_DFL", "SIG_IGN", "SA_NOCLDSTOP", "SA_NOCLDWAIT", "SA_NODEFER",
     "SA_RESETHAND", "SA_RESTART"}

(* stdio.c *)
stdio_fns == {"ctermid", "fileno", "fdopen", "rename"}
stdio_consts ==
    {"_IOFBF", "_IOLBF", "_IONBF", "BUFSIZ", "EOF", "FOPEN_MAX",
     "FILENAME_MAX"}

(* stdlib.c *)
stdlib_fns ==
    {"abort", "getenv", "grantpt", "mkdtemp", "mkstemp", "openpt",
     "ptsname", "realpath", "setenv", "unlockpt"}

(* sys/msg.c *)
sys_msg_fns == {"msgctl", "msgget", "msgsnd", "msgrcv"}
sys_msg_consts ==
    {"IPC_CREAT", "MSG_EXCEPT", "IPC_EXCL", "MSG_NOERROR", "IPC_NOWAIT",
     "IPC_PRIVATE", "IPC_RMID", "IPC_SET", "IPC_STAT"}

(* sys/resource.c *)
sys_resource_fns == {"getrlimit", "setrlimit"}
sys_resource_consts ==
    {"RLIM_INFINITY", "RLIM_SAVED_CUR", "RLIM_SAVED_MAX", "RLIMIT_CORE",
     "RLIMIT_CPU", "RLIMIT_DATA", "RLIMIT_FSIZE", "RLIMIT_NOFILE",
     "RLIMIT_STACK", "RLIMIT_AS"}

(* sys/socket.c *)
sys_socket_fns ==
    {"socket", "socketpair", "getaddrinfo", "connect", "bind", "listen",
     "accept", "recv", "recvfrom", "send", "sendto", "shutdown",
     "setsockopt", "getsockopt", "getsockname", "getpeername",
     "if_nametoindex"}
sys_socket_consts_a ==
    {"SOMAXCONN", "AF_UNSPEC", "AF_INET", "AF_INET6", "AF_UNIX",
     "AF_NETLINK", "AF_PACKET", "SOL_SOCKET", "IPPROTO_TCP", "IPPROTO_UDP",
     "IPPROTO_IP", "IPPROTO_IPV6", "IPPROTO_ICMP", "SOCK_STREAM",
     "SOCK_DGRAM", "SOCK_RAW", "SHUT_RD", "SHUT_WR", "SHUT_RDWR"}
sys_socket_consts_b ==
    {"SO_ACCEPTCONN", "SO_BROADCAST", "SO_LINGER", "SO_RCVTIMEO",
     "SO_SNDTIMEO", "SO_BINDTODEVICE", "SO_DEBUG", "SO_DONTROUTE",
     "SO_ERROR", "SO_KEEPALIVE", "SO_OOBINLINE", "SO_RCVBUF", "SO_RCVLOWAT",
     "SO_REUSEADDR", "SO_SNDBUF", "SO_SNDLOWAT", "SO_TYPE", "TCP_NODELAY",
     "AI_ADDRCONFIG", "AI_ALL", "AI_CANONNAME", "AI_NUMERICHOST",
     "AI_NUMERICSERV", "AI_PASSIVE", "AI_V4MAPPED"}
sys_socket_consts_c ==
    {"IPV6_JOIN_GROUP", "IPV6_LEAVE_GROUP", "IPV6_MULTICAST_HOPS",
     "IPV6_MULTICAST_IF", "IPV6_MULTICAST_LOOP", "IPV6_UNICAST_HOPS",
     "IPV6_V6ONLY", "NETLINK_ROUTE", "NETLINK_UNUSED", "NETLINK_USERSOCK",
     "NETLINK_FIREWALL", "NETLINK_NFLOG", "NETLINK_XFRM", "NETLINK_SELINUX",
     "NETLINK_ISCSI", "NETLINK_AUDIT", "NETLINK_FIB_LOOKUP",
     "NETLINK_CONNECTOR", "NETLINK_NETFILTER", "NETLINK_IP6_FW",
     "NETLINK_DNRTMSG", "NETLINK_KOBJECT_UEVENT", "NETLINK_GENERIC",
     "NETLINK_SCSITRANSPORT", "NETLINK_ECRYPTFS"}

(* sys/stat.c *)
sys_stat_fns ==
    {"S_ISBLK", "S_ISCHR", "S_ISDIR", "S_ISFIFO", "S_ISLNK", "S_ISREG",
     "S_ISSOCK", "chmod", "lstat", "fstat", "mkdir", "mkfifo", "stat",
     "umask"}
sys_stat_consts ==
    {"S_IFMT", "S_IFBLK", "S_IFCHR", "S_IFDIR", "S_IFIFO", "S_IFLNK",
     "S_IFREG", "S_IFSOCK", "S_IRWXU", "S_IRUSR", "S_IWUSR", "S_IXUSR",
     "S_IRWXG", "S_IRGRP", "S_IWGRP", "S_IXGRP", "S_IRWXO", "S_IROTH",
     "S_IWOTH", "S_IXOTH", "S_ISGID", "S_ISUID"}

(* sys/statvfs.c *)
sys_statvfs_fns == {"statvfs"}
sys_statvfs_consts == {"ST_RDONLY", "ST_NOSUID"}

(* sys/time.c *)
sys_time_fns == {"gettimeofday"}

(* sys/times.c *)
sys_times_fns == {"times"}

(* sys/utsname.c *)
sys_utsname_fns == {"uname"}

(* sys/wait.c *)
sys_wait_fns == {"wait"}
sys_wait_consts == {"WNOHANG", "WUNTRACED"}

(* syslog.c *)
syslog_fns == {"LOG_MASK", "openlog", "syslog", "closelog", "setlogmask"}
syslog_consts ==
    {"LOG_CONS", "LOG_NDELAY", "LOG_PID", "LOG_AUTH", "LOG_CRON",
     "LOG_DAEMON", "LOG_KERN", "LOG_LOCAL0", "LOG_LOCAL1", "LOG_LOCAL2",
     "LOG_LOCAL3", "LOG_LOCAL4", "LOG_LOCAL5", "LOG_LOCAL6", "LOG_LOCAL7",
     "LOG_LPR", "LOG_MAIL", "LOG_NEWS", "LOG_USER", "LOG_UUCP", "LOG_EMERG",
     "LOG_ALERT", "LOG_CRIT", "LOG_ERR", "LOG_WARNING", "LOG_NOTICE",
     "LOG_INFO", "LOG_DEBUG", "LOG_AUTHPRIV", "LOG_FTP", "LOG_SYSLOG"}

(* termio.c *)
termio_fns ==
    {"tcdrain", "tcflow", "tcflush", "tcgetattr", "tcsendbreak",
     "tcsetattr", "tcgetwinsize", "tcsetwinsize"}
termio_actions ==
    {"TCSANOW", "TCSADRAIN", "TCSAFLUSH", "TCIFLUSH", "TCOFLUSH",
     "TCIOFLUSH", "TCOOFF", "TCOON", "TCIOFF", "TCION"}
termio_cflags ==
    {"B0", "B50", "B75", "B110", "B134", "B150", "B200", "B300", "B600",
     "B1200", "B1800", "B2400", "B4800", "B9600", "B19200", "B38400",
     "B57600", "B115200", "CSIZE", "CS6", "CS7", "CS8", "CSTOPB", "CREAD",
     "PARENB", "PARODD", "HUPCL", "CLOCAL", "CRTSCTS"}
termio_lflags ==
    {"ISIG", "ICANON", "ECHO", "ECHOE", "ECHOK", "ECHONL", "NOFLSH",
     "IEXTEN", "TOSTOP"}
termio_iflags ==
    {"INPCK", "IGNPAR", "PARMRK", "ISTRIP", "IXON", "IXOFF", "IXANY",
     "IGNBRK", "BRKINT", "INLCR", "IGNCR", "ICRNL", "IMAXBEL"}
termio_oflags ==
    {"OPOST", "ONLCR", "OCRNL", "ONLRET", "OFILL", "OFDEL", "NLDLY", "NL0",
     "NL1", "CRDLY", "CR0", "CR1", "CR2", "CR3", "TABDLY", "TAB0", "TAB1",
     "TAB2", "TAB3", "BSDLY", "BS0", "BS1", "VTDLY", "VT0", "VT1", "FFDLY",
     "FF0", "FF1"}
termio_ccs ==
    {"VINTR", "VQUIT", "VERASE", "VKILL", "VEOF", "VEOL", "VEOL2", "VMIN",
     "VTIME", "VSTART", "VSTOP", "VSUSP"}
termio_xsi ==
    {"CBAUD", "EXTA", "EXTB", "DEFECHO", "ECHOCTL", "ECHOPRT", "ECHOKE",
     "FLUSHO", "IUTF8", "PENDIN", "LOBLK", "SWTCH", "VDISCARD", "VDSUSP",
     "VLNEXT", "VREPRINT", "VSTATUS", "VWERASE"}

(* time.c *)
time_fns ==
    {"clock_getres", "clock_gettime", "gmtime", "localtime", "mktime",
     "nanosleep", "strftime", "strptime", "time"}
time_consts ==
    {"CLOCK_MONOTONIC", "CLOCK_PROCESS_CPUTIME_ID", "CLOCK_REALTIME",
     "CLOCK_THREAD_CPUTIME_ID"}

(* unistd.c *)
unistd_fns ==
    {"_exit", "access", "alarm", "chdir", "chown", "close", "crypt", "dup",
     "dup2", "exec", "execp", "fdatasync", "fork", "fsync", "getcwd",
     "getgroups", "getegid", "geteuid", "getgid", "getlogin", "getopt",
     "getpgrp", "getpid", "getppid", "getuid", "gethostid", "isatty",
     "lchown", "link", "linkat", "lseek", "nice", "pathconf", "pipe",
     "read", "readlink", "rmdir", "setpid", "sleep", "sync", "sysconf",
     "ttyname", "tcgetpgrp", "tcsetpgrp", "unlink", "write", "ftruncate",
     "truncate"}
unistd_consts ==
    {"_PC_CHOWN_RESTRICTED", "_PC_LINK_MAX", "_PC_MAX_CANON",
     "_PC_MAX_INPUT", "_PC_NAME_MAX", "_PC_NO_TRUNC", "_PC_PATH_MAX",
     "_PC_PIPE_BUF", "_PC_VDISABLE", "_SC_ARG_MAX", "_SC_CHILD_MAX",
     "_SC_CLK_TCK", "_SC_JOB_CONTROL", "_SC_NGROUPS_MAX", "_SC_OPEN_MAX",
     "_SC_PAGESIZE", "_SC_SAVED_IDS", "_SC_STREAM_MAX", "_SC_TZNAME_MAX",
     "_SC_VERSION", "SEEK_CUR", "SEEK_END", "SEEK_SET", "STDERR_FILENO",
     "STDIN_FILENO", "STDOUT_FILENO"}

(* utime.c *)
utime_fns == {"utime"}

-----------------------------------------------------------------------------
(* What is exported on a platform.                                         *)

\* The list in init.lua.
names ==
    <<"ctype", "dirent", "errno", "fcntl", "fnmatch", "glob", "grp",
      "libgen", "poll", "pwd", "sched", "signal", "stdio", "stdlib",
      "sys.msg", "sys.resource", "sys.socket", "sys.stat", "sys.statvfs",
      "sys.time", "sys.times", "sys.utsname", "sys.wait", "syslog",
      "termio", "time", "unistd", "utime">>

Submodules == {names[i] : i \in 1..Len(names)}

\* What each exports when everything is built.
table ==
    "ctype"        :> ctype_fns @@
    "dirent"       :> dirent_fns @@
    "errno"        :> (errno_fns \cup errno_consts_a \cup errno_consts_b) @@
    "fcntl"        :> (fcntl_fns \cup fcntl_consts_a \cup fcntl_consts_b) @@
    "fnmatch"      :> (fnmatch_fns \cup fnmatch_consts) @@
    "glob"         :> (glob_fns \cup glob_consts) @@
    "grp"          :> grp_fns @@
    "libgen"       :> libgen_fns @@
    "poll"         :> poll_fns @@
    "pwd"          :> pwd_fns @@
    "sched"        :> (sched_fns \cup sched_consts) @@
    "signal"       :> (signal_fns \cup signal_consts_a \cup signal_consts_b) @@
    "stdio"        :> (stdio_fns \cup stdio_consts) @@
    "stdlib"       :> stdlib_fns @@
    "sys.msg"      :> (sys_msg_fns \cup sys_msg_consts) @@
    "sys.resource" :> (sys_resource_fns \cup sys_resource_consts) @@
    "sys.socket"   :> (sys_socket_fns \cup sys_socket_consts_a \cup
                      sys_socket_consts_b \cup
                      sys_socket_consts_c) @@
    "sys.stat"     :> (sys_stat_fns \cup sys_stat_consts) @@
    "sys.statvfs"  :> (sys_statvfs_fns \cup sys_statvfs_consts) @@
    "sys.time"     :> sys_time_fns @@
    "sys.times"    :> sys_times_fns @@
    "sys.utsname"  :> sys_utsname_fns @@
    "sys.wait"     :> (sys_wait_fns \cup sys_wait_consts) @@
    "syslog"       :> (syslog_fns \cup syslog_consts) @@
    "termio"       :> (termio_fns \cup termio_actions \cup termio_cflags \cup
                      termio_lflags \cup termio_iflags
                      \cup termio_oflags \cup termio_ccs
                      \cup termio_xsi) @@
    "time"         :> (time_fns \cup time_consts) @@
    "unistd"       :> (unistd_fns \cup unistd_consts) @@
    "utime"        :> utime_fns

\* The names that are there only if configure found a feature.
guards ==
    [HAVE_POSIX_FADVISE |-> {"posix_fadvise"},
     HAVE_SCHED_GETSCHEDULER |-> {"sched_getscheduler"},
     HAVE_SCHED_SETSCHEDULER |-> {"sched_setscheduler"},
     HAVE_SYSV_MESSAGING |-> table["sys.msg"],
     LPOSIX_2001_COMPLIANT |-> table["sys.socket"] \cup table["syslog"] \cup
         {"getgroups", "lchown", "tcgetpgrp", "tcsetpgrp"},
     HAVE_STATVFS |-> table["sys.statvfs"],
     HAVE_TERMIOS_H |-> table["termio"],
     POSIX_TIMERS |-> {"clock_getres", "clock_gettime"},
     HAVE_CRYPT |-> {"crypt"},
     HAVE_FDATASYNC |-> {"fdatasync"}]

Features == DOMAIN guards

\* The table that require returns on a platform with the given features.
Exports(name, built) ==
    {"version"} \cup (table[name] \ UNION {guards[f] : f \in Features \ built})

=============================================================================
