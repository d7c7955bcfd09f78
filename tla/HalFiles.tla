------------------------------ MODULE HalFiles ------------------------------
(***************************************************************************)
(* The HAL's file descriptors: the pool alt_fd_list with its high water    *)
(* mark, the calls of alt_open.c and its neighbours, exclusive access      *)
(* through ioctl, and alt_io_redirect, which points the standard channels  *)
(* at the console before main.                                             *)
(*                                                                         *)
(* A name is the device it stands for; a file system stands for its files. *)
(* What a driver's own function answers is open, whether it succeeds or    *)
(* not; the console's are in JtagUart.                                     *)
(***************************************************************************)
EXTENDS Integers, FiniteSets, FiniteSetsExt

CONSTANTS
  Devices, FileSystems,     (* What alt_dev_list and alt_fs_list can hold.   *)
  Console,                  (* ALT_STDOUT, ALT_STDIN and ALT_STDERR.         *)
  Functions,                (* Which functions a driver has.                 *)
  Modes, StatusFlags,       (* The flags of open, and those fcntl can set.   *)
  MaxFd                     (* ALT_MAX_FD, 32.                               *)

DevNull == "/dev/null"
Nothing == "nothing"        (* A descriptor without a device: dev is NULL.   *)
Drivers == Devices \cup FileSystems

ASSUME FilesAssumption ==
  /\ {DevNull, Console} \subseteq Devices /\ Nothing \notin Drivers /\ Devices \cap FileSystems = {}
  /\ Functions \in [Drivers -> SUBSET {"open", "close", "read", "write", "lseek", "fstat", "ioctl"}]
  /\ Functions[DevNull] = {"write"} /\ StatusFlags \subseteq {"APPEND", "NONBLOCK"}
  /\ Modes \subseteq SUBSET ({"WRONLY", "RDWR"} \cup StatusFlags) /\ MaxFd \in Nat /\ MaxFd > 3

VARIABLES
  registered,               (* alt_dev_list and alt_fs_list.                 *)
  dev, fd_flags,            (* The pool.  Flags are sets: neither WRONLY nor *)
                            (* RDWR is O_RDONLY.                             *)
  alt_max_fd,
  booted,                   (* The standard channels alt_io_redirect has     *)
                            (* been through.                                 *)
  result,                   (* 0, 1 or -errno of the last call.              *)
  exited,                   (* The program is in the loop _exit ends in.     *)
  opened                    (* History: descriptors that open has returned   *)
                            (* and no one has closed.                        *)

filesVars == <<registered, dev, fd_flags, alt_max_fd, booted, result, opened, exited>>

STDIN == 0
STDOUT == 1
STDERR == 2
Std == {STDIN, STDOUT, STDERR}
Fds == 0 .. MaxFd - 1

EXCL == "EXCL"
DEV == "DEV"
ALT_FD_FLAGS_MASK == {EXCL, DEV}
ALT_FCNTL_FLAGS_MASK == StatusFlags
ACCMODE == {"WRONLY", "RDWR"}

(* Only /dev/null is there from the start, and the standard channels with  *)
(* it.                                                                     *)
FilesInit ==
  /\ registered = {DevNull} /\ alt_max_fd = -1 /\ booted = {} /\ result = 0 /\ opened = {} /\ exited = FALSE
  /\ dev = [f \in Fds |-> IF f \in Std THEN DevNull ELSE Nothing]
  /\ fd_flags = [f \in Fds |-> {}]

Open(f) == dev[f] # Nothing

(* alt_sys_init registers devices, and file systems, before main.          *)
alt_dev_llist_insert(d) == d \in Devices /\ registered' = registered \cup {d} /\ result' = 0
alt_fs_reg(d) == d \in FileSystems /\ registered' = registered \cup {d} /\ result' = 0

Register(d) ==
  /\ booted = {} /\ (alt_dev_llist_insert(d) \/ alt_fs_reg(d))
  /\ UNCHANGED <<dev, fd_flags, alt_max_fd, booted, opened, exited>>

(* A device by its whole name, a file system by what the name begins with. *)
alt_find_dev(name) == name \in registered \cap Devices
alt_find_file(name) == name \in registered \cap FileSystems

(* alt_get_fd takes the first free descriptor.                             *)
FreeFds == {f \in Fds : dev[f] = Nothing}
HighWater(f) == Max({alt_max_fd, f})

(* Mutant: the last descriptor is not looked at, as in alt_fd_lock.        *)
alt_file_lockedShort(d, f) == \E g \in 0 .. alt_max_fd - 1 : g # f /\ dev[g] = d /\ EXCL \in fd_flags[g]

alt_file_locked(d, f) == \E g \in 0 .. alt_max_fd : g # f /\ dev[g] = d /\ EXCL \in fd_flags[g]

(* Mutant: a descriptor whose open fails is kept.                          *)
RefusedKept(e, d, f) ==
  /\ result' = e /\ dev' = [dev EXCEPT ![f] = d] /\ UNCHANGED <<fd_flags, opened>>

(* The descriptor taken is released again; its flags are cleared with it.  *)
Refused(e, d, f) ==
  /\ result' = e /\ fd_flags' = [fd_flags EXCEPT ![f] = {}] /\ UNCHANGED <<dev, opened>>

Opened(d, f, flags) ==
  /\ dev' = [dev EXCEPT ![f] = d]
  /\ fd_flags' = [fd_flags EXCEPT ![f] =
       (flags \ ALT_FD_FLAGS_MASK) \cup (IF d \in Devices THEN {DEV} ELSE {})]
  /\ result' = 0 /\ opened' = opened \cup {f}

(* open: devices first, which can be locked; the driver may refuse too.    *)
ALT_OPEN(name, flags) ==
  IF (~alt_find_dev(name) /\ ~alt_find_file(name)) \/ FreeFds = {}
  THEN /\ result' = IF alt_find_dev(name) \/ alt_find_file(name) THEN -24 ELSE -19
       /\ UNCHANGED <<dev, fd_flags, alt_max_fd, opened>>
  ELSE LET f == Min(FreeFds) IN
    /\ alt_max_fd' = HighWater(f)
    /\ IF alt_find_dev(name) /\ alt_file_locked(name, f) THEN Refused(-13, name, f)
       ELSE \/ Opened(name, f, flags)
            \/ "open" \in Functions[name] /\ Refused(-5, name, f)

(* stat opens the file, asks and closes; when it cannot be opened it asks  *)
(* about no descriptor.  What is left of the open is the high water mark.  *)
Statable(name) == FreeFds # {} /\ (alt_find_dev(name) \/ alt_find_file(name))

ALT_STAT(name) ==
  /\ IF ~Statable(name) THEN result' = -81 /\ UNCHANGED alt_max_fd
     ELSE LET f == Min(FreeFds)
              locked == alt_find_dev(name) /\ alt_file_locked(name, f) IN
       /\ alt_max_fd' = HighWater(f)
       /\ \/ result' = -81 /\ (locked \/ "open" \in Functions[name])
          \/ result' = 0 /\ ~locked
          \/ result' = -5 /\ ~locked /\ "fstat" \in Functions[name]
  /\ UNCHANGED <<dev, fd_flags, opened>>

OpenCall ==
  /\ booted = Std
  /\ \E name \in Drivers : (\E flags \in Modes : ALT_OPEN(name, flags)) \/ ALT_STAT(name)
  /\ UNCHANGED <<registered, booted, exited>>

(* alt_open_fd: a descriptor is opened, copied into the standard one and   *)
(* released; if it cannot be opened the channel stays at /dev/null.  The   *)
(* order is output, input, error.                                          *)
Redirect(f, flags) ==
  /\ f \notin booted /\ booted' = booted \cup {f}
  /\ IF Console \notin registered THEN result' = -19 /\ UNCHANGED <<dev, fd_flags, alt_max_fd>>
     ELSE LET old == Min(FreeFds) IN
       /\ alt_max_fd' = HighWater(old) /\ result' = 0
       /\ dev' = [dev EXCEPT ![f] = Console]
       /\ fd_flags' = [fd_flags EXCEPT ![f] = flags \cup {DEV}]
  /\ UNCHANGED <<registered, opened, exited>>

alt_io_redirect ==
  \/ Redirect(STDOUT, {"WRONLY"})
  \/ STDOUT \in booted /\ Redirect(STDIN, {})
  \/ STDIN \in booted /\ Redirect(STDERR, {"WRONLY"})

alt_release_fd(f) ==
  IF f \in Std THEN UNCHANGED <<dev, fd_flags>>
  ELSE dev' = [dev EXCEPT ![f] = Nothing] /\ fd_flags' = [fd_flags EXCEPT ![f] = {}]

(* close: released whatever the driver's close returns.                    *)
ALT_CLOSE(f) ==
  /\ alt_release_fd(f) /\ opened' = opened \ {f}
  /\ \/ result' = 0
     \/ "close" \in Functions[dev[f]] /\ result' = -5
  /\ UNCHANGED alt_max_fd
-----------------------------------------------------------------------------
(* Calls that leave the pool as it is, but for the flags of one descriptor. *)

(* A lock is granted unless another descriptor of the device is found; the *)
(* highest one is not looked at (alt_fd_lock.c:61).                        *)
alt_fd_lock(f) ==
  IF \E g \in 0 .. alt_max_fd - 1 : g # f /\ dev[g] = dev[f] THEN result' = -13 /\ UNCHANGED fd_flags
  ELSE result' = 0 /\ fd_flags' = [fd_flags EXCEPT ![f] = @ \cup {EXCL}]

alt_fd_unlock(f) == result' = 0 /\ fd_flags' = [fd_flags EXCEPT ![f] = @ \ {EXCL}]

(* A driver's function, if it has one, answers as it will.                 *)
DriverAnswers(f, call, without) ==
  /\ result' \in IF call \in Functions[dev[f]] THEN {0, -5} ELSE {without}
  /\ UNCHANGED fd_flags

ALT_IOCTL(f) ==
  IF DEV \in fd_flags[f] THEN alt_fd_lock(f) \/ alt_fd_unlock(f) \/ DriverAnswers(f, "ioctl", -25)
  ELSE DriverAnswers(f, "ioctl", -25)

(* F_GETFL hides the marks of the HAL, F_SETFL keeps them.                 *)
ALT_FCNTL(f) ==
  \/ result' = 0 /\ UNCHANGED fd_flags
  \/ /\ result' = 0
     /\ \E flags \in SUBSET ALT_FCNTL_FLAGS_MASK :
          fd_flags' = [fd_flags EXCEPT ![f] = (@ \ ALT_FCNTL_FLAGS_MASK) \cup flags]

ALT_READ(f) ==
  IF "WRONLY" \in fd_flags[f] THEN result' = -13 /\ UNCHANGED fd_flags ELSE DriverAnswers(f, "read", -13)

ALT_WRITE(f) ==
  IF fd_flags[f] \cap ACCMODE = {} THEN result' = -13 /\ UNCHANGED fd_flags
  ELSE DriverAnswers(f, "write", -13)

ALT_LSEEK(f) == DriverAnswers(f, "lseek", -95)
ALT_FSTAT(f) == DriverAnswers(f, "fstat", 0)
(* With a driver's fstat, whether the device is a terminal; without, it is. *)
ALT_ISATTY(f) == result' \in (IF "fstat" \in Functions[dev[f]] THEN {0, 1} ELSE {1}) /\ UNCHANGED fd_flags

FileCalls(f) ==
  /\ \/ ALT_CLOSE(f)
     \/ /\ \/ ALT_IOCTL(f) \/ ALT_FCNTL(f) \/ ALT_READ(f) \/ ALT_WRITE(f)
           \/ ALT_LSEEK(f) \/ ALT_FSTAT(f) \/ ALT_ISATTY(f)
        /\ UNCHANGED <<dev, alt_max_fd, opened>>
  /\ booted = Std /\ UNCHANGED <<registered, booted, exited>>

(* Any call with the descriptor of an open that failed.                    *)
BadFd ==
  booted = Std /\ result' = -81 /\ UNCHANGED <<registered, dev, fd_flags, alt_max_fd, booted, opened, exited>>

-----------------------------------------------------------------------------
(* The system calls of processes and links, which there are none of.       *)
ENOSYS == result' = -88

ALT_LINK   == ENOSYS
ALT_UNLINK == ENOSYS
ALT_RENAME == ENOSYS
ALT_FORK   == ENOSYS
ALT_EXECVE == ENOSYS
ALT_WAIT   == result' = -10
ALT_GETPID == result' = 0

(* A signal to another process, an ignored and an unknown one; the rest    *)
(* are an exit.                                                            *)
ALT_KILL ==
  \/ result' \in {-3, 0, -22} /\ UNCHANGED exited
  \/ exited' = TRUE /\ UNCHANGED result

SystemCall ==
  /\ booted = Std
  /\ \/ (ALT_LINK \/ ALT_UNLINK \/ ALT_RENAME \/ ALT_FORK \/ ALT_EXECVE \/ ALT_WAIT \/ ALT_GETPID)
          /\ UNCHANGED exited
     \/ ALT_KILL
  /\ UNCHANGED <<registered, dev, fd_flags, alt_max_fd, booted, opened>>

FilesNext ==
  \/ /\ ~exited
     /\ \/ \E d \in Drivers \ {DevNull} : Register(d)
        \/ alt_io_redirect
        \/ OpenCall
        \/ \E f \in Fds : Open(f) /\ FileCalls(f)
        \/ BadFd
        \/ SystemCall
  \/ exited /\ UNCHANGED filesVars

FilesSpec == FilesInit /\ [][FilesNext]_filesVars
-----------------------------------------------------------------------------
FilesTypeOK ==
  /\ registered \subseteq Drivers /\ booted \subseteq Std /\ opened \subseteq Fds
  /\ dev \in [Fds -> Drivers \cup {Nothing}]
  /\ fd_flags \in [Fds -> SUBSET (ALT_FD_FLAGS_MASK \cup ALT_FCNTL_FLAGS_MASK \cup ACCMODE)]
  /\ alt_max_fd \in -1 .. MaxFd - 1 /\ result \in Int /\ exited \in BOOLEAN

(* No descriptor is lost: those in use are the standard ones and those     *)
(* that open has returned and no one has closed, however many opens fail   *)
(* half way and whatever a driver's close returns (alt_open.c:157-163,     *)
(* alt_close.c:87); the standard ones are never given away or left without *)
(* a device (alt_release_fd.c:45), and none in use is above the mark where *)
(* the searches for a device's other descriptors end (alt_open.c:76).      *)
NoFdLost ==
  /\ {f \in Fds : Open(f)} = opened \cup Std /\ opened \cap Std = {}
  /\ \A f \in opened : f <= alt_max_fd

(* No descriptor comes to f's device, and only f gives its lock up.        *)
Locks(f) ==
  /\ \A g \in Fds : dev'[g] = dev[f] => dev[g] = dev[f]
  /\ EXCL \in fd_flags'[f] \/ alt_fd_unlock(f) \/ ALT_CLOSE(f)

(* Exclusive access keeps: while a descriptor has its device locked no     *)
(* descriptor of that device is added, and only that descriptor's own      *)
(* ioctl or close ends it (alt_open.c:57-92, alt_fd_lock.c:44-49).         *)
LockKept == [][\A f \in Fds : EXCL \in fd_flags[f] => Locks(f)]_filesVars
=============================================================================
