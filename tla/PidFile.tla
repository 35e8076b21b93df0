------------------------------ MODULE PidFile ------------------------------
(***************************************************************************)
(* Listeners that start, end and are killed on one pid file and one        *)
(* control socket: daemon.c, the socket's path in wfb_ipc.c, and the order *)
(* in which _main takes them.                                              *)
(*                                                                         *)
(* A file is an inode; the path names at most one, and an inode lives on   *)
(* without the path while somebody has it open.  Every system call is a    *)
(* step of its own.  flock(2) is Linux': a conversion is one step, and one *)
(* that fails has given the old lock away.                                 *)
(***************************************************************************)
EXTENDS Naturals

CONSTANTS
  Pids,          \* process ids; a listener is known by its own
  Killers,       \* processes running wfb_listener -K
  MaxInodes,     \* how many files may be created at the path
  PidReuse       \* a process id may come back

ASSUME PidFileAssumption ==
  /\ 0 \notin Pids
  /\ MaxInodes \in Nat \ {0}
  /\ PidReuse \in BOOLEAN

None == 0       \* no file, no process, an empty file

Inodes == 1 .. MaxInodes

(* Inside create_pid_file, by the last call made.                          *)
Starting == {"opened", "shared", "free", "exclusive", "truncated"}

Labels == Starting \cup {"none", "refused", "failed", "ready", "serving", "cleanup"}

VARIABLES
  pc,            \* a listener's progress; "none": there is no such process
  fd,            \* the inode its descriptor of the pid file is open on
  lock,          \* the lock it has there: "no", "sh" or "ex"
  home,          \* the inode it wrote its pid to: last_pid_file is set
  kpc, kfd, kpid,   \* kill_daemon
  path, next,    \* the inode the path names; the inodes made so far
  content,       \* the pid in a file
  ctrl,          \* the listener bound to the socket the control path names
  foreign,       \* pids of processes that are not listeners
  used,          \* pids given to a listener so far
  rival          \* history: somebody else was there during its start

procVars == <<pc, fd, lock, home>>
killVars == <<kpc, kfd, kpid>>
fileVars == <<path, next, content>>
vars     == <<procVars, killVars, fileVars, ctrl, foreign, used, rival>>

(* kill(pid, 0) == 0 *)
Alive(p) == p \in foreign \/ (p \in Pids /\ pc[p] # "none")

Others(p) == {q \in Pids \ {p} : Alive(q)}

Readers == {k \in Killers : kpc[k] # "none"}

Move(p, label) == pc' = [pc EXCEPT ![p] = label]

(* close(fd), which also unlocks.                                          *)
Close(p) ==
  /\ fd' = [fd EXCEPT ![p] = None]
  /\ lock' = [lock EXCEPT ![p] = "no"]

(* flock(fd, how) can be granted to whoever is not in the way of others.   *)
SharedFree(i) == \A q \in Pids : ~(fd[q] = i /\ lock[q] = "ex")

ExclusiveFree_AmongReaders(p, i) ==
  /\ SharedFree(i)
  /\ \A k \in Killers : ~(kfd[k] = i /\ kpc[k] = "locked")

ExclusiveFree(p, i) ==
  /\ \A q \in Pids \ {p} : ~(fd[q] = i /\ lock[q] # "no")
  /\ \A k \in Killers : ~(kfd[k] = i /\ kpc[k] = "locked")

-----------------------------------------------------------------------------
(* create_pid_file                                                         *)

(* create_daemon's child opens the file, O_CREAT.  Who is about while a    *)
(* listener starts is its rival.                                           *)
Open(p) ==
  /\ pc[p] = "none"
  /\ p \notin foreign
  /\ PidReuse \/ p \notin used
  /\ used' = used \cup {p}
  /\ Move(p, "opened")
  /\ IF path = None
     THEN /\ next < MaxInodes
          /\ next' = next + 1
          /\ path' = next'
     ELSE UNCHANGED <<path, next>>
  /\ fd' = [fd EXCEPT ![p] = path']
  /\ rival' = [q \in Pids |->
                 IF q = p THEN Others(p) # {} \/ Readers # {} ELSE TRUE]
  /\ UNCHANGED <<lock, home, killVars, content, ctrl, foreign>>

(* flock(LOCK_SH) waits.                                                   *)
LockShared(p) ==
  /\ pc[p] = "opened"
  /\ SharedFree(fd[p])
  /\ lock' = [lock EXCEPT ![p] = "sh"]
  /\ Move(p, "shared")
  /\ UNCHANGED <<fd, home, killVars, fileVars, ctrl, foreign, used, rival>>

(* The pid in the file is that of a live process.                          *)
Taken_AnyPid(p) == content[fd[p]] # None

Taken(p) == content[fd[p]] # None /\ Alive(content[fd[p]])

ReadPid(p) ==
  /\ pc[p] = "shared"
  /\ \/ /\ Taken(p)
        /\ Move(p, "refused")
        /\ Close(p)
     \/ /\ ~Taken(p)
        /\ Move(p, "free")
        /\ UNCHANGED <<fd, lock>>
  /\ UNCHANGED <<home, killVars, fileVars, ctrl, foreign, used, rival>>

(* flock(LOCK_EX | LOCK_NB) *)
LockExclusive(p) ==
  /\ pc[p] = "free"
  /\ \/ /\ ExclusiveFree(p, fd[p])
        /\ lock' = [lock EXCEPT ![p] = "ex"]
        /\ Move(p, "exclusive")
        /\ UNCHANGED fd
     \/ /\ ~ExclusiveFree(p, fd[p])
        /\ Move(p, "refused")
        /\ Close(p)
  /\ UNCHANGED <<home, killVars, fileVars, ctrl, foreign, used, rival>>

Truncate(p) ==
  /\ pc[p] = "exclusive"
  /\ content' = [content EXCEPT ![fd[p]] = None]
  /\ Move(p, "truncated")
  /\ UNCHANGED <<fd, lock, home, killVars, path, next, ctrl, foreign, used, rival>>

(* write_pid, close, last_pid_file, atexit(cleanup_pid).                   *)
WritePid(p) ==
  /\ pc[p] = "truncated"
  /\ content' = [content EXCEPT ![fd[p]] = p]
  /\ home' = [home EXCEPT ![p] = fd[p]]
  /\ Move(p, "ready")
  /\ Close(p)
  /\ UNCHANGED <<killVars, path, next, ctrl, foreign, used, rival>>

(* A call that fails for another reason: the file stays as it is.          *)
CallFails(p) ==
  /\ pc[p] \in Starting
  /\ Move(p, "failed")
  /\ Close(p)
  /\ UNCHANGED <<home, killVars, fileVars, ctrl, foreign, used, rival>>

-----------------------------------------------------------------------------
(* _main                                                                   *)

(* Without -D there is no pid file.                                        *)
Foreground(p) ==
  /\ pc[p] = "none"
  /\ p \notin foreign
  /\ PidReuse \/ p \notin used
  /\ used' = used \cup {p}
  /\ Move(p, "ready")
  /\ rival' = [q \in Pids |-> q # p]
  /\ UNCHANGED <<fd, lock, home, killVars, fileVars, ctrl, foreign>>

(* ipc_rx_socket: unlink(path), bind, listen, atexit(ipc_cleanup).         *)
Serve(p) ==
  /\ pc[p] = "ready"
  /\ Move(p, "serving")
  /\ ctrl' = p
  /\ UNCHANGED <<fd, lock, home, killVars, fileVars, foreign, used, rival>>

(* exit, after a failed initialisation or the end of the loop: the         *)
(* handlers run in reverse order of their registration, ipc_cleanup first. *)
IpcCleanup(p) ==
  /\ pc[p] \in {"ready", "serving"}
  /\ Move(p, "cleanup")
  /\ ctrl' = IF pc[p] = "serving" THEN None ELSE ctrl
  /\ UNCHANGED <<fd, lock, home, killVars, fileVars, foreign, used, rival>>

(* cleanup_pid: unlink(last_pid_file), whatever file that is by now.       *)
CleanupPid(p) ==
  /\ pc[p] = "cleanup"
  /\ Move(p, "none")
  /\ path' = IF home[p] # None THEN None ELSE path
  /\ home' = [home EXCEPT ![p] = None]
  /\ UNCHANGED <<fd, lock, killVars, next, content, ctrl, foreign, used, rival>>

(* create_daemon has failed; no handler is registered.                     *)
GiveUp(p) ==
  /\ pc[p] \in {"refused", "failed"}
  /\ Move(p, "none")
  /\ UNCHANGED <<fd, lock, home, killVars, fileVars, ctrl, foreign, used, rival>>

(* The process dies without running its handlers: SIGKILL, an assertion,   *)
(* SIGTERM before netcore_initialize has installed its handler.            *)
Crash(p) ==
  /\ pc[p] # "none"
  /\ Move(p, "none")
  /\ Close(p)
  /\ home' = [home EXCEPT ![p] = None]
  /\ UNCHANGED <<killVars, fileVars, ctrl, foreign, used, rival>>

-----------------------------------------------------------------------------
(* kill_daemon                                                             *)

(* read_pid_file: open; without a file there is nothing to do.             *)
KillOpen(k) ==
  /\ kpc[k] = "none"
  /\ path # None
  /\ kfd' = [kfd EXCEPT ![k] = path]
  /\ kpc' = [kpc EXCEPT ![k] = "opened"]
  /\ rival' = [q \in Pids |-> TRUE]
  /\ UNCHANGED <<procVars, kpid, fileVars, ctrl, foreign, used>>

(* flock(LOCK_SH) *)
KillLock_None(k) ==
  /\ kpc[k] = "opened"
  /\ kpc' = [kpc EXCEPT ![k] = "locked"]
  /\ UNCHANGED <<procVars, kfd, kpid, fileVars, ctrl, foreign, used, rival>>

KillLock(k) ==
  /\ kpc[k] = "opened"
  /\ SharedFree(kfd[k])
  /\ kpc' = [kpc EXCEPT ![k] = "locked"]
  /\ UNCHANGED <<procVars, kfd, kpid, fileVars, ctrl, foreign, used, rival>>

(* read_pid, close: no pid, no signal.                                     *)
KillRead(k) ==
  /\ kpc[k] = "locked"
  /\ kfd' = [kfd EXCEPT ![k] = None]
  /\ IF content[kfd[k]] = None
     THEN /\ kpc' = [kpc EXCEPT ![k] = "none"]
          /\ UNCHANGED kpid
     ELSE /\ kpid' = [kpid EXCEPT ![k] = content[kfd[k]]]
          /\ kpc' = [kpc EXCEPT ![k] = "kill"]
  /\ UNCHANGED <<procVars, fileVars, ctrl, foreign, used, rival>>

(* kill(pid, SIGTERM): a process that is not a listener dies of it; a      *)
(* listener will exit, or crash, which both are always possible.           *)
KillSignal(k) ==
  /\ kpc[k] = "kill"
  /\ IF Alive(kpid[k])
     THEN /\ kpc' = [kpc EXCEPT ![k] = "wait"]
          /\ foreign' = foreign \ {kpid[k]}
          /\ UNCHANGED kpid
     ELSE /\ kpc' = [kpc EXCEPT ![k] = "none"]
          /\ kpid' = [kpid EXCEPT ![k] = None]
          /\ UNCHANGED foreign
  /\ UNCHANGED <<procVars, kfd, fileVars, ctrl, used, rival>>

(* Until kill(pid, 0) fails, for 30 seconds at most.                       *)
KillWait(k) ==
  /\ kpc[k] = "wait"
  /\ kpc' = [kpc EXCEPT ![k] = "none"]
  /\ kpid' = [kpid EXCEPT ![k] = None]
  /\ UNCHANGED <<procVars, kfd, fileVars, ctrl, foreign, used, rival>>

-----------------------------------------------------------------------------
(* Another program gets the process id of a listener that has ended.       *)
ForeignStart(p) ==
  /\ PidReuse
  /\ p \in used
  /\ ~Alive(p)
  /\ foreign' = foreign \cup {p}
  /\ rival' = [q \in Pids |-> TRUE]
  /\ UNCHANGED <<procVars, killVars, fileVars, ctrl, used>>

ForeignEnd(p) ==
  /\ p \in foreign
  /\ foreign' = foreign \ {p}
  /\ UNCHANGED <<procVars, killVars, fileVars, ctrl, used, rival>>

Init ==
  /\ pc = [p \in Pids |-> "none"]
  /\ fd = [p \in Pids |-> None]
  /\ lock = [p \in Pids |-> "no"]
  /\ home = [p \in Pids |-> None]
  /\ kpc = [k \in Killers |-> "none"]
  /\ kfd = [k \in Killers |-> None]
  /\ kpid = [k \in Killers |-> None]
  /\ path = None
  /\ next = 0
  /\ content = [i \in Inodes |-> None]
  /\ ctrl = None
  /\ foreign = {}
  /\ used = {}
  /\ rival = [p \in Pids |-> FALSE]

Listener(p) ==
  \/ Open(p) \/ LockShared(p) \/ ReadPid(p) \/ LockExclusive(p)
  \/ Truncate(p) \/ WritePid(p) \/ CallFails(p) \/ Foreground(p)
  \/ Serve(p) \/ IpcCleanup(p) \/ CleanupPid(p) \/ GiveUp(p) \/ Crash(p)

Kill(k) ==
  KillOpen(k) \/ KillLock(k) \/ KillRead(k) \/ KillSignal(k) \/ KillWait(k)

(* Every listener may have ended, and no inode be left.                    *)
Idle == (\A p \in Pids : pc[p] = "none") /\ UNCHANGED vars

Next ==
  \/ \E p \in Pids : Listener(p) \/ ForeignStart(p) \/ ForeignEnd(p)
  \/ \E k \in Killers : Kill(k)
  \/ Idle

Spec == Init /\ [][Next]_vars

-----------------------------------------------------------------------------
(* Properties                                                              *)

(* The variables keep their types; a signal is never sent to pid 0, the    *)
(* sender's own process group.                                             *)
TypeOK ==
  /\ pc \in [Pids -> Labels]
  /\ fd \in [Pids -> Inodes \cup {None}]
  /\ lock \in [Pids -> {"no", "sh", "ex"}]
  /\ home \in [Pids -> Inodes \cup {None}]
  /\ kpc \in [Killers -> {"none", "opened", "locked", "kill", "wait"}]
  /\ kfd \in [Killers -> Inodes \cup {None}]
  /\ kpid \in [Killers -> Pids \cup {None}]
  /\ \A k \in Killers : kpc[k] \in {"kill", "wait"} => kpid[k] # None
  /\ path \in Inodes \cup {None}
  /\ next \in 0 .. MaxInodes
  /\ content \in [Inodes -> Pids \cup {None}]
  /\ ctrl \in Pids \cup {None}
  /\ foreign \in SUBSET Pids
  /\ used \in SUBSET Pids
  /\ rival \in [Pids -> BOOLEAN]

(* kill_daemon never reads a pid file between truncation and write: an     *)
(* empty file means that a daemon died there, or could not write.          *)
ReadersSeeWholePid ==
  \A k \in Killers, p \in Pids :
    kpc[k] = "locked" /\ pc[p] = "truncated" => kfd[k] # fd[p]

(* The file a live daemon took holds its pid as long as it lives, so no    *)
(* two daemons ever took the same file: what was read under the shared     *)
(* lock still decides when the exclusive lock is had, whoever started,     *)
(* crashed or unlinked the file in between.                                *)
FileNamesOwner ==
  \A p \in Pids : home[p] # None => content[home[p]] = p

(* "Another process running." is said only to a listener that really met   *)
(* another process while it started: neither the pid file nor the lock of  *)
(* a listener that crashed stops it, but for the one file whose stale pid  *)
(* happens to be the starting process's own, which it finds alive.         *)
OwnPidLeft(p) == \E i \in Inodes : content[i] = p

RefusedForRival ==
  \A p \in Pids : pc[p] = "refused" => rival[p] \/ OwnPidLeft(p)

=============================================================================
