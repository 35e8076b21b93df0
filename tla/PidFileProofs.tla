--------------------------- MODULE PidFileProofs ---------------------------
(***************************************************************************)
(* Proofs about the pid file, for any number of listeners, of processes    *)
(* running wfb_listener -K and of files made at the path, with or without  *)
(* process ids that come back.                                             *)
(***************************************************************************)
EXTENDS PidFile, TLAPS

Handles == Inodes \cup {None}

ProcTypes ==
  /\ pc \in [Pids -> Labels]
  /\ fd \in [Pids -> Handles]
  /\ lock \in [Pids -> {"no", "sh", "ex"}]
  /\ home \in [Pids -> Handles]

KillTypes ==
  /\ kpc \in [Killers -> {"none", "opened", "locked", "kill", "wait"}]
  /\ kfd \in [Killers -> Handles]

FileTypes ==
  /\ path \in Handles
  /\ next \in 0 .. MaxInodes
  /\ content \in [Inodes -> Pids \cup {None}]

(* What a listener holds is told by where it is in create_pid_file.        *)
Holds ==
  \A p \in Pids :
    /\ pc[p] \in Starting => fd[p] \in Inodes
    /\ pc[p] \in {"shared", "free"} => lock[p] = "sh"
    /\ pc[p] \in {"exclusive", "truncated"} => lock[p] = "ex"
    /\ pc[p] \notin {"shared", "free", "exclusive", "truncated"} => lock[p] = "no"

(* An exclusive lock excludes every other one on the same file.            *)
ExclusiveAlone ==
  \A p \in Pids : lock[p] = "ex" =>
    /\ \A q \in Pids : q # p /\ fd[q] = fd[p] => lock[q] = "no"
    /\ \A k \in Killers : kfd[k] = fd[p] => kpc[k] # "locked"

(* A listener that has a file is past create_pid_file and alive, and its   *)
(* pid is in the file.                                                     *)
Owned ==
  \A p \in Pids : home[p] # None =>
    /\ pc[p] \in {"ready", "serving", "cleanup"}
    /\ content[home[p]] = p

(* Once a listener has read that nobody is there, the file is nobody's     *)
(* until it has written it.                                                *)
Unowned ==
  \A p, q \in Pids :
    pc[q] \in {"free", "exclusive", "truncated"} => home[p] # fd[q]

PidInv ==
  /\ ProcTypes /\ KillTypes /\ FileTypes
  /\ Holds /\ ExclusiveAlone /\ Owned /\ Unowned

-----------------------------------------------------------------------------

LEMMA InodesPositive == None \notin Inodes
BY PidFileAssumption DEF None, Inodes

LEMMA InitPid == Init => PidInv
BY PidFileAssumption
DEF Init, PidInv, ProcTypes, KillTypes, FileTypes, Holds, ExclusiveAlone,
    Owned, Unowned, Handles, Inodes, None, Labels, Starting

(* Opening the file, with or without making it.                            *)
LEMMA OpenPid == ASSUME PidInv, NEW p \in Pids, Open(p) PROVE PidInv'
<1> USE DEF PidInv
<1>1. path' \in Inodes /\ next' \in 0 .. MaxInodes
  BY PidFileAssumption DEF Open, FileTypes, Handles, Inodes, None
<1>2. ProcTypes' /\ KillTypes' /\ FileTypes'
  BY <1>1 DEF Open, Move, killVars, ProcTypes, KillTypes, FileTypes, Handles,
              Labels, Starting
<1>3. Holds' /\ ExclusiveAlone'
  BY <1>1, <1>2 DEF Open, Move, killVars, ProcTypes, KillTypes, Holds,
                    ExclusiveAlone, Starting
<1>4. Owned' /\ Unowned'
  BY <1>2 DEF Open, Move, ProcTypes, Owned, Unowned
<1> QED
  BY <1>2, <1>3, <1>4

(* The shared lock: nobody has the exclusive one.                          *)
LEMMA LockSharedPid == ASSUME PidInv, NEW p \in Pids, LockShared(p) PROVE PidInv'
BY DEF PidInv, LockShared, Move, SharedFree, killVars, fileVars, ProcTypes,
       KillTypes, FileTypes, Holds, ExclusiveAlone, Owned, Unowned, Labels,
       Starting

(* A file whose pid is of no live process is nobody's.                     *)
LEMMA ReadPidPid == ASSUME PidInv, NEW p \in Pids, ReadPid(p) PROVE PidInv'
<1> USE DEF PidInv
<1>1. CASE Taken(p)
  BY <1>1 DEF ReadPid, Move, Close, killVars, fileVars, ProcTypes, KillTypes,
    FileTypes, Holds, ExclusiveAlone, Owned, Unowned, Labels, Starting, Handles
<1>2. CASE ~Taken(p)
  <2>1. \A q \in Pids : home[q] # fd[p]
    <3> SUFFICES ASSUME NEW q \in Pids, home[q] = fd[p] PROVE FALSE
      OBVIOUS
    <3>1. fd[p] # None
      BY InodesPositive DEF ReadPid, Holds, Starting
    <3>2. content[fd[p]] = q /\ pc[q] # "none"
      BY <3>1 DEF Owned
    <3>3. q # None
      BY PidFileAssumption DEF None
    <3> QED
      BY <1>2, <3>2, <3>3 DEF Taken, Alive
  <2>2. ProcTypes' /\ KillTypes' /\ FileTypes'
    BY <1>2 DEF ReadPid, Move, killVars, fileVars, ProcTypes, KillTypes,
                FileTypes, Labels, Starting
  <2>3. Holds' /\ ExclusiveAlone' /\ Owned'
    BY <1>2 DEF ReadPid, Move, killVars, fileVars, ProcTypes, Holds,
                ExclusiveAlone, Owned, Starting
  <2>4. Unowned'
    BY <1>2, <2>1 DEF ReadPid, Move, ProcTypes, Unowned
  <2> QED
    BY <2>2, <2>3, <2>4
<1> QED
  BY <1>1, <1>2

LEMMA LockExclusivePid ==
  ASSUME PidInv, NEW p \in Pids, LockExclusive(p) PROVE PidInv'
<1> USE DEF PidInv
<1>1. CASE ExclusiveFree(p, fd[p])
  BY <1>1 DEF LockExclusive, ExclusiveFree, Move, killVars, fileVars, ProcTypes,
    KillTypes, FileTypes, Holds, ExclusiveAlone, Owned, Unowned, Labels, Starting
<1>2. CASE ~ExclusiveFree(p, fd[p])
  BY <1>2 DEF LockExclusive, Move, Close, killVars, fileVars, ProcTypes,
    KillTypes, FileTypes, Holds, ExclusiveAlone, Owned, Unowned, Labels,
    Starting, Handles
<1> QED
  BY <1>1, <1>2

LEMMA TruncatePid == ASSUME PidInv, NEW p \in Pids, Truncate(p) PROVE PidInv'
<1> USE DEF PidInv
<1>1. fd[p] \in Inodes
  BY DEF Truncate, Holds, Starting
<1>2. ProcTypes' /\ KillTypes' /\ FileTypes' /\ Holds' /\ ExclusiveAlone' /\ Unowned'
  BY <1>1 DEF Truncate, Move, killVars, ProcTypes, KillTypes, FileTypes, Holds,
    ExclusiveAlone, Unowned, Labels, Starting
<1>3. Owned'
  BY <1>1 DEF Truncate, Move, ProcTypes, FileTypes, Owned, Unowned, Handles
<1> QED
  BY <1>2, <1>3

(* The file becomes the listener's: nobody else has it, and nobody else is *)
(* about to take it.                                                       *)
LEMMA WritePidPid == ASSUME PidInv, NEW p \in Pids, WritePid(p) PROVE PidInv'
<1> USE DEF PidInv
<1>1. fd[p] \in Inodes /\ lock[p] = "ex"
  BY DEF WritePid, Holds, Starting
<1>2. ProcTypes' /\ KillTypes' /\ FileTypes' /\ Holds' /\ ExclusiveAlone'
  BY <1>1 DEF WritePid, Move, Close, killVars, ProcTypes, KillTypes, FileTypes,
    Holds, ExclusiveAlone, Labels, Starting, Handles
<1>3. Owned'
  BY <1>1 DEF WritePid, Move, ProcTypes, FileTypes, Owned, Unowned, Handles
<1>4. Unowned'
  <2> SUFFICES ASSUME NEW r \in Pids, NEW q \in Pids,
                      pc'[q] \in {"free", "exclusive", "truncated"},
                      home'[r] = fd'[q]
               PROVE  FALSE
    BY DEF Unowned
  <2>1. q # p /\ pc'[q] = pc[q] /\ fd'[q] = fd[q]
    BY DEF WritePid, Move, Close, ProcTypes
  <2>2. fd[q] # fd[p]
    BY <1>1, <2>1 DEF ExclusiveAlone, Holds
  <2> QED
    BY <2>1, <2>2 DEF WritePid, ProcTypes, Unowned
<1> QED
  BY <1>2, <1>3, <1>4

(* The steps that only leave, or that touch neither file nor lock.         *)
LEMMA LeavePid ==
  ASSUME PidInv, NEW p \in Pids,
         CallFails(p) \/ GiveUp(p) \/ Crash(p) \/ CleanupPid(p)
  PROVE  PidInv'
<1> USE DEF PidInv
<1>1. CASE CallFails(p)
  BY <1>1 DEF CallFails, Move, Close, killVars, fileVars, ProcTypes, KillTypes,
    FileTypes, Holds, ExclusiveAlone, Owned, Unowned, Labels, Starting, Handles
<1>2. CASE GiveUp(p)
  BY <1>2 DEF GiveUp, Move, killVars, fileVars, ProcTypes, KillTypes,
    FileTypes, Holds, ExclusiveAlone, Owned, Unowned, Labels, Starting
<1>3. CASE Crash(p)
  <2>1. ProcTypes' /\ KillTypes' /\ FileTypes' /\ Holds' /\ ExclusiveAlone'
    BY <1>3 DEF Crash, Move, Close, killVars, fileVars, ProcTypes, KillTypes,
      FileTypes, Holds, ExclusiveAlone, Labels, Starting, Handles
  <2>2. Owned'
    BY <1>3 DEF Crash, Move, fileVars, ProcTypes, Owned, Handles
  <2>3. Unowned'
    BY <1>3, InodesPositive DEF Crash, Move, Close, ProcTypes, Holds, Unowned,
                                Starting
  <2> QED
    BY <2>1, <2>2, <2>3
<1>4. CASE CleanupPid(p)
  <2>1. ProcTypes' /\ KillTypes' /\ FileTypes' /\ Holds' /\ ExclusiveAlone'
    BY <1>4 DEF CleanupPid, Move, killVars, ProcTypes, KillTypes, FileTypes,
      Holds, ExclusiveAlone, Labels, Starting, Handles
  <2>2. Owned'
    BY <1>4 DEF CleanupPid, Move, ProcTypes, Owned, Handles
  <2>3. Unowned'
    BY <1>4, InodesPositive DEF CleanupPid, Move, ProcTypes, Holds, Unowned,
                                Starting
  <2> QED
    BY <2>1, <2>2, <2>3
<1> QED
  BY <1>1, <1>2, <1>3, <1>4

LEMMA ServePid ==
  ASSUME PidInv, NEW p \in Pids, Foreground(p) \/ Serve(p) \/ IpcCleanup(p)
  PROVE  PidInv'
BY DEF PidInv, Foreground, Serve, IpcCleanup, Move, killVars, fileVars,
  ProcTypes, KillTypes, FileTypes, Holds, ExclusiveAlone, Owned, Unowned,
  Labels, Starting

(* wfb_listener -K locks only what nobody has exclusively.                 *)
LEMMA KillPid == ASSUME PidInv, NEW k \in Killers, Kill(k) PROVE PidInv'
<1> USE DEF PidInv
<1>1. ProcTypes' /\ FileTypes' /\ Holds' /\ Owned' /\ Unowned'
  BY DEF Kill, KillOpen, KillLock, KillRead, KillSignal, KillWait, procVars,
    fileVars, ProcTypes, FileTypes, Holds, Owned, Unowned
<1>2. KillTypes'
  BY DEF Kill, KillOpen, KillLock, KillRead, KillSignal, KillWait, KillTypes,
    FileTypes, Handles
<1>3. ExclusiveAlone'
  BY DEF Kill, KillOpen, KillLock, KillRead, KillSignal, KillWait, SharedFree,
    procVars, ProcTypes, KillTypes, ExclusiveAlone
<1> QED
  BY <1>1, <1>2, <1>3

LEMMA StutterPid ==
  ASSUME PidInv, UNCHANGED <<procVars, killVars, fileVars>> PROVE PidInv'
BY DEF PidInv, procVars, killVars, fileVars, ProcTypes, KillTypes, FileTypes,
  Holds, ExclusiveAlone, Owned, Unowned

LEMMA NextPid == PidInv /\ [Next]_vars => PidInv'
<1> SUFFICES ASSUME PidInv, [Next]_vars PROVE PidInv'
  OBVIOUS
<1>1. ASSUME NEW p \in Pids, Listener(p) PROVE PidInv'
  BY <1>1, OpenPid, LockSharedPid, ReadPidPid, LockExclusivePid, TruncatePid,
     WritePidPid, LeavePid, ServePid DEF Listener
<1>2. ASSUME NEW p \in Pids, ForeignStart(p) \/ ForeignEnd(p) PROVE PidInv'
  BY <1>2, StutterPid DEF ForeignStart, ForeignEnd
<1>3. ASSUME NEW k \in Killers, Kill(k) PROVE PidInv'
  BY <1>3, KillPid
<1>4. CASE UNCHANGED vars
  BY <1>4, StutterPid DEF vars
<1> QED
  BY <1>1, <1>2, <1>3, <1>4 DEF Next, Idle

(* The pid file a live daemon took names it as long as it lives, so that   *)
(* no two daemons ever took one file: create_pid_file's shared lock, read, *)
(* exclusive lock and write, against any other listener, crash, removal    *)
(* and reuse of process ids.                                               *)
THEOREM OwnerNamed == Spec => []FileNamesOwner
<1>1. PidInv => FileNamesOwner
  BY DEF PidInv, Owned, FileNamesOwner
<1> QED
  BY InitPid, NextPid, <1>1, PTL DEF Spec

(* kill_daemon's read never falls between a truncation and the write that  *)
(* follows it.                                                             *)
THEOREM WholePidRead == Spec => []ReadersSeeWholePid
<1>1. PidInv => ReadersSeeWholePid
  BY DEF PidInv, Holds, ExclusiveAlone, ReadersSeeWholePid
<1> QED
  BY InitPid, NextPid, <1>1, PTL DEF Spec

-----------------------------------------------------------------------------

(* What the proofs above do not need: the pid to be killed, the socket's   *)
(* path, foreign processes and the history.  Whoever reads a file has one  *)
(* open.                                                                   *)
OtherTypes ==
  /\ \A k \in Killers : kpc[k] \in {"opened", "locked"} => kfd[k] \in Inodes
  /\ kpid \in [Killers -> Pids \cup {None}]
  /\ \A k \in Killers : kpc[k] \in {"kill", "wait"} => kpid[k] # None
  /\ ctrl \in Pids \cup {None}
  /\ foreign \in SUBSET Pids
  /\ used \in SUBSET Pids
  /\ rival \in [Pids -> BOOLEAN]

LEMMA InitOther == Init => OtherTypes
BY DEF Init, OtherTypes, None

LEMMA NextOther == PidInv /\ OtherTypes /\ [Next]_vars => OtherTypes'
<1> SUFFICES ASSUME PidInv, OtherTypes, [Next]_vars PROVE OtherTypes'
  OBVIOUS
<1> USE DEF OtherTypes
<1>1. ASSUME NEW p \in Pids, Listener(p) PROVE OtherTypes'
  BY <1>1 DEF Listener, Open, LockShared, ReadPid, LockExclusive, Truncate,
    WritePid, CallFails, GiveUp, Foreground, Serve, IpcCleanup, CleanupPid,
    Crash, Move, killVars
<1>2. ASSUME NEW p \in Pids, ForeignStart(p) \/ ForeignEnd(p) PROVE OtherTypes'
  BY <1>2 DEF ForeignStart, ForeignEnd, killVars
<1>3. ASSUME NEW k \in Killers, Kill(k) PROVE OtherTypes'
  <2>1. CASE KillOpen(k) \/ KillLock(k) \/ KillSignal(k) \/ KillWait(k)
    BY <2>1 DEF KillOpen, KillLock, KillSignal, KillWait, PidInv, KillTypes,
      FileTypes, Handles
  <2>2. CASE KillRead(k)
    <3>1. content[kfd[k]] \in Pids \cup {None}
      BY <2>2 DEF KillRead, PidInv, FileTypes
    <3> QED
      BY <2>2, <3>1 DEF KillRead, PidInv, KillTypes
  <2> QED
    BY <1>3, <2>1, <2>2 DEF Kill
<1>4. CASE UNCHANGED vars
  BY <1>4 DEF vars, killVars
<1> QED
  BY <1>1, <1>2, <1>3, <1>4 DEF Next, Idle

(* Every variable keeps its type, and kill_daemon signals only a pid it    *)
(* has read: never 0, which would be its own process group.                *)
THEOREM PidTypes == Spec => []TypeOK
<1>1. PidInv /\ OtherTypes => TypeOK
  BY DEF PidInv, OtherTypes, ProcTypes, KillTypes, FileTypes, Handles, TypeOK
<1> QED
  BY InitPid, NextPid, InitOther, NextOther, <1>1, PTL DEF Spec

-----------------------------------------------------------------------------
(* Why a listener is refused                                               *)

Met == Starting \cup {"refused"}

(* A listener that met nobody while it starts, or until it was refused, is *)
(* still alone.                                                            *)
Alone ==
  \A p \in Pids : pc[p] \in Met /\ ~rival[p] =>
    /\ \A q \in Pids \ {p} : pc[q] = "none" /\ q \notin foreign
    /\ \A k \in Killers : kpc[k] = "none"

RefuseInv == Alone /\ RefusedForRival

LEMMA InitRefuse == Init => RefuseInv
BY DEF Init, RefuseInv, Alone, RefusedForRival, Met, Starting

(* A step of a listener that is there already: every other one that starts *)
(* or was refused has met it.                                              *)
LEMMA OwnStep ==
  ASSUME RefuseInv, PidInv, NEW p \in Pids, pc[p] # "none",
         NEW label, Move(p, label), label \in Met => pc[p] \in Met,
         UNCHANGED <<kpc, foreign, rival>>,
         label = "refused" => rival[p] \/ (OwnPidLeft(p))'
  PROVE  RefuseInv'
<1>1. \A q \in Pids : pc'[q] = IF q = p THEN label ELSE pc[q]
  BY DEF Move, PidInv, ProcTypes
<1>2. \A q \in Pids \ {p} : pc[q] \in Met => rival[q]
  BY DEF RefuseInv, Alone
<1>3. Alone'
  BY <1>1, <1>2 DEF RefuseInv, Alone
<1>4. RefusedForRival'
  BY <1>1, <1>2 DEF RefusedForRival, Met
<1> QED
  BY <1>3, <1>4 DEF RefuseInv

(* create_pid_file refuses for a live pid in the file, its own or that of  *)
(* another, ...                                                            *)
LEMMA ReadPidRefuse ==
  ASSUME RefuseInv, PidInv, NEW p \in Pids, ReadPid(p) PROVE RefuseInv'
<1>1. pc[p] = "shared" /\ fd[p] \in Inodes
  BY DEF ReadPid, PidInv, Holds, Starting
<1>2. CASE Taken(p)
  <2>1. Move(p, "refused") /\ UNCHANGED <<kpc, content, foreign, rival>>
    BY <1>2 DEF ReadPid, killVars, fileVars
  <2>2. PICK q \in Pids : content[fd[p]] = q /\ Alive(q)
    BY <1>1, <1>2 DEF Taken, PidInv, FileTypes
  <2>3. CASE q = p
    <3>1. (OwnPidLeft(p))'
      BY <1>1, <2>1, <2>2, <2>3 DEF OwnPidLeft
    <3> QED
      BY <1>1, <2>1, <3>1, OwnStep DEF Met, Starting
  <2>4. CASE q # p
    <3>1. rival[p]
      BY <1>1, <2>2, <2>4 DEF Alive, RefuseInv, Alone, Met, Starting
    <3> QED
      BY <1>1, <2>1, <3>1, OwnStep DEF Met, Starting
  <2> QED
    BY <2>3, <2>4
<1>3. CASE ~Taken(p)
  <2>1. Move(p, "free") /\ UNCHANGED <<kpc, foreign, rival>>
    BY <1>3 DEF ReadPid, killVars
  <2> QED
    BY <1>1, <2>1, OwnStep DEF Met, Starting
<1> QED
  BY <1>2, <1>3

(* ... and for a lock, which only somebody who is there can have.          *)
LEMMA LockExclusiveRefuse ==
  ASSUME RefuseInv, PidInv, NEW p \in Pids, LockExclusive(p) PROVE RefuseInv'
<1>1. pc[p] = "free" /\ UNCHANGED <<kpc, foreign, rival>>
  BY DEF LockExclusive, killVars
<1>2. CASE ExclusiveFree(p, fd[p])
  BY <1>1, <1>2, OwnStep DEF LockExclusive, Met, Starting
<1>3. CASE ~ExclusiveFree(p, fd[p])
  <2>1. rival[p]
    <3>1. CASE \E q \in Pids \ {p} : lock[q] # "no"
      BY <1>1, <3>1 DEF PidInv, Holds, RefuseInv, Alone, Met, Starting
    <3>2. CASE \E k \in Killers : kpc[k] = "locked"
      BY <1>1, <3>2 DEF RefuseInv, Alone, Met, Starting
    <3> QED
      BY <1>3, <3>1, <3>2 DEF ExclusiveFree
  <2>2. Move(p, "refused")
    BY <1>3 DEF LockExclusive
  <2> QED
    BY <1>1, <2>1, <2>2, OwnStep DEF Met, Starting
<1> QED
  BY <1>2, <1>3

(* The other steps of a listener that is there refuse nobody.              *)
LEMMA StepRefuse ==
  ASSUME RefuseInv, PidInv, NEW p \in Pids,
         \/ LockShared(p) \/ Truncate(p) \/ WritePid(p) \/ CallFails(p)
         \/ Serve(p) \/ IpcCleanup(p) \/ CleanupPid(p) \/ GiveUp(p) \/ Crash(p)
  PROVE  RefuseInv'
<1>1. pc[p] # "none" /\ UNCHANGED <<kpc, foreign, rival>>
  BY DEF LockShared, Truncate, WritePid, CallFails, Serve, IpcCleanup,
         CleanupPid, GiveUp, Crash, killVars, Starting
<1>2. CASE LockShared(p)
  BY <1>1, <1>2, OwnStep DEF LockShared, Met, Starting
<1>3. CASE Truncate(p)
  BY <1>1, <1>3, OwnStep DEF Truncate, Met, Starting
<1>4. \E label \in {"ready", "failed", "serving", "cleanup", "none"} :
        Move(p, label) \/ LockShared(p) \/ Truncate(p)
  BY DEF WritePid, CallFails, Serve, IpcCleanup, CleanupPid, GiveUp, Crash
<1> QED
  BY <1>1, <1>2, <1>3, <1>4, OwnStep DEF Met, Starting

(* A listener that starts looks for others, and they have met it.          *)
LEMMA ArriveRefuse ==
  ASSUME RefuseInv, PidInv, NEW p \in Pids, Open(p) \/ Foreground(p)
  PROVE  RefuseInv'
<1>1. UNCHANGED <<kpc, foreign>>
  BY DEF Open, Foreground, killVars
<1>2. \A q \in Pids \ {p} : pc'[q] = pc[q] /\ rival'[q]
  BY DEF Open, Foreground, Move, PidInv, ProcTypes
<1>3. \/ pc'[p] = "ready"
      \/ pc'[p] = "opened" /\ (rival'[p] <=> Others(p) # {} \/ Readers # {})
  BY DEF Open, Foreground, Move, PidInv, ProcTypes
<1>4. ASSUME Others(p) = {}, Readers = {}
      PROVE  /\ \A q \in Pids \ {p} : pc[q] = "none" /\ q \notin foreign
             /\ \A k \in Killers : kpc[k] = "none"
  BY <1>4 DEF Others, Readers, Alive
<1>5. Alone'
  BY <1>1, <1>2, <1>3, <1>4 DEF Alone, Met, Starting
<1>6. RefusedForRival'
  BY <1>2, <1>3 DEF RefusedForRival
<1> QED
  BY <1>5, <1>6 DEF RefuseInv

(* wfb_listener -K and foreign processes are met when they appear.         *)
LEMMA KillRefuse ==
  ASSUME RefuseInv, PidInv, NEW k \in Killers, Kill(k) PROVE RefuseInv'
<1>1. UNCHANGED <<pc, content>>
  BY DEF Kill, KillOpen, KillLock, KillRead, KillSignal, KillWait, procVars,
         fileVars
<1>2. CASE KillOpen(k)
  BY <1>1, <1>2 DEF KillOpen, RefuseInv, Alone, RefusedForRival
<1>3. CASE ~KillOpen(k)
  <2>1. kpc[k] # "none" /\ UNCHANGED rival
    BY <1>3 DEF Kill, KillLock, KillRead, KillSignal, KillWait
  <2>2. \A p \in Pids : pc[p] \in Met => rival[p]
    BY <2>1 DEF RefuseInv, Alone
  <2> QED
    BY <1>1, <2>1, <2>2 DEF RefuseInv, Alone, RefusedForRival, Met
<1> QED
  BY <1>2, <1>3

LEMMA ForeignRefuse ==
  ASSUME RefuseInv, NEW p \in Pids, ForeignStart(p) \/ ForeignEnd(p)
  PROVE  RefuseInv'
BY DEF ForeignStart, ForeignEnd, RefuseInv, Alone, RefusedForRival, OwnPidLeft,
       procVars, killVars, fileVars

LEMMA NextRefuse == RefuseInv /\ PidInv /\ [Next]_vars => RefuseInv'
<1> SUFFICES ASSUME RefuseInv, PidInv, [Next]_vars PROVE RefuseInv'
  OBVIOUS
<1>1. ASSUME NEW p \in Pids, Listener(p) PROVE RefuseInv'
  BY <1>1, ArriveRefuse, ReadPidRefuse, LockExclusiveRefuse, StepRefuse
     DEF Listener
<1>2. ASSUME NEW p \in Pids, ForeignStart(p) \/ ForeignEnd(p) PROVE RefuseInv'
  BY <1>2, ForeignRefuse
<1>3. ASSUME NEW k \in Killers, Kill(k) PROVE RefuseInv'
  BY <1>3, KillRefuse
<1>4. CASE UNCHANGED vars
  BY <1>4 DEF vars, procVars, killVars, fileVars, RefuseInv, Alone,
              RefusedForRival, OwnPidLeft
<1> QED
  BY <1>1, <1>2, <1>3, <1>4 DEF Next, Idle

(* "Another process running." is never said because of what a listener     *)
(* that is gone left behind, its lock or its pid, save the starting        *)
(* process's own pid in the file.                                          *)
THEOREM RefusedForCause == Spec => []RefusedForRival
<1>1. RefuseInv => RefusedForRival
  BY DEF RefuseInv
<1> QED
  BY InitPid, NextPid, InitRefuse, NextRefuse, <1>1, PTL DEF Spec

=============================================================================
