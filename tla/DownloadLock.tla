---------------------------- MODULE DownloadLock ----------------------------
(***************************************************************************)
(* hold_download_lock (src/mxhttp/download.py): an advisory lock on the    *)
(* file {name}.part.lock, which every holder unlinks while it still holds  *)
(* it.  A lock is on an inode and a path names one inode at a time, so a   *)
(* call may come to lock a file that is no longer there; filelock looks at *)
(* the link count to notice.                                               *)
(*                                                                         *)
(* A caller is one call of a Downloader for the destination, in a thread,  *)
(* a task or a process of its own: a lock belongs to the open file, so it  *)
(* keeps apart two calls of one process as well.                           *)
(***************************************************************************)
EXTENDS Naturals

CONSTANTS
  Callers,
  Inodes,    \* BOUND: inode numbers of the file system, reused when free
  None       \* no inode, no owner

ASSUME LockAssumption == None \notin Callers \cup Inodes

VARIABLES
  name,    \* the inode the lock path names
  fd,      \* fd[c]: the inode that c has open
  owner,   \* owner[i]: the caller that holds the lock of inode i
  pc,      \* pc[c]: where c is
  met      \* callers whose open file has been locked by another since they
           \* opened it: a history that no action reads

lock == <<name, fd, owner, pc>>
vars == <<lock, met>>

Labels == {"idle", "acquire", "open", "locked", "work", "unlink", "release"}

Init ==
  /\ name = None
  /\ fd = [c \in Callers |-> None]
  /\ owner = [i \in Inodes |-> None]
  /\ pc = [c \in Callers |-> "idle"]
  /\ met = {}

Goto(c, label) == pc' = [pc EXCEPT ![c] = label]

Call(c) ==
  /\ pc[c] = "idle"
  /\ Goto(c, "acquire") /\ UNCHANGED <<name, fd, owner>>

(* filelock: open the path, creating the file if there is none.            *)
Free(i) == i # name /\ \A c \in Callers : fd[c] # i

Open(c) ==
  /\ pc[c] = "acquire"
  /\ \/ name # None /\ name' = name
     \/ name = None /\ \E i \in Inodes : Free(i) /\ name' = i
  /\ fd' = [fd EXCEPT ![c] = name']
  /\ Goto(c, "open") /\ UNCHANGED owner

(* Closing the file gives up whatever lock was on it.                      *)
Close(c) ==
  /\ fd' = [fd EXCEPT ![c] = None]
  /\ owner' = [i \in Inodes |-> IF owner[i] = c THEN None ELSE owner[i]]

Refuse(c) == Close(c) /\ Goto(c, "idle") /\ UNCHANGED name

(* Mutant of Flock: a soft lock: the file itself is the lock, and refuses. *)
SoftFlock(c) ==
  /\ pc[c] = "open" /\ Refuse(c)

(* filelock: lock without waiting; timeout=0 makes a failure a             *)
(* DownloadLockError at once.                                              *)
Flock(c) ==
  /\ pc[c] = "open"
  /\ \/ /\ owner[fd[c]] = None
        /\ owner' = [owner EXCEPT ![fd[c]] = c]
        /\ Goto(c, "locked") /\ UNCHANGED <<name, fd>>
     \/ owner[fd[c]] # None /\ Refuse(c)

(* filelock: a locked inode that the path no longer names is closed, and   *)
(* either opened anew or, the timeout of 0 being over, given up.           *)
CheckLink(c) ==
  /\ pc[c] = "locked"
  /\ \/ fd[c] = name /\ Goto(c, "work") /\ UNCHANGED <<name, fd, owner>>
     \/ fd[c] # name /\ Close(c) /\ Goto(c, "acquire") /\ UNCHANGED name
     \/ fd[c] # name /\ Refuse(c)

(* The download itself, to its end or its exception.  Its                  *)
(* cleanup_staging_files matches the lock file too, and skips it by name.  *)
Work(c) ==
  /\ pc[c] = "work"
  /\ Goto(c, "unlink") /\ UNCHANGED <<name, fd, owner>>

(* The lock file goes away by its path, while it is still held; unlinking  *)
(* may fail, or never happen because the task was cancelled.               *)
UnlinkLock(c) ==
  /\ pc[c] = "unlink"
  /\ name' \in {None, name}
  /\ Goto(c, "release") /\ UNCHANGED <<fd, owner>>

(* Mutant of Release: the file is unlinked after the release.              *)
ReleaseUnlinking(c) ==
  /\ pc[c] = "release"
  /\ Close(c) /\ name' = None
  /\ Goto(c, "idle")

Release(c) ==
  /\ pc[c] = "release"
  /\ Close(c)
  /\ Goto(c, "idle") /\ UNCHANGED name

(* The process of the caller dies: its lock is gone and the file stays.    *)
Crash(c) == pc[c] # "idle" /\ Refuse(c)

(* The history: while a caller has a file open, has another held its lock? *)
Meets(c) == fd'[c] # None /\ owner'[fd'[c]] \notin {None, c}

Watch ==
  met' = {c \in Callers : pc'[c] # "idle" /\ (Meets(c) \/ (c \in met /\ fd'[c] = fd[c]))}

Next ==
  \E c \in Callers :
    \/ Call(c) /\ Watch
    \/ Open(c) /\ Watch
    \/ Flock(c) /\ Watch
    \/ CheckLink(c) /\ Watch
    \/ Work(c) /\ Watch
    \/ UnlinkLock(c) /\ Watch
    \/ Release(c) /\ Watch
    \/ Crash(c) /\ Watch

Spec == Init /\ [][Next]_vars

----------------------------------------------------------------------------
TypeOK ==
  /\ name \in Inodes \cup {None}
  /\ fd \in [Callers -> Inodes \cup {None}]
  /\ owner \in [Inodes -> Callers \cup {None}]
  /\ pc \in [Callers -> Labels]
  /\ met \subseteq Callers

Busy(c) == pc[c] \in {"work", "unlink"}

(* README.md:427: no two calls ever work on the staging files of one       *)
(* destination, although each of them removes the lock file it relies on.  *)
MutualExclusion == \A c, d \in Callers : Busy(c) /\ Busy(d) => c = d

(* A call at work holds the lock of the file that is there for others to   *)
(* find: the next caller cannot slip past on a new file.                   *)
HolderIsVisible == \A c \in Callers : Busy(c) => name = fd[c] /\ owner[name] = c

Refused(c) == (Flock(c) \/ CheckLink(c)) /\ pc'[c] = "idle"

(* A lock file that a crash left behind refuses nobody: whoever is turned  *)
(* away, while locking or for a file that is no longer there, has had open *)
(* a file whose lock another call held in the meantime.                    *)
OnlyHoldersRefuse == [][ \A c \in Callers : Refused(c) => c \in met ]_vars

(* download.py:211 "DownloadLockError: If another process holds the lock": *)
(* so a call that is refused is refused for one that holds a lock now.     *)
RefusedMeansHeld ==
  [][ \A c \in Callers :
        Refused(c) => \E i \in Inodes : owner[i] \notin {None, c} ]_vars

(* The strengthening the proof uses: a lock is held by the call that has   *)
(* the file open, and a call that got past the link count has the file     *)
(* that the path names until it has unlinked it.                           *)
LockInv ==
  /\ TypeOK
  /\ HolderIsVisible
  /\ \A i \in Inodes : owner[i] # None =>
       /\ fd[owner[i]] = i
       /\ pc[owner[i]] \in {"locked", "work", "unlink", "release"}
  /\ \A c \in Callers : pc[c] \in {"locked", "release"} => owner[fd[c]] = c
  /\ \A c \in Callers : fd[c] = None <=> pc[c] \in {"idle", "acquire"}

(* What a call has met: whoever holds its file, and whoever unlinked it.   *)
MetInv ==
  \A c \in Callers :
    /\ fd[c] # None /\ owner[fd[c]] \notin {None, c} => c \in met
    /\ pc[c] \in {"open", "locked"} /\ name # fd[c] => c \in met
=============================================================================
