------------------------- MODULE DownloadLockProofs -------------------------
(***************************************************************************)
(* Proofs about DownloadLock, for any number of callers and inodes.        *)
(***************************************************************************)
EXTENDS DownloadLock, TLAPS

(* Initially nobody is in a call and no file is locked.                    *)
LEMMA LockInit == Init => LockInv
  BY LockAssumption
  DEF Init, LockInv, TypeOK, HolderIsVisible, Busy, Labels

(* A step records whom it lets meet.                                       *)
LEMMA StepWatches == Next => Watch
  BY DEF Next

(* Each step of a call, and a crash, keeps the strengthened invariant.     *)
LEMMA LockStep == LockInv /\ [Next]_vars => LockInv'
<1> SUFFICES ASSUME LockInv, [Next]_vars PROVE LockInv'
  OBVIOUS
<1> USE LockAssumption DEF LockInv, TypeOK, HolderIsVisible, Busy, Labels
<1>0. met' \subseteq Callers
  BY StepWatches DEF Watch, vars
<1>1. CASE UNCHANGED vars
  BY <1>1 DEF vars, lock
<1>2. ASSUME NEW c \in Callers, Call(c) PROVE LockInv'
  BY <1>0, <1>2 DEF Call, Goto
<1>3. ASSUME NEW c \in Callers, Open(c) PROVE LockInv'
  BY <1>0, <1>3 DEF Open, Goto, Free
<1>4. ASSUME NEW c \in Callers, Flock(c) PROVE LockInv'
  BY <1>0, <1>4 DEF Flock, Goto, Refuse, Close
<1>5. ASSUME NEW c \in Callers, CheckLink(c) PROVE LockInv'
  BY <1>0, <1>5 DEF CheckLink, Goto, Refuse, Close
<1>6. ASSUME NEW c \in Callers, Work(c) PROVE LockInv'
  BY <1>0, <1>6 DEF Work, Goto
<1>7. ASSUME NEW c \in Callers, UnlinkLock(c) PROVE LockInv'
  BY <1>0, <1>7 DEF UnlinkLock, Goto
<1>8. ASSUME NEW c \in Callers, Release(c) PROVE LockInv'
  BY <1>0, <1>8 DEF Release, Goto, Close
<1>9. ASSUME NEW c \in Callers, Crash(c) PROVE LockInv'
  BY <1>0, <1>9 DEF Crash, Goto, Refuse, Close
<1> QED
  BY <1>1, <1>2, <1>3, <1>4, <1>5, <1>6, <1>7, <1>8, <1>9 DEF Next

(* Types, the visibility of the holder and the ownership of locks hold in  *)
(* every reachable state of hold_download_lock.                            *)
THEOREM LockInvariant == Spec => []LockInv
<1>1. Init => LockInv
  BY LockInit
<1>2. LockInv /\ [Next]_vars => LockInv'
  BY LockStep
<1> QED
  BY <1>1, <1>2, PTL DEF Spec

(* At most one call is ever at work on a destination (README.md:427),      *)
(* although the lock file is unlinked, and created anew, by every call.    *)
THEOREM LockExcludes == Spec => []MutualExclusion
<1>1. LockInv => MutualExclusion
  <2> SUFFICES ASSUME LockInv, NEW c \in Callers, NEW d \in Callers, Busy(c), Busy(d)
               PROVE  c = d
    BY DEF MutualExclusion
  <2>1. owner[name] = c /\ owner[name] = d
    BY DEF LockInv, HolderIsVisible
  <2> QED
    BY <2>1
<1> QED
  BY <1>1, LockInvariant, PTL

(* What a call has met stays recorded until it closes the file.            *)
LEMMA MetStep == LockInv /\ LockInv' /\ MetInv /\ [Next]_vars => MetInv'
<1> SUFFICES ASSUME LockInv, LockInv', MetInv, [Next]_vars, NEW c \in Callers
             PROVE  /\ fd'[c] # None /\ owner'[fd'[c]] \notin {None, c} => c \in met'
                    /\ pc'[c] \in {"open", "locked"} /\ name' # fd'[c] => c \in met'
  BY DEF MetInv
<1>1. CASE UNCHANGED vars
  BY <1>1 DEF vars, lock, MetInv
<1>2. CASE Next
  <2>1. /\ fd'[c] # None => pc'[c] # "idle"
        /\ pc'[c] \in {"open", "locked"} => fd'[c] # None
    BY DEF LockInv
  <2>2. fd'[c] # None /\ owner'[fd'[c]] \notin {None, c} => c \in met'
    BY <1>2, <2>1, StepWatches DEF Watch, Meets
  <2>3. ASSUME pc'[c] \in {"open", "locked"}, name' # fd'[c], ~Meets(c)
        PROVE  c \in met /\ fd'[c] = fd[c]
    <3> USE LockAssumption DEF LockInv, TypeOK, HolderIsVisible, Busy, Labels
    <3>1. ASSUME NEW d \in Callers, Call(d) \/ Work(d) \/ Crash(d) \/ Release(d)
          PROVE  c \in met /\ fd'[c] = fd[c]
      BY <2>3, <3>1 DEF Call, Work, Crash, Release, Refuse, Goto, Close, MetInv
    <3>2. ASSUME NEW d \in Callers, Open(d) PROVE c \in met /\ fd'[c] = fd[c]
      BY <2>3, <3>2 DEF Open, Goto, Free, MetInv
    <3>3. ASSUME NEW d \in Callers, Flock(d) \/ CheckLink(d)
          PROVE  c \in met /\ fd'[c] = fd[c]
      BY <2>3, <3>3 DEF Flock, CheckLink, Refuse, Goto, Close, MetInv
    <3>4. ASSUME NEW d \in Callers, UnlinkLock(d) PROVE c \in met /\ fd'[c] = fd[c]
      <4>1. fd' = fd /\ owner' = owner /\ pc[d] = "unlink" /\ pc' = [pc EXCEPT ![d] = "release"]
        BY <3>4 DEF UnlinkLock, Goto
      <4>2. c # d /\ pc[c] \in {"open", "locked"} /\ fd[c] # None
        BY <2>1, <2>3, <4>1
      <4>3. CASE name # fd[c]
        BY <4>1, <4>2, <4>3 DEF MetInv
      <4>4. CASE name = fd[c]
        <5>1. owner[fd[c]] = d
          BY <4>1, <4>4
        <5> QED
          BY <2>3, <4>1, <4>2, <5>1 DEF Meets
      <4> QED
        BY <4>3, <4>4
    <3> QED
      BY <1>2, <3>1, <3>2, <3>3, <3>4 DEF Next
  <2>4. pc'[c] \in {"open", "locked"} /\ name' # fd'[c] => c \in met'
    BY <1>2, <2>1, <2>3, StepWatches DEF Watch
  <2> QED
    BY <2>2, <2>4
<1> QED
  BY <1>1, <1>2

(* Nobody is refused because of a lock file alone, as one that a crash left *)
(* behind: whoever is refused, by flock or by the link count, has had open  *)
(* a file whose lock another call held in the meantime.                     *)
THEOREM LeftoverRefusesNobody == Spec => OnlyHoldersRefuse
<1> DEFINE Fair == \A c \in Callers : Refused(c) => c \in met
<1>1. LockInv /\ MetInv => Fair
  <2> SUFFICES ASSUME LockInv, MetInv, NEW c \in Callers, Refused(c) PROVE c \in met
    OBVIOUS
  <2>1. CASE Flock(c)
    <3>1. pc[c] = "open" /\ owner[fd[c]] # None
      BY <2>1 DEF Refused, Flock, Goto, LockInv, TypeOK
    <3>2. fd[c] \in Inodes /\ owner[fd[c]] \in Callers
      BY <3>1, LockAssumption DEF LockInv, TypeOK
    <3>3. owner[fd[c]] # c
      BY <3>1, <3>2 DEF LockInv
    <3> QED
      BY <3>1, <3>2, <3>3, LockAssumption DEF MetInv
  <2>2. CASE CheckLink(c)
    <3>1. pc[c] = "locked" /\ fd[c] # name
      BY <2>2 DEF Refused, CheckLink, Goto, LockInv, TypeOK
    <3> QED
      BY <3>1 DEF MetInv
  <2> QED
    BY <2>1, <2>2 DEF Refused
<1>2. LockInv /\ MetInv => [Fair]_vars
  BY <1>1
<1>3. Init => MetInv
  BY DEF Init, MetInv
<1>4. Spec => []MetInv
  BY <1>3, LockInvariant, MetStep, PTL DEF Spec
<1> QED
  BY <1>2, <1>4, LockInvariant, PTL DEF OnlyHoldersRefuse
=============================================================================
