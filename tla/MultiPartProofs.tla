--------------------------- MODULE MultiPartProofs ---------------------------
(***************************************************************************)
(* Proofs about MultiPart, for any resources, sizes, revisions, Parts and  *)
(* retry budget, and any number of workers.                                *)
(***************************************************************************)
EXTENDS MultiPart, SingleStreamProofs, SequenceTheorems, TLAPS

----------------------------------------------------------------------------
(* For every size and every valid Parts the ranges tile the file.          *)

(* What integer division by a positive number gives.                       *)
LEMMA Quotient ==
  ASSUME NEW a \in Nat, NEW b \in Nat \ {0}
  PROVE  /\ a \div b \in Nat
         /\ b * (a \div b) <= a
         /\ a >= b => a \div b >= 1
  OBVIOUS

(* Parts.resolve_count: a file is split into no more parts than it has     *)
(* bytes, and no more than were asked for.                                 *)
THEOREM CountFits ==
  ASSUME NEW c \in PartsConfigs(Nat), NEW total \in Nat \ {0}
  PROVE  ResolveCount(c, total) \in 1..total /\ ResolveCount(c, total) <= c.count
<1>1. /\ c.count \in Nat /\ c.min_part_size \in Nat /\ c.max_parts \in Nat
      /\ c.count >= 1 /\ c.min_part_size >= 1 /\ c.max_parts >= c.count
  BY DEF PartsConfigs
<1>2. /\ total \div c.min_part_size \in Nat
      /\ c.min_part_size * (total \div c.min_part_size) <= total
      /\ total >= c.min_part_size => total \div c.min_part_size >= 1
  BY <1>1, Quotient
<1>3. total \div c.min_part_size <= total
  BY <1>1, <1>2
<1> QED
  BY <1>1, <1>2, <1>3 DEF ResolveCount, AtMost

(* Ranges start in the order of their numbers.                             *)
LEMMA StepsMonotone ==
  ASSUME NEW i \in Nat, NEW n \in Nat, NEW len \in Nat, i <= n
  PROVE  /\ i * len \in Nat
         /\ i * len <= n * len
         /\ (i + 1) * len = i * len + len
  OBVIOUS

(* compute_ranges is a partition whenever there is a byte for every part.  *)
THEOREM RangesTile ==
  ASSUME NEW total \in Nat \ {0}, NEW n \in 1..total
  PROVE  Tiles(total, n)
<1> DEFINE len == PartLength(total, n)
<1>1. len \in Nat /\ n * len <= total /\ len >= 1
  BY Quotient DEF PartLength
<1>2. CASE n = 1
  BY <1>2 DEF Tiles, RangeStart, RangeEnd
<1>3. CASE n > 1
  <2> HIDE DEF len
  <2>0. n \in Nat
    OBVIOUS
  <2>1. \A i \in 0..(n - 1) : RangeStart(total, n, i) = i * len
    BY <1>3, <2>0 DEF RangeStart, len
  <2>2. \A i \in 0..(n - 2) : RangeEnd(total, n, i) = (i + 1) * len - 1
    BY <1>3, <2>0 DEF RangeEnd, len
  <2>3. RangeEnd(total, n, n - 1) = total - 1
    BY <1>3, <2>0 DEF RangeEnd
  <2>4. RangeStart(total, n, 0) = 0
    BY <1>1, <1>3, <2>0, <2>1
  <2>5. ASSUME NEW i \in 0..(n - 2)
        PROVE  /\ RangeStart(total, n, i) <= RangeEnd(total, n, i)
               /\ RangeEnd(total, n, i) + 1 = RangeStart(total, n, i + 1)
    <3>1. i \in Nat /\ i + 1 \in 0..(n - 1) /\ i \in 0..(n - 1)
      BY <2>0
    <3>2. i * len \in Nat /\ (i + 1) * len = i * len + len
      BY <1>1, <3>1, StepsMonotone
    <3> QED
      BY <1>1, <2>1, <2>2, <3>1, <3>2
  <2>6. RangeStart(total, n, n - 1) <= total - 1
    <3>1. n - 1 \in Nat /\ n - 1 \in 0..(n - 1)
      BY <1>3, <2>0
    <3>2. (n - 1) * len \in Nat /\ ((n - 1) + 1) * len = (n - 1) * len + len
      BY <1>1, <3>1, StepsMonotone
    <3>3. (n - 1) + 1 = n
      BY <2>0
    <3>4. n * len = (n - 1) * len + len
      BY <3>2, <3>3
    <3>5. RangeStart(total, n, n - 1) = (n - 1) * len
      BY <2>1, <3>1
    <3> QED
      BY <1>1, <2>0, <3>2, <3>4, <3>5
  <2> QED
    BY <2>0, <2>3, <2>4, <2>5, <2>6 DEF Tiles
<1> QED
  BY <1>2, <1>3

(* Every offset of the file is in exactly one range of compute_ranges: no   *)
(* byte is downloaded twice and none is left out.                          *)
THEOREM RangesPartition ==
  ASSUME NEW total \in Nat \ {0}, NEW n \in 1..total
  PROVE  Partition(total, n)
<1> DEFINE len == PartLength(total, n)
<1>1. len \in Nat /\ len >= 1
  BY Quotient DEF PartLength
<1>2. \A j \in 0..(n - 1) : RangeStart(total, n, j) = j * len
  <2>1. CASE n = 1
    BY <1>1, <2>1 DEF RangeStart
  <2>2. CASE n > 1
    BY <2>2 DEF RangeStart
  <2> QED
    BY <2>1, <2>2
<1>3. \A j \in 0..(n - 2) : RangeEnd(total, n, j) = (j + 1) * len - 1
  BY DEF RangeEnd
<1>4. RangeEnd(total, n, n - 1) = total - 1
  BY DEF RangeEnd
<1>5. SUFFICES ASSUME NEW offset \in 0..(total - 1)
               PROVE  \E i \in 0..(n - 1) : \A j \in 0..(n - 1) :
                        offset \in RangeStart(total, n, j)..RangeEnd(total, n, j) <=> j = i
  BY DEF Partition
<1> HIDE DEF len
<1> DEFINE q == offset \div len
           i == IF q < n - 1 THEN q ELSE n - 1
<1>6. q \in Nat /\ q * len \in Nat /\ q * len <= offset /\ offset < (q + 1) * len
  BY <1>1
<1> HIDE DEF q
<1>7. i \in 0..(n - 1)
  BY <1>6
<1>8. ASSUME NEW j \in Nat, NEW k \in Nat, j <= k
      PROVE  j * len \in Nat /\ k * len \in Nat /\ j * len <= k * len
  BY <1>1, <1>8, StepsMonotone
<1>9. ASSUME NEW j \in 0..(n - 1)
      PROVE  offset \in RangeStart(total, n, j)..RangeEnd(total, n, j) <=> j = i
  <2>1. j \in Nat /\ j + 1 \in Nat /\ n - 1 \in Nat /\ q + 1 \in Nat
    BY <1>6
  <2>2. CASE j < i
    <3>1. j \in 0..(n - 2) /\ j + 1 <= q
      BY <1>6, <2>1, <2>2
    <3>2. (j + 1) * len \in Nat /\ (j + 1) * len <= q * len
      BY <1>6, <1>8, <2>1, <3>1
    <3>3. RangeEnd(total, n, j) < offset
      BY <1>3, <1>6, <3>1, <3>2
    <3> QED
      BY <1>1, <1>2, <1>7, <2>2, <3>1, <3>2, <3>3, <1>3, StepsMonotone
  <2>3. CASE i < j
    <3>1. i = q /\ q + 1 <= j
      BY <1>6, <2>1, <2>3
    <3>2. j * len \in Nat /\ (q + 1) * len \in Nat /\ (q + 1) * len <= j * len
      BY <1>8, <2>1, <3>1
    <3>3. offset < RangeStart(total, n, j)
      BY <1>2, <1>6, <3>2
    <3> QED
      BY <1>2, <2>1, <2>3, <3>2, <3>3
  <2>4. CASE j = i
    <3>1. j <= q
      BY <1>6, <2>4
    <3>2. j * len \in Nat /\ j * len <= offset
      BY <1>6, <1>8, <2>1, <3>1
    <3>3. CASE j < n - 1
      <4>1. j = q /\ j \in 0..(n - 2)
        BY <1>6, <2>1, <2>4, <3>3
      <4>2. (j + 1) * len \in Nat
        BY <1>8, <2>1
      <4> QED
        BY <1>2, <1>3, <1>6, <2>4, <3>2, <4>1, <4>2
    <3>4. CASE j = n - 1
      BY <1>2, <1>4, <2>4, <3>2, <3>4
    <3> QED
      BY <2>1, <3>3, <3>4
  <2> QED
    BY <1>7, <2>1, <2>2, <2>3, <2>4
<1> QED
  BY <1>7, <1>9

(* No part is smaller than min_part_size once a file is split at all.      *)
THEOREM PartsLongEnough ==
  ASSUME NEW c \in PartsConfigs(Nat), NEW total \in Nat \ {0},
         ResolveCount(c, total) > 1
  PROVE  PartLength(total, ResolveCount(c, total)) >= c.min_part_size
<1> DEFINE n == ResolveCount(c, total)
           m == c.min_part_size
<1>1. m \in Nat \ {0} /\ c.count \in Nat /\ c.max_parts \in Nat
  BY DEF PartsConfigs
<1>2. total \div m \in Nat /\ m * (total \div m) <= total
  BY <1>1, Quotient
<1>3. n \in Nat /\ n > 1 /\ n <= total \div m
  BY <1>1, <1>2, CountFits DEF ResolveCount, AtMost
<1>4. m * n <= m * (total \div m)
  <2>1. \A k \in Nat, l \in Nat : k <= l => m * k <= m * l
    BY <1>1
  <2> QED
    BY <1>2, <1>3, <2>1
<1>5. m * n <= total
  <2>1. m * n \in Nat /\ m * (total \div m) \in Nat
    BY <1>1, <1>2, <1>3
  <2> QED
    BY <1>2, <1>4, <2>1
<1>6. \A a \in Nat, b \in Nat \ {0}, k \in Nat : k * b <= a => a \div b >= k
  OBVIOUS
<1> QED
  BY <1>1, <1>3, <1>5, <1>6 DEF PartLength

----------------------------------------------------------------------------
(* MultiPart.                                                              *)

USE DEF vars, disk, callArgs, locals, Goto, Raise, End, NoLocals

(* There is a segment for each part of a Parts that calls use.             *)
LEMMA SegNumbers ==
  /\ Segs \subseteq Nat
  /\ \A c \in Configs : c.count \in Nat /\ 0..(c.count - 1) \subseteq Segs
  BY MultiPartAssumption DEF PartsConfigs

(* Where no thread is left none has a handle to lose.                      *)
LEMMA NoHandles == zombies = {} /\ HandlesLost => zombies' = {}
  BY DEF HandlesLost

----------------------------------------------------------------------------
(* What a call has established by a label, as in SingleStreamProofs.       *)

(* A worker that fails gives an exception as its reason.                   *)
IsReason(rec) == rec.why # "done" /\ (rec.pc = "failed" => rec.why # "none")

Reasons ==
  DOMAIN w = Segs /\ \A i \in Segs : DOMAIN w[i] = DOMAIN Off /\ IsReason(w[i])

(* By parts, too, the destination is settled before anything is replaced,  *)
(* and what was assembled was hashed.                                      *)
MpCallInv ==
  /\ CallInv
  /\ pc \in MpLabels => overwrite \/ target = NoFile
  /\ pc \in {"mp_assemble", "mp_unlink"} => hashed = part
  /\ Reasons

(* No worker has failed at first.                                          *)
LEMMA MpCallInit == MpInit => MpCallInv
  BY CallInit DEF MpInit, MpCallInv, Reasons, IsReason, Init, MpLabels, AllOff, Off

(* A step that a download by parts has in common with one stream.          *)
LEMMA SharedStep ==
  ASSUME MpCallInv, [Next]_vars, pc' \notin MpLabels, w' = w
  PROVE  MpCallInv'
  BY CallStep DEF MpCallInv, Reasons, IsReason, MpLabels

(* Shared steps stay with the labels of one stream.                        *)
LEMMA SharedLabels ==
  ASSUME pc \notin MpLabels,
         \/ \E u \in Urls, o \in BOOLEAN, e \in Versions \cup {NoVersion} : Call(u, o, e)
         \/ Step \/ Interrupt \/ \E u \in Urls : Change(u)
  PROVE  pc' \notin MpLabels
  BY DEF Call, Step, TargetAbsent, CheckTarget, CheckTargetDigest, CheckTargetSize, Probe,
         Stream, Load, OpenPart, Connect, HandleHead, WriteState, Chunk, Drop, EndOfBody,
         Verify, Replace, Cleanup, RetryOrRaise, Interrupt, Change, MpLabels

(* An exception establishes nothing and leaves the destination.            *)
LEMMA MpRaiseKeeps ==
  ASSUME MpCallInv, NEW how, how # "done", MpRaise(how)
  PROVE  MpCallInv'
  BY DEF MpRaise, AllOff, Off, Reasons, IsReason, MpCallInv, CallInv, HashInStep,
         VerifiedMeansExpected, MpLabels, Labels

(* A worker only touches its segment, and fails with the call or alone.    *)
LEMMA WorkerKeeps ==
  ASSUME MpCallInv, NEW i \in Segs, Worker(i)
  PROVE  MpCallInv'
<1> USE DEF MpCallInv
<1>1. ASSUME NEW rec, DOMAIN rec = DOMAIN Off, IsReason(rec), Turn(i, rec),
             UNCHANGED <<Others>>
      PROVE  MpCallInv'
  <2>1. Reasons'
    BY <1>1 DEF Turn, Reasons, IsReason
  <2> QED
    BY <1>1, <2>1 DEF Others, CallInv, HashInStep, VerifiedMeansExpected
<1>2. ASSUME NEW how \in {"http", "lost", "transport"}, Fail(i, how), UNCHANGED <<Others>>
      PROVE  MpCallInv'
  BY <1>1, <1>2 DEF Fail, Off, IsReason
<1>3. ASSUME NEW how \in {"http", "lost"}, WorkerBreaks(i, how) PROVE MpCallInv'
  BY <1>2, <1>3, MpRaiseKeeps DEF WorkerBreaks
<1>4. DOMAIN w[i] = DOMAIN Off /\ IsReason(w[i])
      /\ {"pc", "got", "tries", "append", "pos", "resp", "why"} = DOMAIN Off
  BY DEF Reasons, IsReason, Off
<1>5. CASE WorkerRetryOrFail(i) /\ UNCHANGED <<Others>>
  <2> DEFINE rec == [w[i] EXCEPT !.pc = "connect", !.tries = @ + 1, !.resp = NoAnswer]
  <2>1. DOMAIN rec = DOMAIN Off /\ IsReason(rec)
    BY <1>4 DEF IsReason
  <2> HIDE DEF rec
  <2>2. Turn(i, rec) => MpCallInv'
    BY <1>1, <1>5, <2>1
  <2> QED
    BY <1>2, <1>5, <2>2 DEF WorkerRetryOrFail, rec
<1>6. CASE WorkerConnect(i)
  <2>1. ASSUME NEW answer, Turn(i, [w[i] EXCEPT !.pc = "head", !.resp = answer]),
               UNCHANGED <<Others>>
        PROVE  MpCallInv'
    <3> DEFINE rec == [w[i] EXCEPT !.pc = "head", !.resp = answer]
    <3>1. DOMAIN rec = DOMAIN Off /\ IsReason(rec)
      BY <1>4 DEF IsReason
    <3> HIDE DEF rec
    <3> QED
      BY <1>1, <2>1, <3>1 DEF rec
  <2> QED
    BY <1>2, <1>5, <1>6, <2>1 DEF WorkerConnect
<1>7. CASE WorkerOpen(i) \/ WorkerChunk(i)
  <2>1. CASE Turn(i, [w[i] EXCEPT !.pc = "body", !.append = (w[i].got > 0)])
    <3> DEFINE rec == [w[i] EXCEPT !.pc = "body", !.append = (w[i].got > 0)]
    <3>1. DOMAIN rec = DOMAIN Off /\ IsReason(rec)
      BY <1>4 DEF IsReason
    <3> HIDE DEF rec
    <3> QED
      BY <1>1, <1>7, <2>1, <3>1 DEF WorkerOpen, WorkerChunk, rec
  <2>2. CASE Turn(i, Advanced(w[i]))
    <3> DEFINE rec == Advanced(w[i])
    <3>1. DOMAIN rec = DOMAIN Off /\ IsReason(rec)
      BY <1>4 DEF IsReason, Advanced
    <3> HIDE DEF rec
    <3>2. Turn(i, rec) /\ UNCHANGED <<Others>>
      BY <1>7, <2>2 DEF WorkerOpen, WorkerChunk, rec
    <3> QED
      BY <1>1, <3>1, <3>2
  <2> QED
    BY <1>7, <2>1, <2>2 DEF WorkerOpen, WorkerChunk
<1>8. CASE WorkerEnd(i)
  BY <1>1, <1>8 DEF WorkerEnd, Off, IsReason
<1> QED
  BY <1>2, <1>3, <1>5, <1>6, <1>7, <1>8
  DEF Worker, WorkerGated, WorkerRefused, WorkerLost, WorkerDrop

(* Steps of the call's own thread towards the workers and back.            *)
LEMMA PlanKeeps ==
  ASSUME MpCallInv,
         \/ ChooseMulti \/ MpLoad \/ MpWipe("mp_wipe", "mp_probe") \/ ProbePlans
         \/ ProbeFallsBack \/ MpWipe("mp_fallback", "load") \/ MpWriteState \/ MpScan
         \/ UnlinkSegment \/ Assembled
  PROVE  MpCallInv'
<1> USE DEF MpCallInv, CallInv, HashInStep, VerifiedMeansExpected, MpLabels, Labels, MpGoto
<1>0. w' = w => Reasons'
  BY DEF Reasons, IsReason
<1>1. CASE ChooseMulti
  BY <1>0, <1>1 DEF ChooseMulti
<1>2. CASE MpLoad
  <2>1. CASE MpRaise("identity")
    BY <2>1, MpRaiseKeeps
  <2> QED
    BY <1>0, <1>2, <2>1 DEF MpLoad
<1>3. ASSUME NEW to \in {"mp_probe", "load"}, NEW from \in {"mp_wipe", "mp_fallback"},
             MpWipe(from, to)
      PROVE  MpCallInv'
  BY <1>0, <1>3 DEF MpWipe, UnlinkOneStagingFile
<1>4. CASE ProbePlans
  BY <1>0, <1>4 DEF ProbePlans
<1>5. CASE ProbeFallsBack
  BY <1>0, <1>5 DEF ProbeFallsBack
<1>6. CASE MpWriteState
  BY <1>0, <1>6 DEF MpWriteState
<1>7. CASE MpScan
  <2>1. Reasons'
    BY <1>7 DEF MpScan, Reasons, IsReason, Off
  <2> QED
    BY <1>7, <2>1 DEF MpScan
<1>8. CASE UnlinkSegment
  BY <1>0, <1>8 DEF UnlinkSegment
<1>9. CASE Assembled
  BY <1>0, <1>9 DEF Assembled
<1> QED
  BY <1>1, <1>2, <1>3, <1>4, <1>5, <1>6, <1>7, <1>8, <1>9

(* The steps that make the .part file of the segments.                     *)
LEMMA AssemblyKeeps ==
  ASSUME MpCallInv, Join \/ Assemble \/ ProbeFails
  PROVE  MpCallInv'
<1> USE DEF MpCallInv, CallInv, HashInStep, VerifiedMeansExpected, MpLabels, Labels, MpGoto
<1>0. w' = w => Reasons'
  BY DEF Reasons, IsReason
<1>1. CASE Join
  <2>1. ASSUME NEW i \in Segs, MpRaise(w[i].why) PROVE MpCallInv'
    BY <2>1, MpRaiseKeeps DEF Reasons, IsReason
  <2>2. Failed \subseteq Segs
    BY DEF Failed
  <2>3. CASE /\ part' = <<>> /\ hashed' = <<>> /\ w' = AllOff /\ Goto("mp_assemble")
             /\ UNCHANGED target
    <3>1. Reasons'
      BY <2>3 DEF Reasons, IsReason, AllOff, Off
    <3> QED
      BY <1>1, <2>3, <3>1 DEF Join
  <2> QED
    BY <1>1, <2>1, <2>2, <2>3 DEF Join
<1>2. CASE Assemble
  <2>1. CASE MpRaise("missing")
    BY <2>1, MpRaiseKeeps
  <2> QED
    BY <1>0, <1>2, <2>1 DEF Assemble
<1>3. CASE ProbeFails
  <2>1. CASE MpRaise("http")
    BY <2>1, MpRaiseKeeps
  <2> QED
    BY <1>0, <1>3, <2>1 DEF ProbeFails, RetryOrRaise, mp
<1> QED
  BY <1>1, <1>2, <1>3

(* An interrupt leaves at most threads that touch their segment.           *)
LEMMA InterruptKeeps ==
  ASSUME MpCallInv, MpInterrupt \/ Kill
  PROVE  MpCallInv'
  BY DEF MpInterrupt, Kill, Interrupt, AllOff, Off, Reasons, IsReason, MpCallInv, CallInv,
         HashInStep, VerifiedMeansExpected, MpLabels, Labels

(* Every step of a download, by parts or not, keeps what is established.   *)
LEMMA MpCallStep == MpCallInv /\ [MpNext]_mpVars => MpCallInv'
<1> SUFFICES ASSUME MpCallInv, [MpNext]_mpVars PROVE MpCallInv'
  OBVIOUS
<1>1. CASE UNCHANGED mpVars
  BY <1>1 DEF mpVars, mp, MpCallInv, CallInv, HashInStep, VerifiedMeansExpected, Reasons, IsReason
<1>2. ASSUME w' = w, pc \notin MpLabels,
             \/ \E u \in Urls, o \in BOOLEAN, e \in Versions \cup {NoVersion} : Call(u, o, e)
             \/ Step \/ Interrupt \/ \E u \in Urls : Change(u)
      PROVE  MpCallInv'
  BY <1>2, SharedStep, SharedLabels DEF Next
<1>3. ASSUME NEW u \in Urls, NEW o \in BOOLEAN, NEW p \in Configs \cup {NoParts},
             NEW e \in Versions \cup {NoVersion}, MpCall(u, o, e, p)
      PROVE  MpCallInv'
  BY <1>2, <1>3 DEF MpCall, Call, mp, MpLabels
<1>4. CASE ChooseSingle \/ CheckTargetStep \/ SingleStreamStep
  <2>1. w' = w /\ Step
    BY <1>4 DEF ChooseSingle, CheckTargetStep, SingleStreamStep, Step, mp
  <2>2. pc \notin MpLabels
    BY <1>4 DEF ChooseSingle, CheckTargetStep, SingleStreamStep, TargetAbsent, CheckTarget,
      CheckTargetDigest, CheckTargetSize, Probe, Stream, Load, OpenPart, Connect, HandleHead,
      WriteState, Chunk, Drop, EndOfBody, Verify, Replace, Cleanup, MpLabels
  <2> QED
    BY <1>2, <2>1, <2>2
<1>5. ASSUME NEW u \in Urls, Change(u), UNCHANGED <<parts, mp>> PROVE MpCallInv'
  BY <1>5 DEF Change, mp, MpCallInv, CallInv, HashInStep, VerifiedMeansExpected, Reasons, IsReason
<1>6. CASE ZombieOpen \/ ZombieWrite \/ ZombieEnd
  BY <1>6 DEF ZombieOpen, ZombieWrite, ZombieEnd, Others, MpCallInv, CallInv, HashInStep,
              VerifiedMeansExpected, Reasons, IsReason
<1>7. CASE MpStep
  BY <1>4, <1>7, PlanKeeps, AssemblyKeeps DEF MpStep
<1> QED
  BY <1>1, <1>3, <1>5, <1>6, <1>7, WorkerKeeps, InterruptKeeps DEF MpNext

(* A download by parts that returned with an expected checksum left that   *)
(* very content, however its segments were answered, interrupted, ended    *)
(* short or reopened by an abandoned thread.                               *)
THEOREM PartsVerifiedContent == MpSpec => []VerifiedMeansExpected
<1>1. MpCallInv => VerifiedMeansExpected
  BY DEF MpCallInv, CallInv
<1> QED
  BY <1>1, MpCallInit, MpCallStep, PTL DEF MpSpec

(* The digest it compares is that of the bytes it assembled.               *)
THEOREM PartsHashInStep == MpSpec => []HashInStep
<1>1. MpCallInv => HashInStep
  BY DEF MpCallInv, CallInv
<1> QED
  BY <1>1, MpCallInit, MpCallStep, PTL DEF MpSpec
----------------------------------------------------------------------------
(* What workers believe, when an interrupt leaves none of them behind.     *)

Active == {"connect", "head", "body"}

Answers == [status : {0, 200, 206, 416}, ver : Versions, at : Nat, upto : Int]

WorkerRecord ==
  [pc : Active \cup {"off", "done", "failed"}, got : Nat, tries : Nat, append : BOOLEAN,
   pos : Nat, resp : Answers,
   why : {"none", "http", "lost", "transport"}]

Plans == [total : Nat, count : Nat, tag : {NoTag} \cup Versions]

PartTypes ==
  /\ live \in [Urls -> Versions] /\ url \in Urls
  /\ SavedState => sidecar \in Identity
  /\ parts \in Configs \cup {NoParts} /\ plan \in Plans
  /\ segs \in [Segs -> File \cup {NoFile}]
  /\ w \in [Segs -> WorkerRecord]
  /\ zombies = {}

(* A worker has counted what is in its file, and writes at the end of it.  *)
Believes(i) ==
  /\ w[i].pc \in Active => w[i].got = Got(i) /\ w[i].pos <= w[i].got
  /\ w[i].pc = "body" => segs[i] # NoFile /\ (w[i].append \/ w[i].pos = w[i].got)

PartsInv == PartTypes /\ (pc = "mp_work" => \A i \in Segs : Believes(i))

(* Idle workers and the absence of a plan are of these types.              *)
LEMMA NothingTyped ==
  /\ Off \in WorkerRecord /\ AllOff \in [Segs -> WorkerRecord]
  /\ NoPlan \in Plans /\ NoAnswer \in Answers
<1>1. 1 \in Versions
  BY ServerAssumption DEF Versions
<1>2. NoAnswer \in Answers
  BY <1>1 DEF NoAnswer, Answers
<1>3. Off \in WorkerRecord
  BY <1>2 DEF Off, WorkerRecord
<1> QED
  BY <1>2, <1>3 DEF AllOff, NoPlan, Plans

(* No worker runs at first.                                                *)
LEMMA PartsInit == MpInit => PartsInv
  BY NothingTyped, ServerAssumption
  DEF MpInit, Init, StagingInit, PartsInv, PartTypes, SavedState, Versions

(* The record of a worker that tries again.                                *)
LEMMA RetryRecord ==
  ASSUME NEW old \in WorkerRecord
  PROVE  LET r == [old EXCEPT !.pc = "connect", !.tries = @ + 1, !.resp = NoAnswer]
         IN  r \in WorkerRecord /\ r.pc = "connect" /\ r.got = old.got /\ r.pos = old.pos
<1>1. ASSUME NEW n \in Nat
      PROVE  LET r == [old EXCEPT !.pc = "connect", !.tries = n, !.resp = NoAnswer]
             IN  r \in WorkerRecord /\ r.pc = "connect" /\ r.got = old.got /\ r.pos = old.pos
  BY NothingTyped DEF WorkerRecord, Active
<1>2. old.tries + 1 \in Nat
  BY DEF WorkerRecord
<1> QED
  BY <1>1, <1>2

(* The record of one that gets an answer.                                  *)
LEMMA AnswerRecord ==
  ASSUME NEW old \in WorkerRecord, NEW answer \in Answers
  PROVE  LET r == [old EXCEPT !.pc = "head", !.resp = answer]
         IN  /\ r \in WorkerRecord /\ r.pc = "head" /\ r.got = old.got
             /\ r.pos = old.pos /\ r.resp = answer
  BY DEF WorkerRecord, Active

(* The record of one that opens its file.                                  *)
LEMMA OpenRecord ==
  ASSUME NEW old \in WorkerRecord
  PROVE  LET r == [old EXCEPT !.pc = "body", !.append = (old.got > 0)]
         IN  /\ r \in WorkerRecord /\ r.pc = "body" /\ r.got = old.got
             /\ r.pos = old.pos /\ r.append = (old.got > 0) /\ r.resp = old.resp
<1>1. ASSUME NEW b \in BOOLEAN
      PROVE  LET r == [old EXCEPT !.pc = "body", !.append = b]
             IN  /\ r \in WorkerRecord /\ r.pc = "body" /\ r.got = old.got
                 /\ r.pos = old.pos /\ r.append = b /\ r.resp = old.resp
  BY DEF WorkerRecord, Active
<1>2. (old.got > 0) \in BOOLEAN
  OBVIOUS
<1> QED
  BY <1>1, <1>2

(* The record of one that writes a byte.                                   *)
LEMMA ByteRecord ==
  ASSUME NEW old \in WorkerRecord
  PROVE  LET r == Advanced(old)
         IN  /\ r \in WorkerRecord /\ r.pc = old.pc /\ r.got = old.got + 1
             /\ r.pos = old.pos + 1 /\ r.append = old.append
             /\ r.resp = [old.resp EXCEPT !.at = old.resp.at + 1]
<1> DEFINE R(g, p, a) == [old EXCEPT !.got = g, !.pos = p, !.resp.at = a]
<1>1. ASSUME NEW g \in Nat, NEW p \in Nat, NEW a \in Nat
      PROVE  /\ R(g, p, a) \in WorkerRecord /\ R(g, p, a).pc = old.pc /\ R(g, p, a).got = g
             /\ R(g, p, a).pos = p /\ R(g, p, a).append = old.append
             /\ R(g, p, a).resp = [old.resp EXCEPT !.at = a]
  BY DEF WorkerRecord, Answers
<1>2. old.got + 1 \in Nat /\ old.pos + 1 \in Nat /\ old.resp.at + 1 \in Nat
  BY DEF WorkerRecord, Answers
<1>3. Advanced(old) = R(old.got + 1, old.pos + 1, old.resp.at + 1)
  BY DEF Advanced
<1> HIDE DEF R
<1> DEFINE r == R(old.got + 1, old.pos + 1, old.resp.at + 1)
<1>4. /\ r \in WorkerRecord /\ r.pc = old.pc /\ r.got = old.got + 1
      /\ r.pos = old.pos + 1 /\ r.append = old.append
      /\ r.resp = [old.resp EXCEPT !.at = old.resp.at + 1]
  BY <1>1, <1>2
<1> QED
  BY <1>3, <1>4, Zenon

(* A turn of worker i that writes f leaves the other workers alone.        *)
LEMMA TurnBelieves ==
  ASSUME PartsInv, pc = "mp_work", NEW i \in Segs, NEW rec \in WorkerRecord, Turn(i, rec),
         NEW f \in File \cup {NoFile}, segs' = [segs EXCEPT ![i] = f],
         UNCHANGED <<Others, zombies>>,
         rec.pc \in Active =>
           rec.got = (IF f = NoFile THEN 0 ELSE Len(f)) /\ rec.pos <= rec.got,
         rec.pc = "body" => f # NoFile /\ (rec.append \/ rec.pos = rec.got)
  PROVE  PartsInv'
<1>1. w' = [w EXCEPT ![i] = rec] /\ w \in [Segs -> WorkerRecord]
      /\ segs \in [Segs -> File \cup {NoFile}]
  BY DEF Turn, PartsInv, PartTypes
<1>2. PartTypes'
  BY <1>1 DEF PartsInv, PartTypes, Others, SavedState
<1>3. ASSUME NEW j \in Segs PROVE Believes(j)'
  BY <1>1, <1>3 DEF PartsInv, Believes, Got
<1> QED
  BY <1>2, <1>3 DEF PartsInv

(* The same for a turn that does not write.                                *)
LEMMA QuietTurn ==
  ASSUME PartsInv, pc = "mp_work", NEW i \in Segs, NEW rec \in WorkerRecord, Turn(i, rec),
         UNCHANGED <<Others, segs, zombies>>,
         rec.pc \in Active => rec.got = Got(i) /\ rec.pos <= rec.got,
         rec.pc # "body"
  PROVE  PartsInv'
<1>1. segs \in [Segs -> File \cup {NoFile}]
  BY DEF PartsInv, PartTypes
<1>2. segs[i] \in File \cup {NoFile} /\ segs' = [segs EXCEPT ![i] = segs[i]]
  BY <1>1
<1> QED
  BY <1>2, TurnBelieves DEF Got

(* A worker that fails believes nothing.                                   *)
LEMMA FailBelieves ==
  ASSUME PartsInv, pc = "mp_work", NEW i \in Segs, UNCHANGED <<Others, segs, zombies>>,
         NEW how \in {"http", "lost", "transport"}, Fail(i, how)
  PROVE  PartsInv'
<1> DEFINE rec == [Off EXCEPT !.pc = "failed", !.why = how]
<1>1. rec \in WorkerRecord /\ rec.pc \notin Active
  BY NothingTyped DEF WorkerRecord, Off, Active
<1> HIDE DEF rec
<1>2. Turn(i, rec)
  BY DEF Fail, rec
<1> QED
  BY <1>1, <1>2, QuietTurn DEF Active

(* One that retries keeps its count.                                       *)
LEMMA RetryBelieves ==
  ASSUME PartsInv, NEW i \in Segs, pc = "mp_work", w[i].pc \in Active,
         WorkerRetryOrFail(i), UNCHANGED <<Others, segs, zombies>>
  PROVE  PartsInv'
<1> DEFINE rec == [w[i] EXCEPT !.pc = "connect", !.tries = @ + 1, !.resp = NoAnswer]
<1>1. w[i] \in WorkerRecord
  BY DEF PartsInv, PartTypes
<1>2. rec \in WorkerRecord /\ rec.pc = "connect" /\ rec.got = w[i].got /\ rec.pos = w[i].pos
  BY <1>1, RetryRecord
<1>3. rec.got = Got(i) /\ rec.pos <= rec.got
  BY <1>2 DEF PartsInv, Believes
<1> HIDE DEF rec
<1>4. CASE Turn(i, rec)
  BY <1>2, <1>3, <1>4, QuietTurn
<1>5. CASE Fail(i, "transport")
  BY <1>5, FailBelieves
<1> QED
  BY <1>4, <1>5 DEF WorkerRetryOrFail, rec

(* An exception of the call leaves no workers and the disk as it is.       *)
LEMMA RaiseBelieves ==
  ASSUME PartsInv, NEW how, MpRaise(how) PROVE PartsInv'
  BY NothingTyped DEF MpRaise, PartsInv, PartTypes, SavedState

(* A range starts in the file or after it, and so do the answers to it.    *)
LEMMA StartsTyped ==
  ASSUME NEW total \in Nat, NEW n \in Nat, NEW i \in Nat
  PROVE  RangeStart(total, n, i) \in Nat /\ RangeEnd(total, n, i) \in Int
<1>1. CASE n <= 1
  BY <1>1 DEF RangeStart, RangeEnd
<1>2. CASE n > 1
  <2>1. total \div n \in Nat
    BY <1>2, Quotient
  <2>2. i * (total \div n) \in Nat /\ (i + 1) * (total \div n) \in Nat
    BY <2>1
  <2> QED
    BY <2>1, <2>2 DEF RangeStart, RangeEnd, PartLength
<1> QED
  BY <1>1, <1>2

(* A server answers a segment with a status, a revision and places in it.  *)
LEMMA AnswersTyped ==
  ASSUME PartTypes, NEW i \in Segs
  PROVE  SegmentAnswers(i) \subseteq Answers /\ From(i) \in Nat
<1>1. i \in Nat /\ plan.total \in Nat /\ plan.count \in Nat /\ w[i].got \in Nat
  BY SegNumbers DEF PartTypes, Plans, WorkerRecord
<1>2. RangeStart(plan.total, plan.count, i) \in Nat /\ Last(i) \in Int
  BY <1>1, StartsTyped DEF Last
<1>3. From(i) \in Nat
  BY <1>1, <1>2 DEF From
<1>4. live[url] \in Versions /\ Size[url][live[url]] \in Nat
  BY ServerAssumption DEF PartTypes
<1>5. ASSUME NEW status \in {200, 206, 416}, NEW from \in Nat, NEW end \in Int
      PROVE  Answer(status, from, end) \subseteq Answers
  BY <1>4 DEF Answer, Answers
<1>6. AtMost(Last(i) + 1, Size[url][live[url]]) \in Int
  BY <1>2, <1>4 DEF AtMost
<1> QED
  BY <1>3, <1>4, <1>5, <1>6 DEF SegmentAnswers, WholeAnswers

(* A byte written at the end of a file makes it one longer.                *)
LEMMA WrittenAtEnd ==
  ASSUME NEW f \in File, NEW append \in BOOLEAN, NEW pos \in Nat, NEW b \in Byte,
         append \/ pos = Len(f)
  PROVE  /\ WriteByte(f, append, pos, b) \in File
         /\ WriteByte(f, append, pos, b) = Append(f, b)
<1>1. Len(f) \in Nat /\ Append(f, b) \in File /\ Len(Append(f, b)) = Len(f) + 1
      /\ (\A k \in 1..Len(f) : Append(f, b)[k] = f[k]) /\ Append(f, b)[Len(f) + 1] = b
  BY AppendProperties, LenProperties DEF File
<1>2. CASE append
  BY <1>1, <1>2 DEF WriteByte
<1>3. CASE ~append
  <2> DEFINE g == [k \in 1..(Len(f) + 1) |->
                    IF k = Len(f) + 1 THEN b ELSE IF k <= Len(f) THEN f[k] ELSE Hole]
  <2>1. WriteByte(f, append, pos, b) = g
    BY <1>1, <1>3 DEF WriteByte
  <2>2. Append(f, b) = [k \in 1..(Len(f) + 1) |-> Append(f, b)[k]]
    BY <1>1, LenProperties DEF File
  <2>3. \A k \in 1..(Len(f) + 1) : g[k] = Append(f, b)[k]
    BY <1>1
  <2>4. g = [k \in 1..(Len(f) + 1) |-> g[k]]
    OBVIOUS
  <2> HIDE DEF g
  <2>5. g = Append(f, b)
    BY <2>2, <2>3, <2>4
  <2> QED
    BY <1>1, <2>1, <2>5
<1> QED
  BY <1>2, <1>3

(* Workers count what they write.                                          *)
LEMMA WorkerBelieves ==
  ASSUME PartsInv, NEW i \in Segs, Worker(i)
  PROVE  PartsInv'
<1>0. pc = "mp_work"
  BY DEF Worker, WorkerGated, WorkerConnect, WorkerOpen, WorkerRefused, WorkerLost,
         WorkerChunk, WorkerEnd, WorkerDrop, Working
<1>1. w[i] \in WorkerRecord /\ segs[i] \in File \cup {NoFile} /\ Believes(i)
      /\ segs \in [Segs -> File \cup {NoFile}]
  BY <1>0 DEF PartsInv, PartTypes
<1>2. ASSUME NEW how \in {"http", "lost"}, WorkerBreaks(i, how) PROVE PartsInv'
  BY <1>0, <1>2, FailBelieves, RaiseBelieves DEF WorkerBreaks
<1>3. CASE WorkerConnect(i)
  <2>1. ASSUME NEW answer \in SegmentAnswers(i),
               Turn(i, [w[i] EXCEPT !.pc = "head", !.resp = answer])
        PROVE  PartsInv'
    <3> DEFINE rec == [w[i] EXCEPT !.pc = "head", !.resp = answer]
    <3>1. answer \in Answers
      BY AnswersTyped DEF PartsInv
    <3>2. rec \in WorkerRecord /\ rec.pc = "head" /\ rec.got = w[i].got /\ rec.pos = w[i].pos
      BY <1>1, <3>1, AnswerRecord
    <3> HIDE DEF rec
    <3>3. Turn(i, rec) /\ rec.got = Got(i) /\ rec.pos <= rec.got
      BY <1>1, <1>3, <2>1, <3>2 DEF rec, Believes, WorkerConnect, Working, Active
    <3> QED
      BY <1>0, <1>3, <3>2, <3>3, QuietTurn DEF WorkerConnect
  <2> QED
    BY <1>0, <1>3, <2>1, FailBelieves, RetryBelieves DEF WorkerConnect, Working, Active
<1>4. CASE WorkerOpen(i)
  <2> DEFINE rec == [w[i] EXCEPT !.pc = "body", !.append = (w[i].got > 0)]
             f == Opened(segs[i], w[i].got)
  <2>1. rec \in WorkerRecord /\ rec.pc = "body" /\ rec.got = w[i].got /\ rec.pos = w[i].pos
        /\ rec.append = (w[i].got > 0)
    BY <1>1, OpenRecord
  <2>2. <<>> \in File /\ Len(<<>>) = 0 /\ NoFile \notin File
    BY StagingAssumption DEF File
  <2>3. w[i].got = Got(i) /\ w[i].pos <= w[i].got /\ w[i].got \in Nat /\ w[i].pos \in Nat
    BY <1>1, <1>4 DEF Believes, WorkerOpen, Working, Active, WorkerRecord
  <2>4. f \in File /\ Len(f) = w[i].got /\ f # NoFile
    BY <1>1, <2>2, <2>3 DEF Got, Opened
  <2> HIDE DEF rec, f
  <2>5. rec.append \/ rec.pos = rec.got
    <3>1. CASE w[i].got > 0
      BY <2>1, <3>1
    <3>2. CASE w[i].got = 0
      BY <2>1, <2>3, <3>2
    <3> QED
      BY <2>3, <3>1, <3>2
  <2>6. Turn(i, rec) /\ segs' = [segs EXCEPT ![i] = f] /\ UNCHANGED <<Others, zombies>>
    BY <1>4 DEF WorkerOpen, rec, f
  <2> QED
    BY <1>0, <2>1, <2>3, <2>4, <2>5, <2>6, TurnBelieves
<1>5. CASE WorkerChunk(i)
  <2> DEFINE rec == Advanced(w[i])
             f == Append(segs[i], <<url, w[i].resp.ver, w[i].resp.at + 1>>)
  <2>1. rec \in WorkerRecord /\ rec.pc = "body" /\ rec.got = w[i].got + 1
        /\ rec.pos = w[i].pos + 1 /\ rec.append = w[i].append
    BY <1>1, <1>5, ByteRecord DEF WorkerChunk, Working
  <2>2. w[i].got = Got(i) /\ w[i].pos <= w[i].got /\ segs[i] # NoFile
        /\ (w[i].append \/ w[i].pos = w[i].got)
    BY <1>1, <1>5 DEF Believes, WorkerChunk, Working, Active
  <2>3. segs[i] \in File /\ w[i].got = Len(segs[i]) /\ NoFile \notin File
    BY <1>1, <2>2, StagingAssumption DEF Got
  <2>4. w[i].append \in BOOLEAN /\ w[i].pos \in Nat /\ w[i].got \in Nat /\ url \in Urls
        /\ w[i].resp.ver \in Versions /\ w[i].resp.at \in Nat
    BY <1>1 DEF WorkerRecord, Answers, PartsInv, PartTypes
  <2>5. <<url, w[i].resp.ver, w[i].resp.at + 1>> \in Byte
    BY <2>4 DEF Byte
  <2>6. f \in File /\ Len(f) = Len(segs[i]) + 1 /\ f # NoFile
    <3>1. ASSUME NEW b \in Byte
          PROVE  Append(segs[i], b) \in File /\ Len(Append(segs[i], b)) = Len(segs[i]) + 1
      BY <2>3, AppendProperties DEF File
    <3> QED
      BY <2>3, <2>5, <3>1
  <2>7. f = WriteByte(segs[i], w[i].append, w[i].pos, <<url, w[i].resp.ver, w[i].resp.at + 1>>)
    <3>1. ASSUME NEW b \in Byte
          PROVE  Append(segs[i], b) = WriteByte(segs[i], w[i].append, w[i].pos, b)
      <4>1. w[i].append \/ w[i].pos = Len(segs[i])
        BY <2>2, <2>3
      <4>2. segs[i] \in File /\ w[i].append \in BOOLEAN /\ w[i].pos \in Nat
        BY <2>3, <2>4
      <4> QED
        BY <3>1, <4>1, <4>2, WrittenAtEnd, Zenon
    <3> QED
      BY <2>5, <3>1
  <2> HIDE DEF rec, f
  <2>8. Turn(i, rec) /\ segs' = [segs EXCEPT ![i] = f] /\ UNCHANGED <<Others, zombies>>
    BY <1>5, <2>7 DEF WorkerChunk, Written, rec
  <2>9. rec.got = Len(f) /\ rec.pos <= rec.got /\ (rec.append \/ rec.pos = rec.got)
    BY <2>1, <2>2, <2>3, <2>4, <2>6
  <2> QED
    BY <1>0, <2>1, <2>6, <2>8, <2>9, TurnBelieves
<1>6. CASE WorkerEnd(i)
  <2> DEFINE rec == [Off EXCEPT !.pc = "done"]
  <2>1. rec \in WorkerRecord /\ rec.pc = "done"
    BY NothingTyped DEF WorkerRecord, Off
  <2> HIDE DEF rec
  <2> QED
    BY <1>0, <1>6, <2>1, QuietTurn DEF WorkerEnd, rec, Active
<1> QED
  BY <1>0, <1>2, <1>3, <1>4, <1>5, <1>6, FailBelieves, RetryBelieves
  DEF Worker, WorkerGated, WorkerRefused, WorkerLost, WorkerDrop, Working, Active

(* What a step in common with one stream may do to what is on disk.        *)
LEMMA SharedDisk ==
  ASSUME PartTypes,
         \/ \E u \in Urls, o \in BOOLEAN, e \in Versions \cup {NoVersion} : Call(u, o, e)
         \/ Step \/ Interrupt \/ \E u \in Urls : Change(u)
  PROVE  /\ live' \in [Urls -> Versions] /\ url' \in Urls
         /\ sidecar' = sidecar \/ ~SavedState'
         /\ segs' = segs \/ \E i \in Segs : segs' = [segs EXCEPT ![i] = NoFile]
<1>1. CASE \E u \in Urls, o \in BOOLEAN, e \in Versions \cup {NoVersion} : Call(u, o, e)
  BY <1>1 DEF Call, PartTypes
<1>2. CASE Interrupt \/ TargetAbsent \/ CheckTarget \/ Load \/ Connect \/ EndOfBody \/ Verify
           \/ Drop
  BY <1>2 DEF Interrupt, TargetAbsent, CheckTarget, CheckTargetDigest, CheckTargetSize, Probe,
              Load, Connect, EndOfBody, Verify, Drop, RetryOrRaise, PartTypes
<1>3. CASE \E u \in Urls : Change(u)
  BY <1>3 DEF Change, Publish, PartTypes
<1>4. CASE OpenPart \/ Chunk \/ Replace
  BY <1>4 DEF OpenPart, Chunk, Replace, PartTypes
<1>5. CASE HandleHead
  BY <1>5 DEF HandleHead, PartTypes, SavedState
<1>6. CASE WriteState
  BY <1>6 DEF WriteState, PartTypes, SavedState, DownloadState
<1>7. CASE Cleanup
  BY <1>7 DEF Cleanup, UnlinkOneStagingFile, PartTypes, SavedState
<1> QED
  BY <1>1, <1>2, <1>3, <1>4, <1>5, <1>6, <1>7 DEF Step, Stream

(* Such a step, outside of the labels of a download by parts.              *)
LEMMA SharedBelieves ==
  ASSUME PartsInv, pc \notin MpLabels, UNCHANGED mp, parts' \in Configs \cup {NoParts},
         \/ \E u \in Urls, o \in BOOLEAN, e \in Versions \cup {NoVersion} : Call(u, o, e)
         \/ Step \/ Interrupt \/ \E u \in Urls : Change(u)
  PROVE  PartsInv'
<1>1. pc' \notin MpLabels
  BY SharedLabels
<1>2. PartTypes'
  BY SharedDisk DEF PartsInv, PartTypes, mp, SavedState
<1> QED
  BY <1>1, <1>2 DEF PartsInv, MpLabels

(* A probe of a resource plans a number of parts that fits its size and    *)
(* the Parts of the call, of which there is one.                           *)
LEMMA PlanFits ==
  ASSUME PartTypes, NEW total \in ProbedTotals(url), Size[url][live[url]] > 0,
         ResolveCount(parts, total) > 1
  PROVE  /\ total \in Nat \ {0} /\ ResolveCount(parts, total) \in 1..total
         /\ \E c \in Configs : ResolveCount(parts, total) <= c.count
         /\ Tag(live[url]) \in {NoTag} \cup Versions
<1>1. live[url] \in Versions /\ Size[url][live[url]] \in Nat
  BY ServerAssumption DEF PartTypes
<1>2. total \in Nat \ {0}
  BY <1>1 DEF ProbedTotals
<1>3. NoParts \in PartsConfigs(Nat) /\ NoParts.count = 1
  BY DEF NoParts, PartsConfigs
<1>4. parts \in PartsConfigs(Nat)
  BY <1>3, MultiPartAssumption DEF PartTypes
<1>5. ResolveCount(parts, total) \in 1..total /\ ResolveCount(parts, total) <= parts.count
  BY <1>2, <1>4, CountFits
<1>6. parts \in Configs
  BY <1>3, <1>5 DEF PartTypes
<1> QED
  BY <1>1, <1>2, <1>5, <1>6 DEF Tag

(* The steps of the call's own thread, to the workers and back.            *)
LEMMA PlanBelieves ==
  ASSUME PartsInv,
         \/ ChooseMulti \/ MpLoad \/ MpWipe("mp_wipe", "mp_probe") \/ ProbeFails \/ ProbePlans
         \/ ProbeFallsBack \/ MpWipe("mp_fallback", "load") \/ MpWriteState \/ MpScan
         \/ Join \/ Assemble \/ UnlinkSegment \/ Assembled
  PROVE  PartsInv'
<1> USE DEF PartsInv, PartTypes, SavedState, MpGoto
<1>1. CASE ChooseMulti
  BY <1>1 DEF ChooseMulti
<1>2. CASE MpLoad
  BY <1>2, RaiseBelieves DEF MpLoad, Plans, Identity
<1>3. ASSUME NEW to \in {"mp_probe", "load"}, NEW from \in {"mp_wipe", "mp_fallback"},
             MpWipe(from, to)
      PROVE  PartsInv'
  BY <1>3, NoHandles DEF MpWipe, UnlinkOneStagingFile
<1>4. CASE ProbeFails
  BY <1>4, RaiseBelieves DEF ProbeFails, RetryOrRaise, mp
<1>5. CASE ProbePlans
  <2>1. PICK total \in ProbedTotals(url) :
          plan' = [total |-> total, count |-> ResolveCount(parts, total),
                   tag |-> Tag(live[url])]
    BY <1>5 DEF ProbePlans
  <2>2. plan' \in Plans
    BY <1>5, <2>1, PlanFits DEF ProbePlans, Plans
  <2> QED
    BY <1>5, <2>2 DEF ProbePlans
<1>6. CASE ProbeFallsBack
  BY <1>6 DEF ProbeFallsBack
<1>7. CASE MpWriteState
  BY <1>7 DEF MpWriteState, Plans, Identity
<1>8. CASE MpScan
  <2>1. ASSUME NEW i \in Segs
        PROVE  w'[i] \in WorkerRecord /\ w'[i].pos = 0 /\ w'[i].pc # "body"
               /\ (w'[i].pc \in Active => w'[i].got = Got(i))
    <3>1. Got(i) \in Nat
      BY LenProperties DEF Got, File
    <3>2. ASSUME NEW label \in {"done", "connect"}
          PROVE  LET r == [Off EXCEPT !.got = Got(i), !.pc = label]
                 IN  r \in WorkerRecord /\ r.pos = 0 /\ r.pc = label /\ r.got = Got(i)
      BY <3>1, NothingTyped DEF Off, WorkerRecord, Active
    <3>3. w'[i] = IF i >= plan.count THEN Off
                  ELSE [Off EXCEPT !.got = Got(i),
                                   !.pc = IF Got(i) >= Needed(plan.total, plan.count, i)
                                            THEN "done" ELSE "connect"]
      BY <1>8 DEF MpScan
    <3>4. Off \in WorkerRecord /\ Off.pos = 0 /\ Off.pc = "off"
      BY NothingTyped DEF Off
    <3> QED
      BY <3>2, <3>3, <3>4 DEF Active
  <2>2. w' = [i \in Segs |-> w'[i]]
    BY <1>8 DEF MpScan
  <2>3. w' \in [Segs -> WorkerRecord]
    BY <2>1, <2>2
  <2>4. ASSUME NEW i \in Segs PROVE Believes(i)'
    <3>1. w'[i].got \in Nat /\ segs' = segs
      BY <1>8, <2>3 DEF WorkerRecord, MpScan
    <3> QED
      BY <2>1, <3>1 DEF Believes, Got
  <2> QED
    BY <1>8, <2>3, <2>4 DEF MpScan
<1>9. CASE Join
  BY <1>9, NothingTyped, RaiseBelieves DEF Join
<1>10. CASE Assemble
  BY <1>10, RaiseBelieves DEF Assemble
<1>11. CASE UnlinkSegment \/ Assembled
  BY <1>11, NothingTyped, NoHandles DEF UnlinkSegment, Assembled
<1> QED
  BY <1>1, <1>2, <1>3, <1>4, <1>5, <1>6, <1>7, <1>8, <1>9, <1>10, <1>11

(* Tasks are joined by an interrupt, so none is left to open a file.       *)
LEMMA PartsStep == ASSUME Async PROVE PartsInv /\ [MpNext]_mpVars => PartsInv'
<1> SUFFICES ASSUME PartsInv, [MpNext]_mpVars PROVE PartsInv'
  OBVIOUS
<1>1. CASE UNCHANGED mpVars
  BY <1>1 DEF mpVars, mp, PartsInv, PartTypes, SavedState, Believes, Got
<1>2. ASSUME NEW u \in Urls, NEW o \in BOOLEAN, NEW p \in Configs \cup {NoParts},
             NEW e \in Versions \cup {NoVersion}, MpCall(u, o, e, p)
      PROVE  PartsInv'
  BY <1>2, SharedBelieves DEF MpCall, Call, MpLabels
<1>3. CASE ChooseSingle \/ CheckTargetStep \/ SingleStreamStep
  <2>1. UNCHANGED <<parts, mp>> /\ Step
    BY <1>3, NoHandles
    DEF ChooseSingle, CheckTargetStep, SingleStreamStep, Step, mp, PartsInv, PartTypes
  <2>2. pc \notin MpLabels
    BY <1>3 DEF ChooseSingle, CheckTargetStep, SingleStreamStep, TargetAbsent, CheckTarget,
      CheckTargetDigest, CheckTargetSize, Probe, Stream, Load, OpenPart, Connect, HandleHead,
      WriteState, Chunk, Drop, EndOfBody, Verify, Replace, Cleanup, MpLabels
  <2> QED
    BY <2>1, <2>2, SharedBelieves DEF PartsInv, PartTypes
<1>4. ASSUME NEW u \in Urls, Change(u), UNCHANGED <<parts, mp>> PROVE PartsInv'
  BY <1>4 DEF Change, Publish, mp, PartsInv, PartTypes, SavedState, Believes, Got
<1>5. CASE MpInterrupt \/ Kill
  BY <1>5, NothingTyped DEF MpInterrupt, Kill, Interrupt, PartsInv, PartTypes, SavedState
<1>6. CASE ZombieOpen \/ ZombieWrite \/ ZombieEnd
  BY <1>6 DEF ZombieOpen, ZombieWrite, ZombieEnd, PartsInv, PartTypes
<1>7. CASE MpStep
  BY <1>3, <1>7, PlanBelieves DEF MpStep
<1> QED
  BY <1>1, <1>2, <1>4, <1>5, <1>6, <1>7, WorkerBelieves DEF MpNext

(* download.py:797: the bytes a task believes are in its segment are in    *)
(* it, through retries, resumes and interrupts, so the range it asks for   *)
(* next is the one that is missing.                                        *)
THEOREM TasksInStep == ASSUME Async PROVE MpSpec => []WorkersInStep
<1>1. PartsInv => WorkersInStep
  BY DEF PartsInv, Believes, WorkersInStep, Active
<1>2. PartsInv /\ [MpNext]_mpVars => PartsInv'
  BY PartsStep
<1> QED
  BY <1>1, <1>2, PartsInit, PTL DEF MpSpec

----------------------------------------------------------------------------
(* What segments hold, if the server sends validators.                     *)

(* A server whose resources do not change, and which sends what it is      *)
(* asked for: then the first segment is one of its plan, too.              *)
Steady == Tagged /\ ~Rollback /\ MaxVersion = 1 /\ ~MayIgnoreRange /\ ~MayEndShort

Known(i) == i # 0 \/ Steady

Fits(p, u) ==
  /\ p.tag \in Versions /\ p.total \in Nat
  /\ p.count \in 2..p.total /\ \E c \in Configs : p.count <= c.count
  /\ Steady => p.total = Size[u][1]

Resuming == {"mp_scan", "mp_work", "mp_assemble", "mp_unlink"}

(* What SegmentsOfPlan says, of the first segment as well if it is known.  *)
SegmentsHeld ==
  SavedState =>
    \A i \in Segs : Known(i) /\ i < sidecar.count /\ segs[i] # NoFile =>
      /\ Len(segs[i]) <= Needed(sidecar.total, sidecar.count, i)
      /\ \A k \in 1..Len(segs[i]) :
           segs[i][k] = <<sidecar.url, sidecar.tag,
                          RangeStart(sidecar.total, sidecar.count, i) + k>>

(* The response of a worker is the rest of its range, in the revision that *)
(* was planned.                                                            *)
Answered(i) == w[i].pc = "body" \/ (w[i].pc = "head" /\ w[i].resp.status = 206)

Continues(i) ==
  /\ w[i].pc \in Active => i < plan.count
  /\ Known(i) /\ Answered(i) =>
       w[i].resp.ver = plan.tag /\ w[i].resp.at = From(i) /\ w[i].resp.upto <= Last(i) + 1

(* With such a server, a worker that is done has all of its range.         *)
Complete(i) == segs[i] # NoFile /\ Len(segs[i]) >= Needed(plan.total, plan.count, i)

Finishes(i) ==
  /\ w[i].pc = "head" => w[i].resp.status \in {206, 416}
  /\ Answered(i) => w[i].resp.upto = Last(i) + 1
  /\ w[i].pc = "done" => Complete(i)
  /\ i < plan.count => w[i].pc # "off"

(* No segment is older than the plan in the sidecar, which a call that     *)
(* resumes has read or written.                                            *)
SegInv ==
  /\ PartsInv
  /\ SegmentsHeld
  /\ SavedState => Fits(sidecar, sidecar.url)
  /\ pc \in Resuming \cup {"mp_write"} => Fits(plan, url)
  /\ pc \in Resuming =>
       sidecar = [url |-> url, tag |-> plan.tag, total |-> plan.total, count |-> plan.count]
  /\ pc \in {"mp_probe", "mp_write"} => \A i \in Segs : segs[i] = NoFile
  /\ pc = "mp_work" => \A i \in Segs : Continues(i) /\ (Steady => Finishes(i))

(* The types of a call, which are those of SingleStream at all labels.     *)
CallTypes ==
  /\ StagingTypeOK
  /\ pc \in Labels \cup MpLabels /\ outcome \in Outcomes
  /\ url \in Urls /\ overwrite \in BOOLEAN /\ expect \in Versions \cup {NoVersion}
  /\ received \in Nat /\ validator \in Versions \cup {NoTag}
  /\ hashed \in File /\ attempt \in 0..(Attempts - 1)
  /\ resp \in Response

(* How many bytes of the file come before segment k.                       *)
Reach(k) == IF k = plan.count THEN plan.total ELSE RangeStart(plan.total, plan.count, k)

(* The .part file of an assembly is the file up to the next segment, and   *)
(* the segments from there on are complete.                                *)
Assembling == {"mp_assemble", "mp_unlink"}

AssemblyInv ==
  /\ pc \notin Assembling => next = 0
  /\ pc \in Assembling =>
       /\ next \in 0..plan.count
       /\ \A i \in Segs : next <= i /\ i < plan.count => Complete(i)
  /\ pc = "mp_assemble" => part = Held(url, 1, Reach(next))
  /\ pc = "mp_unlink" => next < plan.count /\ part = Held(url, 1, Reach(next + 1))

(* A destination by parts is intact for the reasons that one by one stream *)
(* is, once its segments are.                                              *)
SteadyInv ==
  /\ SegInv /\ CallTypes
  /\ DiskInv
  /\ pc \notin MpLabels => CountInv /\ BeliefInv /\ StreamInv
  /\ pc \in {"mp_probe", "mp_write"} => part = NoFile
  /\ AssemblyInv

(* At first there is no segment and no sidecar.                            *)
LEMMA SegInit == MpInit => SegInv
<1> SUFFICES ASSUME MpInit PROVE SegInv
  OBVIOUS
<1>1. sidecar = NoFile /\ pc = "idle"
  BY DEF MpInit, Init, StagingInit
<1>2. SegmentsHeld
  BY <1>1 DEF SegmentsHeld, SavedState
<1> QED
  BY <1>1, <1>2, PartsInit DEF SegInv, SavedState, Resuming

(* Ranges after the first start after the first byte.                      *)
LEMMA LaterStart ==
  ASSUME NEW total \in Nat, NEW n \in 2..total, NEW i \in 1..(n - 1)
  PROVE  RangeStart(total, n, i) \in Nat \ {0}
<1>1. total \div n \in Nat /\ total \div n >= 1
  BY Quotient
<1>2. i * (total \div n) \in Nat /\ i * (total \div n) >= 1
  BY <1>1
<1> QED
  BY <1>1, <1>2 DEF RangeStart, PartLength

(* Its one revision is what such a server always has.                      *)
LEMMA OneRevision ==
  ASSUME Steady
  PROVE  Versions = {1} /\ \A n \in Versions : Tag(n) = 1
  BY DEF Steady, Versions, Tag

(* What is unlinked, and a plan that is forgotten, spoil no segment.       *)
LEMMA FewerSegments ==
  ASSUME SegmentsHeld, SavedState => Fits(sidecar, sidecar.url),
         sidecar' = sidecar \/ ~SavedState',
         \A i \in Segs : segs'[i] \in {segs[i], NoFile}
  PROVE  SegmentsHeld' /\ (SavedState' => Fits(sidecar', sidecar'.url))
<1>1. CASE ~SavedState'
  BY <1>1 DEF SavedState, SegmentsHeld
<1>2. CASE SavedState' /\ sidecar' = sidecar
  <2>1. SavedState /\ Fits(sidecar, sidecar.url)
    BY <1>2 DEF SavedState
  <2>2. \A i \in Segs : segs'[i] # NoFile => segs'[i] = segs[i]
    OBVIOUS
  <2> QED
    BY <1>2, <2>1, <2>2 DEF SegmentsHeld
<1> QED
  BY <1>1, <1>2

(* A call that is not, or no longer, at work on segments only has to keep  *)
(* what is on disk.                                                        *)
LEMMA OutsideWork ==
  ASSUME SegInv, PartsInv', pc' \notin Resuming \cup {"mp_probe", "mp_write"},
         sidecar' = sidecar \/ ~SavedState',
         segs' = segs \/ \E i \in Segs : segs' = [segs EXCEPT ![i] = NoFile]
  PROVE  SegInv'
<1>1. \A i \in Segs : segs'[i] \in {segs[i], NoFile}
  BY DEF SegInv, PartsInv, PartTypes
<1>2. SegmentsHeld' /\ (SavedState' => Fits(sidecar', sidecar'.url))
  BY <1>1, FewerSegments DEF SegInv
<1> QED
  BY <1>2 DEF SegInv, Resuming, Fits, SavedState

(* An exception leaves the segments to the next call.                      *)
LEMMA RaiseKeepsSegments ==
  ASSUME SegInv, NEW how, MpRaise(how) PROVE SegInv'
<1>1. PartsInv'
  BY RaiseBelieves DEF SegInv
<1> QED
  BY <1>1, OutsideWork DEF MpRaise, Resuming

(* A turn of worker i changes its segment only.                            *)
LEMMA TurnContinues ==
  ASSUME SegInv, PartsInv', pc = "mp_work", NEW i \in Segs, NEW rec \in WorkerRecord,
         Turn(i, rec), UNCHANGED Others,
         \A j \in Segs \ {i} : segs'[j] = segs[j],
         Known(i) /\ i < plan.count /\ segs'[i] # NoFile =>
           /\ Len(segs'[i]) <= Needed(plan.total, plan.count, i)
           /\ \A k \in 1..Len(segs'[i]) :
                segs'[i][k] = <<url, plan.tag, RangeStart(plan.total, plan.count, i) + k>>,
         rec.pc \in Active => i < plan.count,
         Known(i) /\ (rec.pc = "body" \/ (rec.pc = "head" /\ rec.resp.status = 206)) =>
           /\ rec.resp.ver = plan.tag
           /\ rec.resp.at = RangeStart(plan.total, plan.count, i) + rec.got
           /\ rec.resp.upto <= Last(i) + 1,
         Steady =>
           /\ rec.pc = "head" => rec.resp.status \in {206, 416}
           /\ (rec.pc = "body" \/ (rec.pc = "head" /\ rec.resp.status = 206)) =>
                rec.resp.upto = Last(i) + 1
           /\ rec.pc = "done" => Complete(i)'
           /\ rec.pc # "off"
  PROVE  SegInv'
<1>1. w' = [w EXCEPT ![i] = rec] /\ w \in [Segs -> WorkerRecord]
  BY DEF Turn, SegInv, PartsInv, PartTypes
<1>2. \A j \in Segs : Continues(j)'
  BY <1>1 DEF SegInv, Continues, From, Last, Others, Answered, Known
<1>3. /\ sidecar = [url |-> url, tag |-> plan.tag, total |-> plan.total, count |-> plan.count]
      /\ sidecar' = sidecar /\ pc' = pc /\ plan' = plan /\ url' = url /\ Fits(plan, url)
  BY DEF SegInv, Resuming, Others, callArgs
<1>4. Steady => \A j \in Segs : Finishes(j)'
  BY <1>1, <1>3 DEF SegInv, Finishes, Last, Answered, Complete
<1>5. SegmentsHeld'
  <2> SUFFICES ASSUME NEW j \in Segs, j < plan.count, Known(j), segs'[j] # NoFile, SavedState
      PROVE  /\ Len(segs'[j]) <= Needed(plan.total, plan.count, j)
             /\ \A k \in 1..Len(segs'[j]) :
                  segs'[j][k] = <<url, plan.tag, RangeStart(plan.total, plan.count, j) + k>>
    BY <1>3 DEF SegmentsHeld, SavedState
  <2>1. CASE j = i
    BY <2>1
  <2>2. CASE j # i
    <3>1. segs'[j] = segs[j]
      BY <2>2
    <3> QED
      BY <1>3, <3>1 DEF SegInv, SegmentsHeld
  <2> QED
    BY <2>1, <2>2
<1>6. SavedState' => Fits(sidecar', sidecar'.url)
  BY <1>3 DEF SegInv, SavedState, Fits
<1>7. Fits(plan, url)'
  BY <1>3 DEF Fits
<1> QED
  BY <1>2, <1>3, <1>4, <1>5, <1>6, <1>7 DEF SegInv, Resuming

(* A range is in the file.                                                 *)
LEMMA RangeInFile ==
  ASSUME NEW total \in Nat, NEW n \in 2..total, NEW i \in 0..(n - 1)
  PROVE  /\ RangeStart(total, n, i) \in Nat /\ RangeEnd(total, n, i) \in Int
         /\ RangeEnd(total, n, i) + 1 <= total
         /\ 0 < Needed(total, n, i)
         /\ i # 0 => RangeStart(total, n, i) # 0
<1>1. i \in Nat /\ n \in Nat /\ i <= n - 1
  OBVIOUS
<1>2. RangeStart(total, n, i) \in Nat /\ RangeEnd(total, n, i) \in Int
  BY <1>1, StartsTyped
<1>3. 0 < Needed(total, n, i)
  <2>1. Tiles(total, n)
    BY RangesTile
  <2>2. RangeStart(total, n, i) <= RangeEnd(total, n, i)
    BY <2>1 DEF Tiles
  <2> QED
    BY <1>2, <2>2 DEF Needed
<1>4. RangeEnd(total, n, i) + 1 <= total
  <2>1. CASE i = n - 1
    BY <1>1, <2>1 DEF RangeEnd
  <2>2. CASE i < n - 1
    <3>1. total \div n \in Nat /\ n * (total \div n) <= total
      BY <1>1, Quotient
    <3>2. (i + 1) * (total \div n) <= n * (total \div n)
          /\ (i + 1) * (total \div n) \in Nat
      BY <1>1, <2>2, <3>1, StepsMonotone
    <3> QED
      BY <1>1, <2>2, <3>1, <3>2 DEF RangeEnd, PartLength
  <2> QED
    BY <1>1, <2>1, <2>2
<1>5. i # 0 => RangeStart(total, n, i) # 0
  BY <1>1, LaterStart
<1> QED
  BY <1>2, <1>3, <1>4, <1>5

(* The segments of a call at work are those of its plan.                   *)
LEMMA SegmentHeld ==
  ASSUME SegInv, pc \in Resuming, NEW i \in Segs, Known(i), i < plan.count
  PROVE  /\ Fits(plan, url) /\ i \in 0..(plan.count - 1)
         /\ RangeStart(plan.total, plan.count, i) \in Nat /\ Last(i) \in Int
         /\ Last(i) + 1 <= plan.total
         /\ i # 0 => RangeStart(plan.total, plan.count, i) # 0
         /\ 0 < Needed(plan.total, plan.count, i)
         /\ segs[i] # NoFile =>
              /\ Len(segs[i]) <= Needed(plan.total, plan.count, i)
              /\ \A k \in 1..Len(segs[i]) :
                   segs[i][k] = <<url, plan.tag, RangeStart(plan.total, plan.count, i) + k>>
<1>1. /\ Fits(plan, url) /\ plan \in Plans /\ url \in Urls /\ SegmentsHeld
      /\ sidecar = [url |-> url, tag |-> plan.tag, total |-> plan.total, count |-> plan.count]
  BY DEF SegInv, PartsInv, PartTypes
<1>2. i \in Nat /\ plan.count \in Nat /\ plan.total \in Nat
  BY <1>1, SegNumbers DEF Plans
<1>3. i \in 0..(plan.count - 1) /\ plan.count \in 2..plan.total
  BY <1>1, <1>2 DEF Fits
<1>4. /\ RangeStart(plan.total, plan.count, i) \in Nat /\ Last(i) \in Int
      /\ Last(i) + 1 <= plan.total
      /\ i # 0 => RangeStart(plan.total, plan.count, i) # 0
      /\ 0 < Needed(plan.total, plan.count, i)
  BY <1>2, <1>3, RangeInFile DEF Last
<1>5. sidecar \in Identity /\ sidecar.count = plan.count /\ sidecar.count > 0
      /\ sidecar.total = plan.total /\ sidecar.tag = plan.tag /\ sidecar.url = url
  BY <1>1, <1>2, <1>3 DEF Identity, Plans
<1>6. SavedState
  BY <1>5, StagingAssumption DEF SavedState
<1> QED
  BY <1>1, <1>3, <1>4, <1>5, <1>6 DEF SegmentsHeld

(* A turn that leaves the file alone.                                      *)
LEMMA QuietContinues ==
  ASSUME SegInv, PartsInv', pc = "mp_work", NEW i \in Segs, NEW rec \in WorkerRecord,
         Turn(i, rec), UNCHANGED <<Others, segs>>,
         rec.pc \in Active => i < plan.count,
         rec.pc \notin {"body", "off"},
         Known(i) /\ rec.pc = "head" /\ rec.resp.status = 206 =>
           /\ rec.resp.ver = plan.tag
           /\ rec.resp.at = RangeStart(plan.total, plan.count, i) + rec.got
           /\ rec.resp.upto <= Last(i) + 1,
         Steady /\ rec.pc = "head" =>
           /\ rec.resp.status \in {206, 416}
           /\ rec.resp.status = 206 => rec.resp.upto = Last(i) + 1,
         Steady /\ rec.pc = "done" => Complete(i)
  PROVE  SegInv'
<1>1. Complete(i) => Complete(i)'
  BY DEF Complete, Others
<1>2. Known(i) /\ i < plan.count /\ segs'[i] # NoFile =>
        /\ Len(segs'[i]) <= Needed(plan.total, plan.count, i)
        /\ \A k \in 1..Len(segs'[i]) :
             segs'[i][k] = <<url, plan.tag, RangeStart(plan.total, plan.count, i) + k>>
  BY SegmentHeld DEF Resuming
<1> QED
  BY <1>1, <1>2, TurnContinues

(* A worker that fails leaves its segment as it is.                        *)
LEMMA FailContinues ==
  ASSUME SegInv, PartsInv', pc = "mp_work", NEW i \in Segs, UNCHANGED <<Others, segs>>,
         NEW how \in {"http", "lost", "transport"}, Fail(i, how)
  PROVE  SegInv'
<1> DEFINE rec == [Off EXCEPT !.pc = "failed", !.why = how]
<1>1. rec \in WorkerRecord /\ rec.pc = "failed"
  BY NothingTyped DEF WorkerRecord, Off, Active
<1> HIDE DEF rec
<1>2. Turn(i, rec)
  BY DEF Fail, rec
<1> QED
  BY <1>1, <1>2, QuietContinues DEF Active

(* So does one that tries again: it has no answer yet.                     *)
LEMMA RetryContinues ==
  ASSUME SegInv, PartsInv', NEW i \in Segs, pc = "mp_work", w[i].pc \in Active,
         WorkerRetryOrFail(i), UNCHANGED <<Others, segs>>
  PROVE  SegInv'
<1> DEFINE rec == [w[i] EXCEPT !.pc = "connect", !.tries = @ + 1, !.resp = NoAnswer]
<1>1. w[i] \in WorkerRecord /\ i < plan.count
  BY DEF SegInv, PartsInv, PartTypes, Continues
<1>2. rec \in WorkerRecord /\ rec.pc = "connect"
  BY <1>1, RetryRecord
<1> HIDE DEF rec
<1>3. CASE Turn(i, rec)
  BY <1>1, <1>2, <1>3, QuietContinues
<1>4. CASE Fail(i, "transport")
  BY <1>4, FailContinues
<1> QED
  BY <1>3, <1>4 DEF WorkerRetryOrFail, rec

(* The server honours a range with the validator of the plan only in the   *)
(* revision of the plan, and does not send beyond it.                      *)
LEMMA AnswersContinue ==
  ASSUME Tagged, SegInv, pc = "mp_work", NEW i \in Segs, Known(i), i < plan.count,
         NEW answer \in SegmentAnswers(i), answer.status = 206
  PROVE  answer.ver = plan.tag /\ answer.at = From(i) /\ answer.upto <= Last(i) + 1
<1>1. /\ RangeStart(plan.total, plan.count, i) \in Nat /\ plan.tag \in Versions
      /\ i # 0 => RangeStart(plan.total, plan.count, i) # 0
      /\ Last(i) \in Int
  BY SegmentHeld DEF Resuming, Fits
<1>2. w[i].got \in Nat /\ live[url] \in Versions /\ Size[url][live[url]] \in Nat
  BY ServerAssumption DEF SegInv, PartsInv, PartTypes, WorkerRecord
<1>3. From(i) \in Nat /\ (i # 0 => From(i) > 0)
  BY <1>1, <1>2 DEF From
<1>4. plan.tag # NoTag /\ Tag(live[url]) = live[url]
  BY <1>1 DEF NoTag, Versions, Tag
<1>5. AtMost(Last(i) + 1, Size[url][live[url]]) \in Int
      /\ AtMost(Last(i) + 1, Size[url][live[url]]) <= Last(i) + 1
  BY <1>1, <1>2 DEF AtMost
<1>6. answer \notin WholeAnswers
  BY DEF WholeAnswers, Answer
<1>7. plan.tag = live[url]
  <2>1. CASE i # 0
    BY <1>3, <1>4, <1>6, <2>1 DEF SegmentAnswers
  <2>2. CASE Steady
    BY <1>1, <1>2, <2>2, OneRevision
  <2> QED
    BY <2>1, <2>2 DEF Known
<1>8. answer \in Answer(206, From(i), AtMost(Last(i) + 1, Size[url][live[url]]))
  BY <1>4, <1>6, <1>7 DEF SegmentAnswers, Answer
<1>9. \E stop \in Int : stop <= Last(i) + 1
        /\ answer = [status |-> 206, ver |-> live[url], at |-> From(i), upto |-> stop]
  BY <1>1, <1>3, <1>5, <1>8 DEF Answer
<1> QED
  BY <1>7, <1>9

(* A steady one sends the range, to its end, or says that there is none.   *)
LEMMA AnswersFinish ==
  ASSUME Steady, SegInv, pc = "mp_work", NEW i \in Segs, i < plan.count,
         NEW answer \in SegmentAnswers(i)
  PROVE  /\ answer.status \in {206, 416}
         /\ answer.status = 206 => answer.upto = Last(i) + 1
<1>1. /\ plan.tag \in Versions /\ plan.total = Size[url][1]
      /\ Last(i) \in Int /\ Last(i) + 1 <= plan.total /\ plan.total \in Nat
  BY SegmentHeld DEF Resuming, Fits, Known
<1>2. live[url] = 1 /\ plan.tag = Tag(live[url])
  BY <1>1, OneRevision DEF SegInv, PartsInv, PartTypes
<1>3. AtMost(Last(i) + 1, Size[url][live[url]]) = Last(i) + 1
  BY <1>1, <1>2 DEF AtMost
<1>4. \/ answer = [status |-> 206, ver |-> live[url], at |-> From(i), upto |-> Last(i) + 1]
      \/ answer = [status |-> 416, ver |-> live[url], at |-> 0, upto |-> 0]
  BY <1>2, <1>3 DEF SegmentAnswers, Answer, Steady
<1> QED
  BY <1>4

(* Workers fill their segments from the plan's revision.                   *)
LEMMA WorkerContinues ==
  ASSUME Tagged, SegInv, NEW i \in Segs, Worker(i)
  PROVE  SegInv'
<1>0. pc = "mp_work" /\ pc \in Resuming
  BY DEF Worker, WorkerGated, WorkerConnect, WorkerOpen, WorkerRefused, WorkerLost,
         WorkerChunk, WorkerEnd, WorkerDrop, Working, Resuming
<1>1. PartsInv' /\ PartsInv
  BY WorkerBelieves DEF SegInv
<1>2. w[i] \in WorkerRecord /\ Continues(i) /\ segs[i] \in File \cup {NoFile} /\ Believes(i)
      /\ segs \in [Segs -> File \cup {NoFile}]
  BY <1>0 DEF SegInv, PartsInv, PartTypes
<1>3. ASSUME NEW how \in {"http", "lost"}, WorkerBreaks(i, how) PROVE SegInv'
  BY <1>0, <1>1, <1>3, FailContinues, RaiseKeepsSegments DEF WorkerBreaks
<1>4. CASE WorkerConnect(i)
  <2>1. ASSUME NEW answer \in SegmentAnswers(i),
               Turn(i, [w[i] EXCEPT !.pc = "head", !.resp = answer])
        PROVE  SegInv'
    <3> DEFINE rec == [w[i] EXCEPT !.pc = "head", !.resp = answer]
    <3>1. answer \in Answers
      BY <1>1, AnswersTyped DEF PartsInv
    <3>2. rec \in WorkerRecord /\ rec.pc = "head" /\ rec.got = w[i].got /\ rec.resp = answer
      BY <1>2, <3>1, AnswerRecord
    <3> HIDE DEF rec
    <3>3. i < plan.count
      BY <1>2, <1>4 DEF Continues, WorkerConnect, Working, Active
    <3>4. Known(i) /\ rec.resp.status = 206 =>
            /\ rec.resp.ver = plan.tag
            /\ rec.resp.at = RangeStart(plan.total, plan.count, i) + rec.got
            /\ rec.resp.upto <= Last(i) + 1
      BY <1>0, <3>2, <3>3, AnswersContinue DEF From
    <3>5. Turn(i, rec) /\ UNCHANGED <<Others, segs>>
      BY <1>4, <2>1 DEF WorkerConnect, rec
    <3>6. Steady => /\ rec.resp.status \in {206, 416}
                    /\ rec.resp.status = 206 => rec.resp.upto = Last(i) + 1
      BY <1>0, <3>2, <3>3, AnswersFinish
    <3> QED
      BY <1>0, <1>1, <3>2, <3>3, <3>4, <3>5, <3>6, QuietContinues
  <2> QED
    BY <1>0, <1>1, <1>4, <2>1, FailContinues, RetryContinues DEF WorkerConnect, Working, Active
<1>5. CASE WorkerOpen(i)
  <2> DEFINE rec == [w[i] EXCEPT !.pc = "body", !.append = (w[i].got > 0)]
  <2>1. rec \in WorkerRecord /\ rec.pc = "body" /\ rec.got = w[i].got /\ rec.resp = w[i].resp
    BY <1>2, OpenRecord
  <2>2. i < plan.count /\ w[i].pc = "head" /\ w[i].got \in Nat
    BY <1>2, <1>5 DEF Continues, WorkerOpen, Working, Active, WorkerRecord
  <2>3. Known(i) => w[i].resp.status = 206
    <3>1. CASE i # 0
      <4>1. From(i) # 0
        BY <1>0, <2>2, <3>1, SegmentHeld DEF From, Known
      <4> QED
        BY <1>5, <4>1 DEF WorkerOpen, Opens
    <3>2. CASE Steady
      BY <1>0, <1>2, <1>5, <2>2, <3>2 DEF WorkerOpen, Opens, Finishes, SegInv
    <3> QED
      BY <3>1, <3>2 DEF Known
  <2>7. Known(i) => /\ rec.resp.ver = plan.tag
                    /\ rec.resp.at = RangeStart(plan.total, plan.count, i) + rec.got
                    /\ rec.resp.upto <= Last(i) + 1
    BY <1>2, <2>1, <2>2, <2>3 DEF Continues, From, Answered
  <2>8. Steady => rec.resp.upto = Last(i) + 1
    BY <1>0, <2>1, <2>2, <2>3 DEF Finishes, Answered, SegInv, Known
  <2>4. segs'[i] \in {<<>>, segs[i]} /\ \A j \in Segs \ {i} : segs'[j] = segs[j]
    BY <1>2, <1>5 DEF WorkerOpen, Opened
  <2>5. ASSUME Known(i), segs'[i] # NoFile
        PROVE  /\ Len(segs'[i]) <= Needed(plan.total, plan.count, i)
               /\ \A k \in 1..Len(segs'[i]) :
                    segs'[i][k] = <<url, plan.tag, RangeStart(plan.total, plan.count, i) + k>>
    <3>1. CASE segs'[i] = <<>>
      <4>1. Len(segs'[i]) = 0 /\ 0 < Needed(plan.total, plan.count, i)
        BY <1>0, <2>2, <2>5, <3>1, SegmentHeld
      <4>2. Needed(plan.total, plan.count, i) \in Int
        BY <1>0, <2>2, <2>5, SegmentHeld DEF Needed, Last
      <4> QED
        BY <4>1, <4>2
    <3>2. CASE segs'[i] = segs[i]
      BY <1>0, <2>2, <2>5, <3>2, SegmentHeld
    <3> QED
      BY <2>4, <3>1, <3>2
  <2> HIDE DEF rec
  <2>6. Turn(i, rec) /\ UNCHANGED Others
    BY <1>5 DEF WorkerOpen, rec
  <2> QED
    BY <1>0, <1>1, <2>1, <2>2, <2>4, <2>5, <2>6, <2>7, <2>8, TurnContinues
<1>6. CASE WorkerChunk(i)
  <2> DEFINE rec == Advanced(w[i])
             b == <<url, w[i].resp.ver, w[i].resp.at + 1>>
  <2>1. rec \in WorkerRecord /\ rec.pc = "body" /\ rec.got = w[i].got + 1
        /\ rec.resp = [w[i].resp EXCEPT !.at = w[i].resp.at + 1]
    BY <1>2, <1>6, ByteRecord DEF WorkerChunk, Working
  <2>2. rec.resp.at = w[i].resp.at + 1 /\ rec.resp.ver = w[i].resp.ver
        /\ rec.resp.upto = w[i].resp.upto
    BY <1>2, <2>1 DEF WorkerRecord, Answers
  <2>3. i < plan.count /\ w[i].pc = "body" /\ w[i].got \in Nat /\ w[i].resp.at \in Nat
        /\ w[i].resp.upto \in Int /\ w[i].resp.at < w[i].resp.upto
        /\ w[i].resp.ver \in Versions
    BY <1>2, <1>6 DEF Continues, WorkerChunk, Working, Active, WorkerRecord, Answers
  <2>4. segs[i] \in File /\ w[i].got = Len(segs[i])
        /\ (w[i].append \/ w[i].pos = w[i].got) /\ w[i].append \in BOOLEAN /\ w[i].pos \in Nat
    BY <1>2, <2>3 DEF Believes, Got, Active, WorkerRecord
  <2>5. b \in Byte
    BY <1>1, <2>3 DEF Byte, PartsInv, PartTypes
  <2>6. segs'[i] = WriteByte(segs[i], w[i].append, w[i].pos, b)
        /\ \A j \in Segs \ {i} : segs'[j] = segs[j]
    BY <1>2, <1>6 DEF WorkerChunk, Written
  <2> HIDE DEF b
  <2>7. segs'[i] = Append(segs[i], b)
    BY <2>4, <2>5, <2>6, WrittenAtEnd
  <2>8. /\ Len(segs'[i]) = w[i].got + 1 /\ segs'[i][w[i].got + 1] = b
        /\ \A k \in 1..w[i].got : segs'[i][k] = segs[i][k]
    BY <2>4, <2>5, <2>7, AppendProperties DEF File
  <2>9. ASSUME Known(i)
        PROVE  /\ w[i].resp.ver = plan.tag /\ w[i].resp.upto <= Last(i) + 1
               /\ w[i].resp.at = RangeStart(plan.total, plan.count, i) + w[i].got
    BY <1>2, <2>3, <2>9 DEF Continues, From, Answered
  <2>10. ASSUME Known(i)
         PROVE  /\ rec.resp.ver = plan.tag
                /\ rec.resp.at = RangeStart(plan.total, plan.count, i) + rec.got
                /\ rec.resp.upto <= Last(i) + 1
    <3>1. RangeStart(plan.total, plan.count, i) \in Nat
      BY <1>0, <2>3, <2>10, SegmentHeld
    <3> QED
      BY <2>1, <2>2, <2>3, <2>9, <2>10, <3>1
  <2>11. ASSUME Known(i)
         PROVE  /\ Len(segs'[i]) <= Needed(plan.total, plan.count, i)
                /\ \A k \in 1..Len(segs'[i]) :
                     segs'[i][k] = <<url, plan.tag, RangeStart(plan.total, plan.count, i) + k>>
    <3>1. RangeStart(plan.total, plan.count, i) \in Nat /\ Last(i) \in Int
      BY <1>0, <2>3, <2>11, SegmentHeld
    <3>2. Len(segs'[i]) <= Needed(plan.total, plan.count, i)
      BY <2>3, <2>8, <2>9, <2>11, <3>1 DEF Needed, Last
    <3>3. b = <<url, plan.tag, RangeStart(plan.total, plan.count, i) + (w[i].got + 1)>>
      BY <2>3, <2>9, <2>11, <3>1 DEF b
    <3>4. \A k \in 1..w[i].got :
            segs[i][k] = <<url, plan.tag, RangeStart(plan.total, plan.count, i) + k>>
      BY <1>0, <2>3, <2>4, <2>11, SegmentHeld, StagingAssumption
    <3>5. ASSUME NEW k \in 1..(w[i].got + 1)
          PROVE  segs'[i][k] = <<url, plan.tag, RangeStart(plan.total, plan.count, i) + k>>
      <4>1. CASE k \in 1..w[i].got
        BY <2>8, <3>4, <4>1
      <4>2. CASE k = w[i].got + 1
        BY <2>8, <3>3, <4>2
      <4> QED
        BY <2>3, <4>1, <4>2
    <3> QED
      BY <2>8, <3>2, <3>5
  <2> HIDE DEF rec
  <2>12. Turn(i, rec) /\ UNCHANGED Others
    BY <1>6 DEF WorkerChunk, rec
  <2>13. Steady => rec.resp.upto = Last(i) + 1
    BY <1>0, <2>2, <2>3 DEF SegInv, Finishes, Answered
  <2> QED
    BY <1>0, <1>1, <2>1, <2>3, <2>6, <2>10, <2>11, <2>12, <2>13, TurnContinues
<1>7. CASE WorkerEnd(i)
  <2> DEFINE rec == [Off EXCEPT !.pc = "done"]
  <2>1. rec \in WorkerRecord /\ rec.pc = "done"
    BY NothingTyped DEF WorkerRecord, Off
  <2> HIDE DEF rec
  <2>2. w[i].pc = "body" /\ w[i].resp.at = w[i].resp.upto
    BY <1>7 DEF WorkerEnd, Working
  <2>3. ASSUME Steady PROVE Complete(i)
    <3>1. Continues(i) /\ Finishes(i) /\ Known(i) /\ i < plan.count
      BY <1>0, <1>2, <2>2, <2>3 DEF SegInv, Known, Continues, Active
    <3>2. From(i) = Last(i) + 1 /\ w[i].got = Got(i) /\ segs[i] # NoFile /\ w[i].got \in Nat
      BY <1>2, <2>2, <3>1 DEF Continues, Finishes, Answered, Believes, Active, WorkerRecord
    <3>3. RangeStart(plan.total, plan.count, i) \in Nat /\ Last(i) \in Int
      BY <1>0, <3>1, SegmentHeld
    <3> QED
      BY <3>2, <3>3 DEF Complete, From, Last, Needed, Got
  <2>4. Turn(i, rec) /\ UNCHANGED <<Others, segs>>
    BY <1>7 DEF WorkerEnd, rec
  <2> QED
    BY <1>0, <1>1, <2>1, <2>3, <2>4, QuietContinues DEF Active
<1> QED
  BY <1>0, <1>1, <1>3, <1>4, <1>5, <1>6, <1>7, FailContinues, RetryContinues
  DEF Worker, WorkerGated, WorkerRefused, WorkerLost, WorkerDrop, Working, Active

(* A plan is written down before there are segments, or was read with them. *)
LEMMA PlanKeepsSegments ==
  ASSUME Tagged, SegInv,
         \/ ChooseMulti \/ MpLoad \/ MpWipe("mp_wipe", "mp_probe") \/ ProbeFails \/ ProbePlans
         \/ ProbeFallsBack \/ MpWipe("mp_fallback", "load") \/ MpWriteState \/ MpScan
         \/ Join \/ Assemble \/ UnlinkSegment \/ Assembled
  PROVE  SegInv'
<1>0. PartsInv /\ PartsInv'
  BY PlanBelieves DEF SegInv
<1>1. CASE ChooseMulti \/ ProbeFallsBack \/ Assembled
  BY <1>0, <1>1, OutsideWork DEF ChooseMulti, ProbeFallsBack, Assembled, MpGoto, Resuming
<1>2. CASE MpLoad
  <2>1. ASSUME NEW how, MpRaise(how) PROVE SegInv'
    BY <2>1, RaiseKeepsSegments
  <2>2. CASE MpGoto("mp_wipe") /\ UNCHANGED disk
    BY <1>0, <2>2, OutsideWork DEF MpGoto, Resuming
  <2>3. CASE /\ SavedState /\ sidecar.url = url
             /\ plan' = [total |-> sidecar.total, count |-> sidecar.count, tag |-> sidecar.tag]
             /\ MpGoto("mp_scan") /\ UNCHANGED disk
    <3>1. sidecar \in Identity /\ Fits(sidecar, url)
      BY <1>0, <2>3 DEF SegInv, PartsInv, PartTypes
    <3>2. sidecar = [url |-> url, tag |-> sidecar.tag, total |-> sidecar.total,
                     count |-> sidecar.count]
      BY <2>3, <3>1 DEF Identity
    <3>3. Fits(plan', url') /\ sidecar' = [url |-> url', tag |-> plan'.tag, total |-> plan'.total,
                                     count |-> plan'.count]
      BY <2>3, <3>1, <3>2 DEF Fits, MpGoto
    <3>4. SegmentsHeld' /\ (SavedState' => Fits(sidecar', sidecar'.url))
      BY <2>3 DEF SegInv, SegmentsHeld, SavedState
    <3> QED
      BY <1>0, <2>3, <3>3, <3>4 DEF SegInv, MpGoto, Resuming, Fits
  <2> QED
    BY <1>2, <2>1, <2>2, <2>3 DEF MpLoad
<1>3. ASSUME NEW to \in {"mp_probe", "load"}, NEW from \in {"mp_wipe", "mp_fallback"},
             MpWipe(from, to)
      PROVE  SegInv'
  <2>1. CASE UnlinkOneStagingFile /\ Goto(from)
    <3>1. sidecar' = sidecar \/ ~SavedState'
      BY <2>1 DEF UnlinkOneStagingFile, SavedState
    <3>2. segs' = segs \/ \E i \in Segs : segs' = [segs EXCEPT ![i] = NoFile]
      BY <2>1 DEF UnlinkOneStagingFile
    <3> QED
      BY <1>0, <2>1, <3>1, <3>2, OutsideWork DEF MpGoto, Resuming
  <2>2. CASE NoStagingLeft /\ Goto(to) /\ UNCHANGED disk /\ to = "load"
    BY <1>0, <2>2, OutsideWork DEF MpGoto, Resuming
  <2>3. CASE NoStagingLeft /\ Goto(to) /\ UNCHANGED disk /\ to = "mp_probe"
    <3>1. \A i \in Segs : segs'[i] \in {segs[i], NoFile} /\ segs'[i] = NoFile
      BY <2>3 DEF NoStagingLeft
    <3>2. SegmentsHeld' /\ (SavedState' => Fits(sidecar', sidecar'.url))
      BY <2>3, <3>1, FewerSegments DEF SegInv
    <3> QED
      BY <1>0, <2>3, <3>1, <3>2 DEF SegInv, MpGoto, Resuming
  <2> QED
    BY <1>3, <2>1, <2>2, <2>3 DEF MpWipe
<1>4. CASE ProbeFails
  <2>1. CASE Goto("mp_probe") /\ UNCHANGED <<disk, mp>> /\ pc = "mp_probe"
    <3>1. SegmentsHeld' /\ (SavedState' => Fits(sidecar', sidecar'.url))
      BY <2>1 DEF SegInv, SegmentsHeld, SavedState
    <3> QED
      BY <1>0, <2>1, <3>1 DEF SegInv, Resuming
  <2>2. CASE UNCHANGED disk /\ pc' = "idle"
    BY <1>0, <2>2, OutsideWork DEF Resuming
  <2> QED
    BY <1>4, <2>1, <2>2 DEF ProbeFails, RetryOrRaise, MpRaise
<1>5. CASE ProbePlans
  <2>1. PICK total \in ProbedTotals(url) :
          /\ ResolveCount(parts, total) > 1
          /\ plan' = [total |-> total, count |-> ResolveCount(parts, total),
                      tag |-> Tag(live[url])]
    BY <1>5 DEF ProbePlans
  <2>2. live[url] \in Versions /\ Tag(live[url]) \in Versions
    BY <1>0 DEF PartsInv, PartTypes, Tag
  <2>6. Steady => total = Size[url][1]
    <3>1. live[url] \in Versions /\ Size[url][live[url]] \in Nat
      BY <1>0, ServerAssumption DEF PartsInv, PartTypes
    <3>2. total # 1
      BY <1>0, <1>5, <2>1, PlanFits DEF ProbePlans, PartsInv
    <3>3. Steady => live[url] = 1
      BY <3>1, OneRevision
    <3> QED
      BY <3>1, <3>2, <3>3 DEF ProbedTotals
  <2>3. Fits(plan', url)
    BY <1>0, <1>5, <2>1, <2>2, <2>6, PlanFits DEF ProbePlans, Fits, PartsInv
  <2>4. sidecar' = Torn /\ segs' = segs /\ url' = url /\ pc = "mp_probe" /\ pc' = "mp_write"
    BY <1>5 DEF ProbePlans, MpGoto
  <2>5. SegmentsHeld' /\ ~SavedState'
    BY <2>4 DEF SegmentsHeld, SavedState
  <2> QED
    BY <1>0, <2>3, <2>4, <2>5 DEF SegInv, Resuming, Fits
<1>6. CASE MpWriteState
  <2>1. Fits(plan, url) /\ \A i \in Segs : segs[i] = NoFile
    BY <1>6 DEF MpWriteState, SegInv
  <2>2. /\ sidecar' = [url |-> url, tag |-> plan.tag, total |-> plan.total, count |-> plan.count]
        /\ plan' = plan /\ url' = url /\ segs' = segs /\ pc' = "mp_scan"
    BY <1>6 DEF MpWriteState, MpGoto
  <2>4. SegmentsHeld'
    BY <2>1, <2>2 DEF SegmentsHeld
  <2>5. Fits(sidecar', sidecar'.url) /\ Fits(plan', url')
    BY <2>1, <2>2 DEF Fits
  <2> QED
    BY <1>0, <2>2, <2>4, <2>5 DEF SegInv, Resuming, Fits
<1>7. CASE MpScan
  <2>1. ASSUME NEW i \in Segs PROVE Continues(i)' /\ (Steady => Finishes(i)')
    <3>1. w'[i] = IF i >= plan.count THEN Off
                  ELSE [Off EXCEPT !.got = Got(i),
                                   !.pc = IF Got(i) >= Needed(plan.total, plan.count, i)
                                            THEN "done" ELSE "connect"]
      BY <1>7 DEF MpScan
    <3>2. w'[i].pc \in {"off", "done", "connect"}
      BY <3>1 DEF Off
    <3>3. i >= plan.count => w'[i].pc = "off"
      BY <3>1 DEF Off
    <3>4. i \in Nat
      BY SegNumbers
    <3>5. plan.count \in Nat
      BY <1>0 DEF PartsInv, PartTypes, Plans
    <3>6. plan' = plan
      BY <1>7 DEF MpScan
    <3>7. Continues(i)'
      BY <3>2, <3>3, <3>4, <3>5, <3>6 DEF Continues, Active, Answered
    <3>8. ASSUME Steady, w'[i].pc = "done" PROVE Complete(i)'
      <4>1. i < plan.count /\ Got(i) >= Needed(plan.total, plan.count, i)
        BY <3>1, <3>3, <3>4, <3>5, <3>8 DEF Off
      <4>2. 0 < Needed(plan.total, plan.count, i)
            /\ Needed(plan.total, plan.count, i) \in Int
        <5>1. pc \in Resuming /\ Known(i)
          BY <1>7, <3>8 DEF MpScan, Resuming, Known
        <5>2. /\ 0 < Needed(plan.total, plan.count, i) /\ Last(i) \in Int
              /\ RangeStart(plan.total, plan.count, i) \in Nat
          BY <4>1, <5>1, SegmentHeld
        <5> QED
          BY <5>2 DEF Needed, Last
      <4>3. segs[i] # NoFile
        BY <4>1, <4>2 DEF Got
      <4> QED
        BY <1>7, <3>6, <4>1, <4>3 DEF Complete, Got, MpScan
    <3>9. i < plan.count => w'[i].pc # "off"
      BY <3>1, <3>4, <3>5 DEF Off
    <3> QED
      BY <3>2, <3>6, <3>7, <3>8, <3>9 DEF Finishes, Answered
  <2>2. /\ sidecar' = sidecar /\ segs' = segs /\ plan' = plan /\ url' = url
        /\ pc = "mp_scan" /\ pc' = "mp_work"
    BY <1>7 DEF MpScan
  <2>3. SegmentsHeld' /\ (SavedState' => Fits(sidecar', sidecar'.url))
    BY <2>2 DEF SegInv, SegmentsHeld, SavedState
  <2> QED
    BY <1>0, <2>1, <2>2, <2>3 DEF SegInv, Resuming, Fits
<1>8. ASSUME pc \in Resuming, pc' \in {"mp_assemble", "mp_unlink"}, url' = url, plan' = plan,
             sidecar' = sidecar, \A i \in Segs : segs'[i] \in {segs[i], NoFile}
      PROVE  SegInv'
  <2>1. SegmentsHeld' /\ (SavedState' => Fits(sidecar', sidecar'.url))
    BY <1>8, FewerSegments DEF SegInv
  <2> QED
    BY <1>0, <1>8, <2>1 DEF SegInv, Resuming, Fits
<1>9. CASE Join
  <2>1. ASSUME NEW how, MpRaise(how) PROVE SegInv'
    BY <2>1, RaiseKeepsSegments
  <2> QED
    BY <1>8, <1>9, <2>1 DEF Join, Resuming
<1>10. CASE Assemble
  <2>1. ASSUME NEW how, MpRaise(how) PROVE SegInv'
    BY <2>1, RaiseKeepsSegments
  <2> QED
    BY <1>8, <1>10, <2>1 DEF Assemble, MpGoto, Resuming
<1>11. CASE UnlinkSegment
  <2>1. \A i \in Segs : segs'[i] \in {segs[i], NoFile}
    BY <1>0, <1>11 DEF UnlinkSegment, PartsInv, PartTypes
  <2> QED
    BY <1>8, <1>11, <2>1 DEF UnlinkSegment, Resuming
<1> QED
  BY <1>1, <1>2, <1>3, <1>4, <1>5, <1>6, <1>7, <1>9, <1>10, <1>11

(* Every step, of tasks and of the calls between them.                     *)
LEMMA SegStep == ASSUME Tagged, Async PROVE SegInv /\ [MpNext]_mpVars => SegInv'
<1> SUFFICES ASSUME SegInv, [MpNext]_mpVars PROVE SegInv'
  OBVIOUS
<1>0. PartsInv /\ PartsInv'
  BY PartsStep DEF SegInv
<1>1. CASE UNCHANGED mpVars
  BY <1>0, <1>1 DEF mpVars, mp, SegInv, SegmentsHeld, SavedState, Fits, Continues, From, Last,
                      Answered, Finishes, Complete
<1>2. ASSUME pc \notin MpLabels,
             \/ \E u \in Urls, o \in BOOLEAN, e \in Versions \cup {NoVersion} : Call(u, o, e)
             \/ Step \/ Interrupt \/ \E u \in Urls : Change(u)
      PROVE  SegInv'
  <2>1. pc' \notin MpLabels
    BY <1>2, SharedLabels
  <2>2. /\ sidecar' = sidecar \/ ~SavedState'
        /\ segs' = segs \/ \E i \in Segs : segs' = [segs EXCEPT ![i] = NoFile]
    BY <1>0, <1>2, SharedDisk DEF PartsInv
  <2> QED
    BY <1>0, <2>1, <2>2, OutsideWork DEF MpLabels, Resuming
<1>3. ASSUME NEW u \in Urls, NEW o \in BOOLEAN, NEW p \in Configs \cup {NoParts},
             NEW e \in Versions \cup {NoVersion}, MpCall(u, o, e, p)
      PROVE  SegInv'
  BY <1>2, <1>3 DEF MpCall, Call, MpLabels
<1>4. CASE ChooseSingle \/ CheckTargetStep \/ SingleStreamStep
  <2>1. Step
    BY <1>4 DEF ChooseSingle, CheckTargetStep, SingleStreamStep, Step
  <2>2. pc \notin MpLabels
    BY <1>4 DEF ChooseSingle, CheckTargetStep, SingleStreamStep, TargetAbsent, CheckTarget,
      CheckTargetDigest, CheckTargetSize, Probe, Stream, Load, OpenPart, Connect, HandleHead,
      WriteState, Chunk, Drop, EndOfBody, Verify, Replace, Cleanup, MpLabels
  <2> QED
    BY <1>2, <2>1, <2>2
<1>5. ASSUME NEW u \in Urls, Change(u), UNCHANGED <<parts, mp>> PROVE SegInv'
  <2>1. UNCHANGED <<pc, url, sidecar, segs, plan, w>>
    BY <1>5 DEF Change, mp
  <2> QED
    BY <1>0, <2>1 DEF SegInv, SegmentsHeld, SavedState, Fits, Continues, From, Last,
                      Answered, Finishes, Complete
<1>6. CASE MpInterrupt \/ Kill
  BY <1>0, <1>6, OutsideWork DEF MpInterrupt, Kill, Interrupt, Resuming
<1>7. CASE ZombieOpen \/ ZombieWrite \/ ZombieEnd
  BY <1>0, <1>7 DEF ZombieOpen, ZombieWrite, ZombieEnd, PartsInv, PartTypes
<1>8. CASE MpStep
  BY <1>4, <1>8, PlanKeepsSegments DEF MpStep
<1> QED
  BY <1>1, <1>3, <1>5, <1>6, <1>7, <1>8, WorkerContinues DEF MpNext

(* What the property says is what is held of the segments after the first. *)
LEMMA SegmentsAsPlanned == SegInv => SegmentsOfPlan
<1> SUFFICES ASSUME SegInv, sidecar \in Identity, sidecar.count > 0,
                    NEW i \in 1..(sidecar.count - 1), segs[i] # NoFile
             PROVE  /\ Len(segs[i]) <= Needed(sidecar.total, sidecar.count, i)
                    /\ \A k \in 1..Len(segs[i]) :
                         segs[i][k] = <<sidecar.url, sidecar.tag,
                                        RangeStart(sidecar.total, sidecar.count, i) + k>>
  BY DEF SegmentsOfPlan
<1>1. SavedState /\ Fits(sidecar, sidecar.url)
  BY StagingAssumption DEF SegInv, SavedState
<1>2. i \in Segs /\ Known(i) /\ i < sidecar.count
  BY <1>1, SegNumbers DEF Fits, Known
<1> QED
  BY <1>1, <1>2 DEF SegInv, SegmentsHeld

(* What a download by tasks resumes from: every segment but the first is   *)
(* a run of bytes from the start of its range, of the one revision that    *)
(* the sidecar names, whatever was released, interrupted, retried, cut     *)
(* short or downloaded to the same path in between.                        *)
THEOREM TasksFillThePlan == ASSUME Tagged, Async PROVE MpSpec => []SegmentsOfPlan
<1>1. SegInv => SegmentsOfPlan
  BY SegmentsAsPlanned
<1>2. SegInv /\ [MpNext]_mpVars => SegInv'
  BY SegStep
<1> QED
  BY <1>1, <1>2, SegInit, PTL DEF MpSpec

----------------------------------------------------------------------------
(* The destination of a download by parts, of a resource that does not     *)
(* change.                                                                 *)

(* The segments of a plan follow each other in the file and end with it.   *)
LEMMA ReachNext ==
  ASSUME Fits(plan, url), NEW i \in 0..(plan.count - 1)
  PROVE  /\ i + 1 \in 0..plan.count
         /\ Reach(i) \in 0..plan.total /\ Reach(i + 1) \in 0..plan.total
         /\ Reach(i) = RangeStart(plan.total, plan.count, i)
         /\ Reach(i) + Needed(plan.total, plan.count, i) = Reach(i + 1)
<1> DEFINE total == plan.total
           n == plan.count
<1>1. total \in Nat \ {0} /\ n \in 2..total /\ n \in 1..total /\ i \in Nat /\ i # n
      /\ i + 1 \in 0..n
  BY DEF Fits
<1> HIDE DEF total, n
<1>2. /\ RangeStart(total, n, i) \in Nat /\ RangeEnd(total, n, i) \in Int
      /\ RangeEnd(total, n, i) + 1 <= total
      /\ RangeStart(total, n, i) <= RangeEnd(total, n, i)
  <2>1. i \in 0..(n - 1)
    BY DEF n
  <2> QED
    BY <1>1, <2>1, RangeInFile DEF Needed
<1>3. Tiles(total, n)
  BY <1>1, RangesTile
<1>4. Reach(i) = RangeStart(total, n, i)
  BY <1>1 DEF Reach, total, n
<1>5. Reach(i + 1) = RangeEnd(total, n, i) + 1
  <2>1. CASE i = n - 1
    <3>1. RangeEnd(total, n, i) = total - 1 /\ i + 1 = n
      BY <1>1, <1>3, <2>1 DEF Tiles
    <3> QED
      BY <1>1, <3>1 DEF Reach, total, n
  <2>2. CASE i # n - 1
    <3>1. i \in 0..(n - 2) /\ i + 1 # n
      BY <1>1, <2>2 DEF n
    <3>2. RangeEnd(total, n, i) + 1 = RangeStart(total, n, i + 1)
      BY <1>3, <3>1 DEF Tiles
    <3> QED
      BY <3>1, <3>2 DEF Reach, total, n
  <2> QED
    BY <2>1, <2>2
<1>6. Reach(i) + Needed(total, n, i) = Reach(i + 1)
  BY <1>2, <1>4, <1>5 DEF Needed
<1> QED
  BY <1>1, <1>2, <1>4, <1>5, <1>6 DEF total, n

(* A file that continues another makes one file with it.                   *)
LEMMA HeldJoins ==
  ASSUME NEW u \in Urls, NEW n \in Versions, NEW a \in Nat, NEW f \in File,
         \A k \in 1..Len(f) : f[k] = <<u, n, a + k>>
  PROVE  Held(u, n, a) \o f = Held(u, n, a + Len(f))
<1>1. Held(u, n, a) \in File /\ Len(Held(u, n, a)) = a /\ Len(f) \in Nat
      /\ Held(u, n, a + Len(f)) \in File /\ Len(Held(u, n, a + Len(f))) = a + Len(f)
  BY HeldType, HeldLength, FileLength
<1> DEFINE g == Held(u, n, a) \o f
<1>2. /\ g \in File /\ Len(g) = a + Len(f)
      /\ \A k \in 1..(a + Len(f)) : g[k] = IF k <= a THEN Held(u, n, a)[k] ELSE f[k - a]
  BY <1>1, ConcatProperties DEF File
<1>3. ASSUME NEW k \in 1..(a + Len(f)) PROVE g[k] = Held(u, n, a + Len(f))[k]
  <2>1. Held(u, n, a + Len(f))[k] = <<u, n, k>>
    BY <1>1 DEF Held
  <2>2. CASE k <= a
    <3>1. Held(u, n, a)[k] = <<u, n, k>>
      BY <1>1, <2>2 DEF Held
    <3> QED
      BY <1>2, <2>1, <2>2, <3>1
  <2>3. CASE ~(k <= a)
    <3>1. k - a \in 1..Len(f) /\ a + (k - a) = k
      BY <1>1, <2>3
    <3> QED
      BY <1>2, <2>1, <2>3, <3>1
  <2> QED
    BY <2>2, <2>3
<1> HIDE DEF g
<1>4. g = Held(u, n, a + Len(f))
  BY <1>1, <1>2, <1>3, SeqEqual DEF File
<1> QED
  BY <1>4 DEF g

(* Which revision and which types a call at work finds.                    *)
LEMMA SteadyFacts ==
  ASSUME Steady, SegInv, CallTypes
  PROVE  /\ 1 \in Versions /\ \A u \in Urls : live[u] = 1 /\ Size[u][1] \in Nat
         /\ pc \in Resuming \cup {"mp_write"} =>
              Fits(plan, url) /\ plan.tag = 1 /\ plan.total = Size[url][1]
<1>1. 1 \in Versions /\ Versions = {1}
  BY OneRevision
<1>2. \A u \in Urls : live[u] = 1 /\ Size[u][1] \in Nat
  BY <1>1, SizeNat DEF CallTypes, StagingTypeOK
<1> QED
  BY <1>1, <1>2 DEF SegInv, Fits

(* An unchanged destination stays intact, with what is left of staging.    *)
LEMMA DiskFewer ==
  ASSUME DiskInv, UNCHANGED <<live, target>>, part' \in {part, NoFile},
         sidecar' = sidecar \/ sidecar' \notin Identity
  PROVE  DiskInv'
<1>1. ~MayEndShort => TargetIntact'
  BY DEF DiskInv, TargetIntact
<1>2. NoSplice'
  BY DEF DiskInv, NoSplice
<1>3. (sidecar \in Identity => sidecar.tag \in 1..live[sidecar.url])'
  BY DEF DiskInv
<1>4. (sidecar \in Identity /\ part \notin {NoFile, <<>>} =>
         \E n \in sidecar.tag..live[sidecar.url] : Prefix(part, sidecar.url, n))'
  BY DEF DiskInv, Prefix
<1> QED
  BY <1>1, <1>2, <1>3, <1>4 DEF DiskInv

(* So it does while the .part file grows under the plan.                   *)
LEMMA DiskGrows ==
  ASSUME Steady, SteadyInv, pc \in Resuming, UNCHANGED <<live, target, sidecar>>,
         NEW k \in 0..plan.total, part' = Held(url, 1, k)
  PROVE  DiskInv' /\ part' \in File
<1>1. /\ url \in Urls /\ live[url] = 1 /\ plan.tag = 1 /\ plan.total = Size[url][1]
      /\ 1 \in Versions /\ Size[url][1] \in Nat
      /\ sidecar = [url |-> url, tag |-> plan.tag, total |-> plan.total, count |-> plan.count]
  BY SteadyFacts DEF SteadyInv, SegInv, CallTypes
<1>2. part' \in File /\ Len(part') = k /\ k \in Nat /\ k <= Size[url][1]
  BY <1>1, HeldType, HeldLength
<1>3. ~MayEndShort => TargetIntact'
  BY DEF SteadyInv, DiskInv, TargetIntact
<1>4. 1 \in 1..live'[url] /\ Len(part') <= Size[url][1] /\ part' = Held(url, 1, Len(part'))
  BY <1>1, <1>2
<1>5. NoSplice'
  BY <1>1, <1>4 DEF NoSplice
<1>6. sidecar'.url = url /\ sidecar'.tag = 1
  BY <1>1
<1>7. (sidecar \in Identity => sidecar.tag \in 1..live[sidecar.url])'
  BY <1>4, <1>6
<1>8. (sidecar \in Identity /\ part \notin {NoFile, <<>>} =>
         \E n \in sidecar.tag..live[sidecar.url] : Prefix(part, sidecar.url, n))'
  <2>1. 1 \in 1..live'[url] /\ Prefix(part', url, 1)
    BY <1>4 DEF Prefix
  <2> QED
    BY <1>6, <2>1 DEF Prefix
<1> QED
  BY <1>2, <1>3, <1>5, <1>7, <1>8 DEF DiskInv

(* At the labels of one stream the types are its types.                    *)
LEMMA StreamTypes ==
  /\ pc \notin MpLabels /\ CallTypes => TypeOK
  /\ TypeOK => CallTypes /\ pc \notin MpLabels
  BY DEF CallTypes, TypeOK, Labels, MpLabels

(* There is nothing on disk at first, and no assembly.                     *)
LEMMA SteadyInit == MpInit => SteadyInv
<1> SUFFICES ASSUME MpInit PROVE SteadyInv
  OBVIOUS
<1>1. SegInv /\ TypeOK /\ CountInv /\ Intact /\ pc = "idle" /\ next = 0
  BY SegInit, TypeInit, IntactInit DEF MpInit, Init
<1> QED
  BY <1>1, StreamTypes DEF SteadyInv, Intact, AssemblyInv, Assembling

(* A step that a download by parts has in common with one stream.          *)
LEMMA SharedSteady ==
  ASSUME Steady, SteadyInv, SegInv', pc \notin MpLabels, UNCHANGED mp,
         \/ \E u \in Urls, o \in BOOLEAN, e \in Versions \cup {NoVersion} : Call(u, o, e)
         \/ Step \/ Interrupt \/ \E u \in Urls : Change(u)
  PROVE  SteadyInv'
<1>1. TypeOK /\ CountInv /\ Intact /\ Next
  BY StreamTypes DEF SteadyInv, Intact, Next
<1>2. TypeOK' /\ CountInv'
  BY <1>1, TypeStep
<1>3. Intact'
  BY <1>1, <1>2, IntactStep DEF Steady
<1>4. pc' \notin MpLabels /\ CallTypes'
  BY <1>2 DEF TypeOK, CallTypes, Labels, MpLabels
<1>5. next' = next /\ next = 0
  BY DEF mp, SteadyInv, AssemblyInv, Assembling, MpLabels
<1> QED
  BY <1>2, <1>3, <1>4, <1>5 DEF SteadyInv, Intact, AssemblyInv, Assembling, MpLabels

(* An end of the call, or a label before the loop, asks for nothing more.  *)
LEMMA LeavesSteady ==
  ASSUME SteadyInv, SegInv', CallTypes', DiskInv', pc' \in {"idle", "load"}, next' = 0
  PROVE  SteadyInv'
  BY DEF SteadyInv, CountInv, BeliefInv, StreamInv, AssemblyInv, Assembling

(* An exception leaves the disk to the next call.                          *)
LEMMA RaiseSteady ==
  ASSUME SteadyInv, SegInv', NEW how \in Outcomes, MpRaise(how)
  PROVE  SteadyInv'
<1>1. DiskInv'
  BY DiskFewer DEF MpRaise, SteadyInv
<1>2. CallTypes'
  BY EmptyFile, AttemptsAssumption, ServerAssumption
  DEF MpRaise, SteadyInv, CallTypes, StagingTypeOK, Labels, NoTag, NoResponse, Response,
      Versions
<1> QED
  BY <1>1, <1>2, LeavesSteady DEF MpRaise

(* At these labels nothing is said of the loop or of an assembly.          *)
LEMMA PlansSteady ==
  ASSUME SteadyInv, SegInv', CallTypes', DiskInv', pc' \in MpLabels \ Assembling, next' = 0,
         pc' \in {"mp_probe", "mp_write"} => part' = NoFile
  PROVE  SteadyInv'
<1>1. pc' \in MpLabels /\ pc' \notin Assembling /\ pc' # "mp_assemble" /\ pc' # "mp_unlink"
  BY DEF Assembling
<1>2. AssemblyInv'
  BY <1>1 DEF AssemblyInv
<1> QED
  BY <1>1, <1>2 DEF SteadyInv

(* Workers write segments only.                                            *)
LEMMA WorkerSteady ==
  ASSUME SteadyInv, SegInv', NEW i \in Segs, Worker(i)
  PROVE  SteadyInv'
<1>1. pc = "mp_work" /\ next = 0
  BY DEF Worker, WorkerGated, WorkerConnect, WorkerOpen, WorkerRefused, WorkerLost,
         WorkerChunk, WorkerEnd, WorkerDrop, Working, SteadyInv, AssemblyInv, Assembling
<1>2. ASSUME UNCHANGED Others PROVE SteadyInv'
  <2>1. DiskInv'
    BY <1>2, DiskFewer DEF Others, SteadyInv
  <2>2. CallTypes'
    BY <1>2 DEF SteadyInv, CallTypes, StagingTypeOK, SegInv, PartsInv, PartTypes, Others
  <2> QED
    BY <1>1, <1>2, <2>1, <2>2, PlansSteady DEF Others, MpLabels, Assembling
<1>3. ASSUME NEW how \in {"http", "lost"}, WorkerBreaks(i, how) PROVE SteadyInv'
  BY <1>2, <1>3, RaiseSteady DEF WorkerBreaks, Outcomes
<1> QED
  BY <1>2, <1>3
  DEF Worker, WorkerGated, WorkerConnect, WorkerOpen, WorkerRefused, WorkerLost,
      WorkerChunk, WorkerEnd, WorkerDrop

(* The steps before there are workers.                                     *)
LEMMA PlanSteady ==
  ASSUME Steady, SteadyInv, SegInv',
         \/ ChooseMulti \/ MpLoad \/ MpWipe("mp_wipe", "mp_probe") \/ ProbeFails \/ ProbePlans
         \/ ProbeFallsBack \/ MpWipe("mp_fallback", "load") \/ MpWriteState \/ MpScan
  PROVE  SteadyInv'
<1> USE DEF MpGoto
<1>0. /\ CallTypes /\ DiskInv /\ AssemblyInv /\ SegInv
      /\ segs' \in [Segs -> File \cup {NoFile}]
      /\ pc \in {"mp_probe", "mp_write"} => part = NoFile
  BY DEF SteadyInv, SegInv, PartsInv, PartTypes
<1>1. ASSUME UNCHANGED <<live, target, callArgs, outcome, received, validator, hashed, resp>>,
             attempt' \in {attempt, 0}, part' \in {part, NoFile},
             sidecar' \in {sidecar, NoFile, Torn},
             next' = 0, pc' \in (MpLabels \ Assembling) \cup {"load"},
             pc' \in {"mp_probe", "mp_write"} => part' = NoFile
      PROVE  SteadyInv'
  <2>1. DiskInv'
    BY <1>0, <1>1, StagingAssumption, DiskFewer
  <2>2. CallTypes'
    <3>1. 0 \in 0..(Attempts - 1)
      BY AttemptsAssumption
    <3>2. target' \in File \cup {NoFile} /\ part' \in File \cup {NoFile} /\ sidecar' \in Sidecar
      BY <1>0, <1>1 DEF CallTypes, StagingTypeOK, Sidecar
    <3>3. pc' \in Labels \cup MpLabels /\ attempt' \in 0..(Attempts - 1)
      BY <1>0, <1>1, <3>1 DEF CallTypes, Labels
    <3> QED
      BY <1>0, <1>1, <3>2, <3>3 DEF CallTypes, StagingTypeOK
  <2> QED
    BY <1>1, <2>1, <2>2, PlansSteady, LeavesSteady
<1>2. pc \in MpLabels \cup {"exists"} /\ pc \notin Assembling => next = 0
  BY <1>0 DEF AssemblyInv
<1>3. CASE ChooseMulti
  BY <1>1, <1>2, <1>3 DEF ChooseMulti, MpLabels, Assembling
<1>4. CASE MpLoad
  <2>1. CASE MpRaise("identity")
    BY <2>1, RaiseSteady DEF Outcomes
  <2>2. CASE (MpGoto("mp_scan") \/ MpGoto("mp_wipe")) /\ UNCHANGED <<disk, locals>>
    BY <1>1, <1>2, <1>4, <2>2 DEF MpLoad, MpLabels, Assembling
  <2> QED
    BY <1>4, <2>1, <2>2 DEF MpLoad
<1>5. ASSUME NEW to \in {"mp_probe", "load"}, NEW from \in {"mp_wipe", "mp_fallback"},
             MpWipe(from, to)
      PROVE  SteadyInv'
  <2>1. CASE UnlinkOneStagingFile /\ Goto(from)
    <3>1. part' \in {part, NoFile} /\ sidecar' \in {sidecar, NoFile} /\ target' = target
      BY <2>1 DEF UnlinkOneStagingFile
    <3> QED
      BY <1>1, <1>2, <1>5, <2>1, <3>1 DEF MpWipe, MpLabels, Assembling
  <2>2. CASE NoStagingLeft /\ Goto(to) /\ UNCHANGED disk
    BY <1>1, <1>2, <1>5, <2>2 DEF MpWipe, NoStagingLeft, MpLabels, Assembling
  <2> QED
    BY <1>5, <2>1, <2>2 DEF MpWipe
<1>6. CASE ProbeFails
  <2>1. CASE MpRaise("http")
    BY <2>1, RaiseSteady DEF Outcomes
  <2>2. CASE Raise("transport") /\ UNCHANGED mp
    <3>1. next' = 0
      BY <1>2, <1>6, <2>2 DEF ProbeFails, mp, MpLabels, Assembling
    <3>2. DiskInv'
      BY <1>0, <2>2, DiskFewer
    <3>3. CallTypes'
      BY <1>0, <2>2, EmptyFile, AttemptsAssumption, ServerAssumption
      DEF CallTypes, StagingTypeOK, Labels, Outcomes, NoTag, NoResponse, Response, Versions
    <3> QED
      BY <2>2, <3>1, <3>2, <3>3, LeavesSteady
  <2>3. CASE /\ attempt + 1 < Attempts /\ Goto("mp_probe") /\ UNCHANGED mp
             /\ attempt' = attempt + 1 /\ resp' = NoResponse
             /\ UNCHANGED <<disk, received, validator, hashed>>
    <3>1. next' = 0 /\ part' = NoFile
      BY <1>0, <1>2, <1>6, <2>3 DEF ProbeFails, mp, MpLabels, Assembling
    <3>2. DiskInv'
      BY <1>0, <2>3, DiskFewer
    <3>3. attempt' \in 0..(Attempts - 1)
      BY <1>0, <2>3, AttemptsAssumption DEF CallTypes
    <3>4. NoResponse \in Response
      BY ServerAssumption DEF NoResponse, Response, Versions
    <3>5. CallTypes'
      BY <1>0, <2>3, <3>3, <3>4 DEF CallTypes, StagingTypeOK, MpLabels
    <3> QED
      BY <2>3, <3>1, <3>2, <3>5, PlansSteady DEF MpLabels, Assembling
  <2> QED
    BY <1>6, <2>1, <2>2, <2>3 DEF ProbeFails, RetryOrRaise
<1>7. CASE ProbePlans
  <2>1. part' = NoFile /\ next' = 0
    BY <1>0, <1>2, <1>7 DEF ProbePlans, MpLabels, Assembling
  <2> QED
    BY <1>1, <1>7, <2>1 DEF ProbePlans, MpLabels, Assembling
<1>8. CASE ProbeFallsBack
  BY <1>1, <1>2, <1>8 DEF ProbeFallsBack, MpLabels, Assembling
<1>9. CASE MpWriteState
  <2>1. /\ sidecar' = [url |-> url, tag |-> plan.tag, total |-> plan.total, count |-> plan.count]
        /\ UNCHANGED <<live, target, part, callArgs, outcome, locals>> /\ pc' = "mp_scan"
        /\ part = NoFile /\ next' = 0
    BY <1>0, <1>2, <1>9 DEF MpWriteState, MpLabels, Assembling
  <2>2. plan.tag = 1 /\ url \in Urls /\ live[url] = 1 /\ sidecar' \in Identity
    <3>1. pc = "mp_write" /\ url \in Urls /\ plan \in Plans
      BY <1>0, <1>9 DEF MpWriteState, CallTypes, SegInv, PartsInv, PartTypes
    <3> QED
      BY <1>0, <2>1, <3>1, SteadyFacts DEF Identity, Plans
  <2>3. (~MayEndShort => TargetIntact') /\ NoSplice'
    BY <1>0, <2>1 DEF DiskInv, TargetIntact, NoSplice
  <2>4. (sidecar \in Identity => sidecar.tag \in 1..live[sidecar.url])'
    BY <2>1, <2>2
  <2>5. DiskInv'
    BY <2>1, <2>3, <2>4 DEF DiskInv
  <2>6. CallTypes'
    BY <1>0, <2>1, <2>2 DEF CallTypes, StagingTypeOK, Sidecar, MpLabels
  <2> QED
    BY <2>1, <2>5, <2>6, PlansSteady DEF MpLabels, Assembling
<1>10. CASE MpScan
  BY <1>1, <1>2, <1>10 DEF MpScan, MpLabels, Assembling
<1> QED
  BY <1>3, <1>4, <1>5, <1>6, <1>7, <1>8, <1>9, <1>10

(* The steps after there are: the .part file gets the segments in order.   *)
LEMMA AssemblySteady ==
  ASSUME Steady, SteadyInv, SegInv', Join \/ Assemble \/ UnlinkSegment \/ Assembled
  PROVE  SteadyInv'
<1>0. /\ CallTypes /\ DiskInv /\ AssemblyInv /\ SegInv
      /\ segs' \in [Segs -> File \cup {NoFile}] /\ segs \in [Segs -> File \cup {NoFile}]
  BY DEF SteadyInv, SegInv, PartsInv, PartTypes
<1>1. pc \in Resuming
  BY DEF Join, Assemble, UnlinkSegment, Assembled, Resuming
<1>2. /\ Fits(plan, url) /\ plan.tag = 1 /\ plan.total = Size[url][1] /\ url \in Urls
      /\ 1 \in Versions /\ live[url] = 1 /\ plan.count \in Nat \ {0} /\ plan.total \in Nat
  BY <1>0, <1>1, SteadyFacts DEF CallTypes, Fits
<1>3. ASSUME NEW i \in 0..(plan.count - 1) PROVE i \in Segs /\ Known(i) /\ i < plan.count
  BY <1>2, SegNumbers DEF Fits, Known
<1>4. ASSUME UNCHANGED <<live, target, sidecar, callArgs, outcome, received, validator,
                         attempt, resp>>,
             NEW k \in 0..plan.total, part' = Held(url, 1, k), hashed' \in File,
             pc' \in Labels \cup MpLabels
      PROVE  DiskInv' /\ CallTypes' /\ part' \in File
  <2>1. DiskInv' /\ part' \in File
    BY <1>1, <1>4, DiskGrows
  <2> QED
    BY <1>0, <1>4, <2>1 DEF CallTypes, StagingTypeOK
<1>5. CASE Join
  <2>1. ASSUME NEW i \in Failed, MpRaise(w[i].why) PROVE SteadyInv'
    <3>1. i \in Segs /\ w[i] \in WorkerRecord
      BY <1>0 DEF Failed, SegInv, PartsInv, PartTypes
    <3>2. w[i].why \in Outcomes
      BY <3>1 DEF WorkerRecord, Outcomes
    <3> QED
      BY <2>1, <3>2, RaiseSteady
  <2>2. CASE Failed = {} /\ part' = <<>> /\ hashed' = <<>> /\ Goto("mp_assemble")
             /\ UNCHANGED <<target, sidecar, segs, received, validator, attempt, resp,
                            plan, next>>
    <3>1. next = 0 /\ pc = "mp_work"
      BY <1>0, <1>5 DEF Join, AssemblyInv, Assembling
    <3>2. Reach(0) = 0
      <4>1. plan.total \in Nat \ {0} /\ plan.count \in 1..plan.total /\ plan.count # 0
        BY <1>2 DEF Fits
      <4>2. Tiles(plan.total, plan.count)
        BY <4>1, RangesTile
      <4> QED
        BY <4>1, <4>2 DEF Tiles, Reach
    <3>3. part' = Held(url, 1, 0) /\ 0 \in 0..plan.total
      BY <1>2, <2>2, HeldLength
    <3>4. DiskInv' /\ CallTypes'
      BY <1>4, <2>2, <3>3, EmptyFile DEF MpLabels
    <3>5. ASSUME NEW i \in Segs, i < plan.count PROVE Complete(i)
      <4>1. w[i].pc = "done"
        BY <1>0, <1>5, <2>2, <3>1, <3>5 DEF Join, Failed, SegInv, Finishes
      <4> QED
        BY <1>0, <3>1, <4>1 DEF SegInv, Finishes
    <3>6. AssemblyInv'
      BY <1>2, <2>2, <3>1, <3>2, <3>3, <3>5 DEF AssemblyInv, Assembling, Complete, Reach
    <3> QED
      BY <2>2, <3>4, <3>6 DEF SteadyInv, MpLabels
  <2> QED
    BY <1>5, <2>1, <2>2 DEF Join
<1>6. CASE Assemble
  <2>1. pc = "mp_assemble" /\ next \in 0..(plan.count - 1) /\ part = Held(url, 1, Reach(next))
    BY <1>0, <1>2, <1>6 DEF Assemble, AssemblyInv, Assembling
  <2>2. next \in Segs /\ Known(next) /\ next < plan.count /\ Complete(next)
    BY <1>0, <1>3, <2>1 DEF AssemblyInv, Assembling
  <2>3. /\ part' = part \o segs[next] /\ hashed' = hashed \o segs[next] /\ pc' = "mp_unlink"
        /\ UNCHANGED <<live, target, sidecar, segs, callArgs, outcome, received, validator,
                       attempt, resp, plan, next>>
    BY <1>6, <2>2 DEF Assemble, Complete, MpGoto
  <2>4. /\ segs[next] \in File /\ Len(segs[next]) = Needed(plan.total, plan.count, next)
        /\ \A k \in 1..Len(segs[next]) : segs[next][k] = <<url, 1, Reach(next) + k>>
    <3>1. segs[next] \in File /\ Len(segs[next]) \in Nat
      BY <1>0, <2>2, FileLength DEF Complete
    <3>2. /\ Len(segs[next]) <= Needed(plan.total, plan.count, next)
          /\ RangeStart(plan.total, plan.count, next) \in Nat /\ Last(next) \in Int
          /\ \A k \in 1..Len(segs[next]) :
               segs[next][k] = <<url, 1, RangeStart(plan.total, plan.count, next) + k>>
      BY <1>0, <1>1, <1>2, <2>2, SegmentHeld DEF Complete
    <3>3. Reach(next) = RangeStart(plan.total, plan.count, next)
      BY <1>2, <2>1, ReachNext
    <3> QED
      BY <2>2, <3>1, <3>2, <3>3 DEF Complete, Needed, Last
  <2>5. /\ Reach(next) \in Nat /\ Reach(next + 1) \in 0..plan.total
        /\ Reach(next) + Len(segs[next]) = Reach(next + 1)
    BY <1>2, <2>1, <2>4, ReachNext
  <2>6. part' = Held(url, 1, Reach(next + 1))
    <3>1. PICK a \in Nat : a = Reach(next)
      BY <2>5
    <3>2. \A k \in 1..Len(segs[next]) : segs[next][k] = <<url, 1, a + k>>
      BY <2>4, <3>1
    <3>3. Held(url, 1, a) \o segs[next] = Held(url, 1, a + Len(segs[next]))
      BY <1>2, <2>4, <3>2, HeldJoins
    <3> QED
      BY <2>1, <2>3, <2>5, <3>1, <3>3
  <2>7. hashed' \in File
    BY <1>0, <2>3, <2>4, ConcatProperties DEF CallTypes, File
  <2>8. DiskInv' /\ CallTypes'
    BY <1>4, <2>3, <2>5, <2>6, <2>7 DEF MpLabels
  <2>9. AssemblyInv'
    BY <1>0, <2>1, <2>2, <2>3, <2>6 DEF AssemblyInv, Assembling, Complete, Reach
  <2> QED
    BY <2>3, <2>8, <2>9 DEF SteadyInv, MpLabels
<1>7. CASE UnlinkSegment
  <2>1. /\ pc = "mp_unlink" /\ next \in 0..(plan.count - 1) /\ next' = next + 1
        /\ part = Held(url, 1, Reach(next + 1)) /\ pc' = "mp_assemble"
        /\ segs' = [segs EXCEPT ![next] = NoFile]
        /\ UNCHANGED <<live, target, part, sidecar, callArgs, outcome, locals, plan>>
    BY <1>0, <1>2, <1>7 DEF UnlinkSegment, AssemblyInv, Assembling
  <2>2. Reach(next + 1) \in 0..plan.total /\ next + 1 \in 0..plan.count
    BY <1>2, <2>1, ReachNext
  <2>3. DiskInv' /\ CallTypes'
    BY <1>0, <1>4, <2>1, <2>2 DEF MpLabels, CallTypes
  <2>4. ASSUME NEW i \in Segs, next + 1 <= i, i < plan.count PROVE Complete(i)'
    <3>1. i # next /\ next <= i
      BY <1>2, <2>1, <2>4, SegNumbers
    <3> QED
      BY <1>0, <2>1, <2>4, <3>1 DEF AssemblyInv, Assembling, Complete
  <2>5. AssemblyInv'
    BY <2>1, <2>2, <2>4 DEF AssemblyInv, Assembling, Reach
  <2> QED
    BY <2>1, <2>3, <2>5 DEF SteadyInv, MpLabels
<1>8. CASE Assembled
  <2>1. /\ pc' = "verify" /\ next' = 0 /\ part = Held(url, 1, plan.total)
        /\ UNCHANGED <<live, disk, callArgs, outcome, locals>>
    BY <1>0, <1>8 DEF Assembled, AssemblyInv, Reach
  <2>2. part' = Held(url, 1, plan.total) /\ plan.total \in 0..plan.total /\ hashed' \in File
    BY <1>0, <1>2, <2>1 DEF CallTypes
  <2>3. DiskInv' /\ CallTypes' /\ part' # NoFile
    BY <1>4, <2>1, <2>2, StagingAssumption DEF Labels
  <2>4. part' = Whole(url', 1) /\ 1 \in 1..live'[url']
    BY <1>2, <2>1, <2>2 DEF Whole
  <2>5. CountInv' /\ BeliefInv' /\ StreamInv' /\ AssemblyInv'
    BY <2>1, <2>3, <2>4 DEF CountInv, BeliefInv, StreamInv, AssemblyInv, Assembling
  <2> QED
    BY <2>1, <2>3, <2>5 DEF SteadyInv
<1> QED
  BY <1>5, <1>6, <1>7, <1>8

(* Every step keeps it, if nothing on the server changes.                  *)
LEMMA SteadyStep ==
  ASSUME Steady, Async PROVE SteadyInv /\ [MpNext]_mpVars => SteadyInv'
<1> SUFFICES ASSUME SteadyInv, [MpNext]_mpVars PROVE SteadyInv'
  OBVIOUS
<1>0. SegInv /\ SegInv'
  BY SegStep DEF SteadyInv, Steady
<1>1. CASE UNCHANGED mpVars
  <2>1. CallTypes' /\ DiskInv' /\ CountInv' = CountInv /\ BeliefInv' = BeliefInv
        /\ StreamInv' = StreamInv
    BY <1>1 DEF mpVars, SteadyInv, CallTypes, StagingTypeOK, vars, disk, locals, callArgs,
      DiskInv, TargetIntact, NoSplice, Prefix, CountInv, BeliefInv, StreamInv
  <2>2. AssemblyInv'
    BY <1>1 DEF mpVars, mp, SteadyInv, AssemblyInv, Assembling, Complete, Reach, vars, disk,
      locals, callArgs
  <2> QED
    BY <1>0, <1>1, <2>1, <2>2 DEF mpVars, SteadyInv, vars, disk
<1>2. ASSUME NEW u \in Urls, NEW o \in BOOLEAN, NEW p \in Configs \cup {NoParts},
             NEW e \in Versions \cup {NoVersion}, MpCall(u, o, e, p)
      PROVE  SteadyInv'
  <2>1. pc \notin MpLabels /\ UNCHANGED mp /\ Call(u, o, e)
    BY <1>2 DEF MpCall, Call, MpLabels
  <2> QED
    BY <1>0, <2>1, SharedSteady
<1>3. CASE ChooseSingle \/ CheckTargetStep \/ SingleStreamStep
  <2>1. UNCHANGED mp /\ Step
    BY <1>0, <1>3, NoHandles
    DEF ChooseSingle, CheckTargetStep, SingleStreamStep, Step, mp, SegInv, PartsInv, PartTypes
  <2>2. pc \notin MpLabels
    BY <1>3 DEF ChooseSingle, CheckTargetStep, SingleStreamStep, TargetAbsent, CheckTarget,
      CheckTargetDigest, CheckTargetSize, Probe, Stream, Load, OpenPart, Connect, HandleHead,
      WriteState, Chunk, Drop, EndOfBody, Verify, Replace, Cleanup, MpLabels
  <2> QED
    BY <1>0, <2>1, <2>2, SharedSteady
<1>4. ASSUME NEW u \in Urls PROVE ~Change(u)
  <2>1. live[u] = 1 /\ Versions = {1}
    BY OneRevision, SteadyFacts DEF SteadyInv
  <2> QED
    BY <2>1 DEF Change, Publish
<1>5. CASE MpInterrupt \/ Kill
  <2>1. /\ pc' = "idle" /\ next' = 0 /\ outcome' = "interrupted"
        /\ UNCHANGED <<live, disk, callArgs>> /\ Raise("interrupted")
    BY <1>5 DEF MpInterrupt, Kill, Interrupt
  <2>2. DiskInv'
    BY <2>1, DiskFewer DEF disk, SteadyInv
  <2>3. CallTypes'
    BY <2>1, EmptyFile, AttemptsAssumption, ServerAssumption
    DEF SteadyInv, CallTypes, StagingTypeOK, Labels, Outcomes, NoTag, NoResponse, Response,
        Versions
  <2> QED
    BY <1>0, <2>1, <2>2, <2>3, LeavesSteady
<1>6. CASE ZombieOpen \/ ZombieWrite \/ ZombieEnd
  BY <1>0, <1>6 DEF ZombieOpen, ZombieWrite, ZombieEnd, SegInv, PartsInv, PartTypes
<1>7. CASE MpStep
  BY <1>0, <1>3, <1>7, PlanSteady, AssemblySteady DEF MpStep
<1> QED
  BY <1>0, <1>1, <1>2, <1>4, <1>5, <1>6, <1>7, WorkerSteady DEF MpNext

(* A resource that does not change, and is served with a validator and as  *)
(* it is asked for (Steady), is downloaded whole or not at all, by however *)
(* many tasks, with whatever refusals, errors, retries and interrupts on   *)
(* the way, and whatever calls with the same or other Parts left behind:   *)
(* the parts that are put together are the file.                           *)
THEOREM PartsTargetIntact == ASSUME Steady, Async PROVE MpSpec => []TargetIntact
<1>1. SteadyInv => TargetIntact
  BY DEF SteadyInv, DiskInv, Steady
<1>2. SteadyInv /\ [MpNext]_mpVars => SteadyInv'
  BY SteadyStep
<1> QED
  BY <1>1, <1>2, SteadyInit, PTL DEF MpSpec

----------------------------------------------------------------------------
(* The promise to the caller, of a download by parts.                      *)

(* Every step is a step of the contract or invisible to the caller; the    *)
(* many labels of a download by parts are all "working".                   *)
LEMMA PartsContractStep ==
  ASSUME Steady, ~MayHideSize, Async, SteadyInv, SteadyInv', MpCallInv, [MpNext]_mpVars
  PROVE  [Contract!Next]_(Contract!vars)
<1> USE DEF Contract!vars
<1>1. ASSUME pc \notin MpLabels, pc' \notin MpLabels, [Next]_vars
      PROVE  [Contract!Next]_(Contract!vars)
  <2>1. TypeOK /\ TypeOK' /\ Intact /\ CallInv
    BY <1>1 DEF SteadyInv, Intact, MpCallInv, TypeOK, CallTypes, Labels, MpLabels
  <2> QED
    BY <1>1, <2>1, ContractStep DEF Steady
<1>2. ASSUME pc # "idle", pc \in Labels \cup MpLabels, pc' = "idle",
             outcome' \notin {"none", "done"}, UNCHANGED <<live, target, callArgs>>
      PROVE  [Contract!Next]_(Contract!vars)
  BY <1>2 DEF Contract!Abort, Contract!Next, Contract!call
<1>3. ASSUME pc \notin {"idle", "cleanup"}, pc' \notin {"idle", "cleanup"},
             UNCHANGED <<live, target, callArgs, outcome>>
      PROVE  UNCHANGED Contract!vars
  BY <1>3
<1>4. ASSUME NEW how, how \notin {"none", "done"}, pc # "idle", MpRaise(how)
      PROVE  [Contract!Next]_(Contract!vars)
  BY <1>2, <1>4 DEF MpRaise, SteadyInv, CallTypes
<1>5. CASE UNCHANGED mpVars
  BY <1>5 DEF mpVars, vars
<1>6. ASSUME \/ \E u \in Urls, o \in BOOLEAN, e \in Versions \cup {NoVersion} : Call(u, o, e)
             \/ Step,
             pc \notin MpLabels
      PROVE  [Contract!Next]_(Contract!vars)
  BY <1>1, <1>6, SharedLabels DEF Next
<1>7. CASE ChooseSingle \/ CheckTargetStep \/ SingleStreamStep
  <2>1. Step
    BY <1>7 DEF ChooseSingle, CheckTargetStep, SingleStreamStep, Step
  <2>2. pc \notin MpLabels
    BY <1>7 DEF ChooseSingle, CheckTargetStep, SingleStreamStep, TargetAbsent, CheckTarget,
      CheckTargetDigest, CheckTargetSize, Probe, Stream, Load, OpenPart, Connect, HandleHead,
      WriteState, Chunk, Drop, EndOfBody, Verify, Replace, Cleanup, MpLabels
  <2> QED
    BY <1>6, <2>1, <2>2
<1>8. CASE MpInterrupt \/ Kill
  BY <1>2, <1>8 DEF MpInterrupt, Kill, Interrupt, SteadyInv, CallTypes
<1>9. ASSUME NEW i \in Segs, Worker(i) PROVE [Contract!Next]_(Contract!vars)
  <2>1. pc = "mp_work"
    BY <1>9 DEF Worker, WorkerGated, WorkerConnect, WorkerOpen, WorkerRefused, WorkerLost,
         WorkerChunk, WorkerEnd, WorkerDrop, Working
  <2>2. ASSUME UNCHANGED Others PROVE [Contract!Next]_(Contract!vars)
    BY <1>3, <2>1, <2>2 DEF Others
  <2>3. ASSUME NEW how \in {"http", "lost"}, WorkerBreaks(i, how)
        PROVE  [Contract!Next]_(Contract!vars)
    BY <1>4, <2>1, <2>2, <2>3 DEF WorkerBreaks
  <2> QED
    BY <1>9, <2>2, <2>3
    DEF Worker, WorkerGated, WorkerConnect, WorkerOpen, WorkerRefused, WorkerLost,
        WorkerChunk, WorkerEnd, WorkerDrop
<1>10. CASE ChooseMulti \/ ProbePlans \/ ProbeFallsBack \/ MpWriteState \/ MpScan
            \/ UnlinkSegment \/ Assembled
  BY <1>3, <1>10 DEF ChooseMulti, ProbePlans, ProbeFallsBack, MpWriteState, MpScan,
                     UnlinkSegment, Assembled, MpGoto
<1>11. CASE MpLoad
  <2>1. CASE MpRaise("identity")
    BY <1>4, <1>11, <2>1 DEF MpLoad
  <2>2. CASE (MpGoto("mp_scan") \/ MpGoto("mp_wipe")) /\ UNCHANGED disk
    BY <1>3, <1>11, <2>2 DEF MpLoad, MpGoto
  <2> QED
    BY <1>11, <2>1, <2>2 DEF MpLoad
<1>12. CASE MpWipe("mp_wipe", "mp_probe") \/ MpWipe("mp_fallback", "load")
  BY <1>3, <1>12 DEF MpWipe, MpGoto, UnlinkOneStagingFile
<1>13. CASE ProbeFails
  <2>1. CASE MpRaise("http")
    BY <1>4, <1>13, <2>1 DEF ProbeFails
  <2>2. CASE Raise("transport")
    BY <1>2, <1>13, <2>2 DEF ProbeFails, SteadyInv, CallTypes
  <2>3. CASE Goto("mp_probe") /\ UNCHANGED disk
    BY <1>3, <1>13, <2>3 DEF ProbeFails
  <2> QED
    BY <1>13, <2>1, <2>2, <2>3 DEF ProbeFails, RetryOrRaise
<1>14. CASE Join
  <2>1. ASSUME NEW i \in Failed, MpRaise(w[i].why) PROVE [Contract!Next]_(Contract!vars)
    BY <1>4, <1>14, <2>1 DEF Join, Failed, MpCallInv, Reasons, IsReason
  <2>2. CASE Goto("mp_assemble") /\ UNCHANGED target
    BY <1>3, <1>14, <2>2 DEF Join
  <2> QED
    BY <1>14, <2>1, <2>2 DEF Join
<1>15. CASE Assemble
  BY <1>3, <1>4, <1>15 DEF Assemble, MpGoto
<1>16. ASSUME NEW u \in Urls, Change(u) PROVE [Contract!Next]_(Contract!vars)
  <2>1. Contract!Change
    BY <1>16 DEF Steady, Change, Publish, Contract!Change, Contract!call
  <2> QED
    BY <2>1 DEF Contract!Next
<1>17. CASE ZombieOpen \/ ZombieWrite \/ ZombieEnd
  BY <1>17 DEF ZombieOpen, ZombieWrite, ZombieEnd, Others
<1>18. CASE MpStep
  BY <1>7, <1>10, <1>11, <1>12, <1>13, <1>14, <1>15, <1>18 DEF MpStep
<1>19. ASSUME NEW u \in Urls, NEW o \in BOOLEAN, NEW p \in Configs \cup {NoParts},
              NEW e \in Versions \cup {NoVersion}, MpCall(u, o, e, p)
       PROVE  [Contract!Next]_(Contract!vars)
  BY <1>6, <1>19 DEF MpCall, Call, MpLabels
<1> QED
  BY <1>5, <1>8, <1>9, <1>16, <1>17, <1>18, <1>19 DEF MpNext

(* A download by parts implements the same contract as one by one stream:  *)
(* for a resource that does not change, and is served as it is asked for   *)
(* and with its size, no caller can tell them apart.                       *)
THEOREM PartsImplementContract ==
  ASSUME Steady, ~MayHideSize, Async
  PROVE  MpSpec => ImplementsContract
<1>1. MpInit => Contract!Init
  BY ContractInit DEF MpInit
<1>2. SteadyInv /\ [MpNext]_mpVars => SteadyInv'
  BY SteadyStep
<1>3. SteadyInv /\ SteadyInv' /\ MpCallInv /\ [MpNext]_mpVars
      => [Contract!Next]_(Contract!vars)
  BY PartsContractStep
<1> QED
  BY <1>1, <1>2, <1>3, SteadyInit, MpCallInit, MpCallStep, PTL
     DEF MpSpec, ImplementsContract, Contract!Spec
=============================================================================
