----------------------------- MODULE MultiPart -----------------------------
(***************************************************************************)
(* Downloader.__call__ with parts= (src/mxhttp/download.py): the whole of  *)
(* SingleStream plus _download_multi_part, which plans ranges, downloads   *)
(* each to its own segment file in parallel workers, and assembles them.   *)
(*                                                                         *)
(* Async = TRUE is _download_multi_part_async: the workers are tasks of a  *)
(* task group, which an interrupt or a ResumeLostError cancels and joins.  *)
(* Async = FALSE is the threaded one: an interrupt leaves them running.    *)
(* Calls may use different values of `parts`; the sidecar of one is met by *)
(* the next.                                                               *)
(***************************************************************************)
EXTENDS SingleStream, ByteRanges, FiniteSets

CONSTANTS
  Configs,  \* the Parts values that calls use
  Async,
  MaxZombies   \* BOUND: threads of interrupted calls that still run

ASSUME MultiPartAssumption ==
  /\ Configs \subseteq PartsConfigs(Nat)
  /\ Segs = UNION {0..(c.count - 1) : c \in Configs}
  /\ Async \in BOOLEAN /\ MaxZombies \in Nat

VARIABLES
  parts,    \* parts_config
  plan,     \* total_size, number of parts and validator of saved_state
  w,        \* w[i]: worker i
  next,     \* the next segment to be assembled
  zombies   \* threads of interrupted calls that may still touch their file

mp == <<plan, w, next, zombies>>
mpVars == <<vars, parts, mp>>

(* A file that is written beyond its end has a hole of zero bytes.         *)
Hole == <<NoVersion>>
(* parts_config is None, or a Parts of one part: a download of one stream. *)
NoParts == [count |-> 1, min_part_size |-> 1, max_parts |-> 1]

NoPlan == [total |-> 0, count |-> 0, tag |-> NoTag]
NoAnswer == [status |-> 0, ver |-> 1, at |-> 0, upto |-> 0]
Off == [pc |-> "off", got |-> 0, tries |-> 0, append |-> FALSE, pos |-> 0,
        resp |-> NoAnswer, why |-> "none"]
AllOff == [i \in Segs |-> Off]
MpLabels == {"mp_load", "mp_wipe", "mp_probe", "mp_fallback", "mp_write",
             "mp_scan", "mp_work", "mp_assemble", "mp_unlink"}

MpInit ==
  /\ Init
  /\ parts = NoParts
  /\ plan = NoPlan /\ w = AllOff /\ next = 0 /\ zombies = {}

MpCall(u, o, e, p) == Call(u, o, e) /\ parts' = p /\ UNCHANGED mp

(* The call ends by an exception; its own plan and workers are gone.       *)
MpRaise(how) ==
  /\ Raise(how)
  /\ plan' = NoPlan /\ w' = AllOff /\ next' = 0
  /\ UNCHANGED <<parts, zombies>>

MpGoto(label) == Goto(label) /\ UNCHANGED <<parts, w, next, zombies>>

ChooseSingle == TargetAbsent /\ parts.count = 1 /\ UNCHANGED <<parts, mp>>

ChooseMulti ==
  /\ pc = "exists" /\ parts.count > 1
  /\ overwrite \/ target = NoFile
  /\ MpGoto("mp_load") /\ UNCHANGED <<disk, locals, plan>>

----------------------------------------------------------------------------
(* Planning.  Only a MultiPartState is decoded; a DownloadState, a torn    *)
(* sidecar and a missing one are all saved_state = None.                   *)
SavedState == sidecar \notin {NoFile, Torn} /\ sidecar.count > 0

(* Mutant of MpLoad: the url of the saved state is not compared.           *)
MpLoadAnyUrl ==
  /\ pc = "mp_load"
  /\ IF SavedState
       THEN /\ plan' = [total |-> sidecar.total, count |-> sidecar.count, tag |-> sidecar.tag]
            /\ MpGoto("mp_scan") /\ UNCHANGED <<disk, locals>>
       ELSE MpGoto("mp_wipe") /\ UNCHANGED <<disk, locals, plan>>

MpLoad ==
  /\ pc = "mp_load"
  /\ \/ SavedState /\ sidecar.url # url /\ ~overwrite /\ MpRaise("identity")
     \/ /\ SavedState /\ sidecar.url = url
        /\ plan' = [total |-> sidecar.total, count |-> sidecar.count, tag |-> sidecar.tag]
        /\ MpGoto("mp_scan") /\ UNCHANGED <<disk, locals>>
     \/ /\ SavedState => sidecar.url # url /\ overwrite
        /\ MpGoto("mp_wipe") /\ UNCHANGED <<disk, locals, plan>>

(* A thread whose file is unlinked goes on writing where nobody looks.     *)
HandlesLost ==
  zombies' = {z \in zombies : z.w.pc = "body" => segs'[z.seg] # NoFile}

(* cleanup_staging_files before the probe and again before the fallback.   *)
MpWipe(here, then) ==
  /\ pc = here
  /\ \/ UnlinkOneStagingFile /\ Goto(here)
     \/ NoStagingLeft /\ Goto(then) /\ UNCHANGED disk
  /\ HandlesLost
  /\ UNCHANGED <<locals, parts, plan, w, next>>

(* The probe fails, and is sent again while the budget lasts.              *)
ProbeFails ==
  /\ pc = "mp_probe"
  /\ \/ RetryOrRaise("mp_probe") /\ UNCHANGED <<parts, mp>>
     \/ MpRaise("http")

(* A 206 with a size that is worth splitting makes a plan, which opens the *)
(* sidecar for writing.                                                    *)
ProbePlans ==
  /\ pc = "mp_probe"
  /\ Size[url][live[url]] > 0
  /\ \E total \in ProbedTotals(url) :
       /\ ResolveCount(parts, total) > 1
       /\ plan' = [total |-> total, count |-> ResolveCount(parts, total),
                   tag |-> Tag(live[url])]
  /\ sidecar' = Torn /\ attempt' = 0
  /\ MpGoto("mp_write")
  /\ UNCHANGED <<target, part, segs, received, validator, hashed, resp>>

(* Any other answer falls back to a single stream: a server may always say *)
(* 200, or leave the size out.                                             *)
ProbeFallsBack ==
  /\ pc = "mp_probe"
  /\ attempt' = 0
  /\ MpGoto("mp_fallback")
  /\ UNCHANGED <<disk, plan, received, validator, hashed, resp>>

MpWriteState ==
  /\ pc = "mp_write"
  /\ sidecar' = [url |-> url, tag |-> plan.tag, total |-> plan.total, count |-> plan.count]
  /\ MpGoto("mp_scan")
  /\ UNCHANGED <<target, part, segs, locals, plan>>

Got(i) == IF segs[i] = NoFile THEN 0 ELSE Len(segs[i])

(* The bytes each segment file already has decide where its worker starts. *)
MpScan ==
  /\ pc = "mp_scan"
  /\ w' = [i \in Segs |->
             IF i >= plan.count THEN Off
             ELSE [Off EXCEPT !.got = Got(i),
                              !.pc = IF Got(i) >= Needed(plan.total, plan.count, i)
                                       THEN "done" ELSE "connect"]]
  /\ Goto("mp_work")
  /\ UNCHANGED <<disk, locals, parts, plan, next, zombies>>

----------------------------------------------------------------------------
(* The workers.  Each has its own request, its own retry budget and its    *)
(* own file; nothing is shared but the cancel flag and the results.        *)
Others == <<live, target, part, sidecar, pc, callArgs, locals, outcome, parts, plan, next>>

Turn(i, rec) == w' = [w EXCEPT ![i] = rec]

From(i) == RangeStart(plan.total, plan.count, i) + w[i].got
Last(i) == RangeEnd(plan.total, plan.count, i)

(* Bodies from byte `from` on that end before byte `end`, if they end well. *)
Answer(status, from, end) ==
  {[status |-> status, ver |-> live[url], at |-> from, upto |-> stop] :
     stop \in IF MayEndShort THEN from..end ELSE {end}}

WholeAnswers == Answer(200, 0, Size[url][live[url]])

(* The answers to `Range: bytes=from-last`, with If-Range only when the    *)
(* range does not start at the first byte (resume_headers).                *)
SegmentAnswers(i) ==
  LET size == Size[url][live[url]]
      end == AtMost(Last(i) + 1, size)
  IN  (IF MayIgnoreRange THEN WholeAnswers ELSE {})
      \cup (IF From(i) > 0 /\ plan.tag # NoTag /\ plan.tag # Tag(live[url])
              THEN WholeAnswers
            ELSE IF From(i) < size THEN Answer(206, From(i), end)
            ELSE Answer(416, 0, 0))

Working(i, label) == pc = "mp_work" /\ w[i].pc = label

(* An error of a worker is recorded; the others go on.                     *)
Fail(i, how) == Turn(i, [Off EXCEPT !.pc = "failed", !.why = how])

WorkerRetryOrFail(i) ==
  IF w[i].tries + 1 < Attempts
    THEN Turn(i, [w[i] EXCEPT !.pc = "connect", !.tries = @ + 1, !.resp = NoAnswer])
    ELSE Fail(i, "transport")

WorkerConnect(i) ==
  /\ Working(i, "connect")
  /\ \/ \E answer \in SegmentAnswers(i) :
          Turn(i, [w[i] EXCEPT !.pc = "head", !.resp = answer])
     \/ WorkerRetryOrFail(i)
     \/ Fail(i, "http")
  /\ UNCHANGED <<Others, segs, zombies>>

(* RateLimitExceededError, or an error that is not of HTTP: recorded by a  *)
(* thread; raised out of the task group, which cancels the other tasks.    *)
WorkerBreaks(i, how) ==
  IF Async THEN MpRaise(how)
  ELSE Fail(i, how) /\ UNCHANGED <<Others, segs, zombies>>

WorkerGated(i) == Working(i, "connect") /\ WorkerBreaks(i, "http")

(* An answer with which the segment file is opened: a 206, or any body for *)
(* a range that starts at the first byte.                                  *)
Opens(i, answer) ==
  answer.status = 206 \/ (answer.status = 200 /\ From(i) = 0)

(* Opened "ab" if bytes are counted in the file, and "wb" if not.          *)
Opened(f, got) == IF got = 0 \/ f = NoFile THEN <<>> ELSE f

(* Mutant of WorkerOpen: any status that is not an error is taken for a    *)
(* 206.                                                                    *)
WorkerOpenTrusting(i) ==
  /\ Working(i, "head") /\ w[i].resp.status # 416
  /\ segs' = [segs EXCEPT ![i] = Opened(@, w[i].got)]
  /\ Turn(i, [w[i] EXCEPT !.pc = "body", !.append = (w[i].got > 0)])
  /\ UNCHANGED <<Others, zombies>>

(* Mutant of WorkerOpen: "wb" where the code has "ab".                     *)
WorkerOpenTruncating(i) ==
  /\ Working(i, "head") /\ Opens(i, w[i].resp)
  /\ segs' = [segs EXCEPT ![i] = <<>>]
  /\ Turn(i, [w[i] EXCEPT !.pc = "body", !.append = (w[i].got > 0)])
  /\ UNCHANGED <<Others, zombies>>

WorkerOpen(i) ==
  /\ Working(i, "head") /\ Opens(i, w[i].resp)
  /\ segs' = [segs EXCEPT ![i] = Opened(@, w[i].got)]
  /\ Turn(i, [w[i] EXCEPT !.pc = "body", !.append = (w[i].got > 0)])
  /\ UNCHANGED <<Others, zombies>>

WorkerRefused(i) ==
  /\ Working(i, "head") /\ w[i].resp.status = 416
  /\ Fail(i, "http")
  /\ UNCHANGED <<Others, segs, zombies>>

(* ResumeLostError, which is not retried.                                  *)
WorkerLost(i) ==
  /\ Working(i, "head") /\ w[i].resp.status = 200 /\ From(i) > 0
  /\ WorkerBreaks(i, "lost")

(* What one byte does to the file: at the end of it if it was opened "ab", *)
(* at the handle's own position if "wb".                                   *)
WriteByte(f, append, pos, b) ==
  IF append THEN Append(f, b)
  ELSE [k \in 1..(IF pos + 1 > Len(f) THEN pos + 1 ELSE Len(f)) |->
          IF k = pos + 1 THEN b ELSE IF k <= Len(f) THEN f[k] ELSE Hole]

(* The next byte of the body of a worker, which reads resource u.          *)
Written(f, worker, u) ==
  WriteByte(f, worker.append, worker.pos, <<u, worker.resp.ver, worker.resp.at + 1>>)

Advanced(worker) == [worker EXCEPT !.got = @ + 1, !.pos = @ + 1, !.resp.at = @ + 1]

WorkerChunk(i) ==
  /\ Working(i, "body") /\ w[i].resp.at < w[i].resp.upto
  /\ segs' = [segs EXCEPT ![i] = Written(@, w[i], url)]
  /\ Turn(i, Advanced(w[i]))
  /\ UNCHANGED <<Others, zombies>>

(* A clean end of the body is the end of the segment: what was received is *)
(* not compared with what was needed.                                      *)
WorkerEnd(i) ==
  /\ Working(i, "body") /\ w[i].resp.at = w[i].resp.upto
  /\ Turn(i, [Off EXCEPT !.pc = "done"])
  /\ UNCHANGED <<Others, segs, zombies>>

WorkerDrop(i) ==
  /\ Working(i, "body")
  /\ WorkerRetryOrFail(i)
  /\ UNCHANGED <<Others, segs, zombies>>

Worker(i) ==
  \/ WorkerGated(i) \/ WorkerConnect(i) \/ WorkerOpen(i) \/ WorkerRefused(i) \/ WorkerLost(i)
  \/ WorkerChunk(i) \/ WorkerEnd(i) \/ WorkerDrop(i)

----------------------------------------------------------------------------
(* Assembly, by the thread that started the workers.                       *)
Failed == {i \in Segs : w[i].pc = "failed"}

(* Mutant of Join: the errors of the workers are not looked at.            *)
JoinIgnoringErrors ==
  /\ pc = "mp_work" /\ \A i \in Segs : w[i].pc \in {"off", "done", "failed"}
  /\ part' = <<>> /\ hashed' = <<>> /\ w' = AllOff
  /\ Goto("mp_assemble")
  /\ UNCHANGED <<target, sidecar, segs, received, validator, attempt, resp,
                 parts, plan, next, zombies>>

(* Mutant of Join: a failed worker is waited for.                          *)
JoinWaitingForSuccess ==
  /\ pc = "mp_work" /\ \A i \in Segs : w[i].pc \in {"off", "done"}
  /\ part' = <<>> /\ hashed' = <<>> /\ w' = AllOff
  /\ Goto("mp_assemble")
  /\ UNCHANGED <<target, sidecar, segs, received, validator, attempt, resp,
                 parts, plan, next, zombies>>

(* All workers have ended: the error of the lowest segment is raised, or   *)
(* the .part file is opened "wb" and a new hasher made.                    *)
Join ==
  /\ pc = "mp_work" /\ \A i \in Segs : w[i].pc \in {"off", "done", "failed"}
  /\ \/ \E i \in Failed : (\A j \in Failed : i <= j) /\ MpRaise(w[i].why)
     \/ /\ Failed = {}
        /\ part' = <<>> /\ hashed' = <<>> /\ w' = AllOff
        /\ Goto("mp_assemble")
        /\ UNCHANGED <<target, sidecar, segs, received, validator, attempt, resp,
                       parts, plan, next, zombies>>

(* Mutant of Assemble: the assembled bytes are not hashed.                 *)
AssembleUnhashed ==
  /\ pc = "mp_assemble" /\ next < plan.count
  /\ IF segs[next] = NoFile THEN MpRaise("missing")
     ELSE /\ part' = part \o segs[next]
          /\ MpGoto("mp_unlink")
          /\ UNCHANGED <<target, sidecar, segs, locals, plan>>

Assemble ==
  /\ pc = "mp_assemble" /\ next < plan.count
  /\ IF segs[next] = NoFile THEN MpRaise("missing")
     ELSE /\ part' = part \o segs[next] /\ hashed' = hashed \o segs[next]
          /\ MpGoto("mp_unlink")
          /\ UNCHANGED <<target, sidecar, segs, received, validator, attempt, resp, plan>>

UnlinkSegment ==
  /\ pc = "mp_unlink"
  /\ segs' = [segs EXCEPT ![next] = NoFile]
  /\ next' = next + 1
  /\ Goto("mp_assemble")
  /\ HandlesLost
  /\ UNCHANGED <<target, part, sidecar, locals, parts, plan, w>>

Assembled ==
  /\ pc = "mp_assemble" /\ next = plan.count
  /\ Goto("verify")
  /\ plan' = NoPlan /\ next' = 0
  /\ UNCHANGED <<disk, locals, parts, w, zombies>>

----------------------------------------------------------------------------
(* What an abandoned thread still has: before it opens its file, the count *)
(* of bytes that decides how; after, the handle and the rest of the body.  *)
(* Threads alike in this are counted once.                                 *)
Abandoned(i) ==
  [seg |-> i, url |-> url,
   w |-> IF w[i].pc = "body" THEN [w[i] EXCEPT !.tries = 0, !.got = 0]
         ELSE [Off EXCEPT !.pc = "connect", !.got = w[i].got]]

Abandons(i) ==
  w[i].pc \in {"connect", "body"} \/ (w[i].pc = "head" /\ Opens(i, w[i].resp))

(* KeyboardInterrupt or cancellation: tasks are joined; threads are told   *)
(* to stop, but one whose request is under way still opens its file, and   *)
(* one that is past the flag still writes its chunk.  Those that end at    *)
(* once are not kept.                                                      *)
MpInterrupt ==
  /\ Interrupt
  /\ plan' = NoPlan /\ w' = AllOff /\ next' = 0
  /\ IF Async THEN zombies' = {}
     ELSE \E left \in SUBSET {Abandoned(i) : i \in {j \in Segs : Abandons(j)}} :
            zombies' = zombies \cup left /\ Cardinality(zombies') <= MaxZombies
  /\ UNCHANGED parts

(* The process dies, and its threads with it.                              *)
Kill ==
  /\ Interrupt
  /\ plan' = NoPlan /\ w' = AllOff /\ next' = 0
  /\ zombies' = {}
  /\ UNCHANGED parts

(* An abandoned thread gets its answer: it opens the file, then looks at   *)
(* the cancel flag before it writes; or it ends without opening.           *)
ZombieOpen ==
  \E z \in zombies :
    /\ z.w.pc = "connect"
    /\ zombies' = zombies \ {z}
    /\ segs' = [segs EXCEPT ![z.seg] = Opened(@, z.w.got)]
    /\ UNCHANGED <<Others, w>>

(* One that had looked at the flag writes what it has read, whoever has    *)
(* the destination by then.                                                *)
ZombieWrite ==
  \E z \in zombies :
    /\ z.w.pc = "body" /\ z.w.resp.at < z.w.resp.upto
    /\ zombies' = (zombies \ {z}) \cup {[z EXCEPT !.w = Advanced(@)]}
    /\ segs' = [segs EXCEPT ![z.seg] = Written(@, z.w, z.url)]
    /\ UNCHANGED <<Others, w>>

ZombieEnd ==
  \E z \in zombies : zombies' = zombies \ {z} /\ UNCHANGED <<Others, segs, w>>

(* The steps it has in common with a download of one stream.               *)
CheckTargetStep == CheckTarget /\ UNCHANGED <<parts, mp>>
SingleStreamStep == Stream /\ HandlesLost /\ UNCHANGED <<parts, plan, w, next>>

MpStep ==
  \/ ChooseSingle \/ ChooseMulti \/ CheckTargetStep \/ SingleStreamStep
  \/ MpLoad \/ MpWipe("mp_wipe", "mp_probe")
  \/ ProbeFails \/ ProbePlans \/ ProbeFallsBack
  \/ MpWipe("mp_fallback", "load") \/ MpWriteState \/ MpScan
  \/ Join \/ Assemble \/ UnlinkSegment \/ Assembled

MpNext ==
  \/ \E u \in Urls, o \in BOOLEAN, e \in Versions \cup {NoVersion}, p \in Configs \cup {NoParts} :
       MpCall(u, o, e, p)
  \/ MpStep
  \/ \E i \in Segs : Worker(i)
  \/ MpInterrupt \/ Kill
  \/ ZombieOpen \/ ZombieWrite \/ ZombieEnd
  \/ \E u \in Urls : Change(u) /\ UNCHANGED <<parts, mp>>

MpSpec == MpInit /\ [][MpNext]_mpVars

(* Every thread or task of the call runs until it ends.                    *)
MpFairSpec == MpSpec /\ WF_mpVars(MpStep) /\ \A i \in Segs : WF_mpVars(Worker(i))

----------------------------------------------------------------------------
MpTypeOK ==
  /\ live \in [Urls -> Versions]
  /\ sidecar \in Sidecar
  /\ \A f \in {target, part} \cup {segs[i] : i \in Segs} :
       f = NoFile \/ f \in Seq(Byte \cup {Hole})
  /\ pc \in Labels \cup MpLabels /\ outcome \in Outcomes \cup {"missing"}
  /\ parts \in Configs \cup {NoParts}
  /\ plan.count \in Nat /\ next \in 0..plan.count
  /\ \A i \in Segs : w[i].tries \in 0..(Attempts - 1) /\ w[i].resp.at <= w[i].resp.upto
  /\ \A z \in zombies : z.seg \in Segs /\ (z.w.pc = "body" => segs[z.seg] # NoFile)

(* A segment that is not the first holds a run of bytes of one revision,   *)
(* the one the sidecar names, from the start of its range on: the rule     *)
(* that lets an interrupted download resume part by part.                  *)
SegmentsOfPlan ==
  sidecar \in Identity /\ sidecar.count > 0 =>
    \A i \in 1..(sidecar.count - 1) :
      segs[i] # NoFile =>
        /\ Len(segs[i]) <= Needed(sidecar.total, sidecar.count, i)
        /\ \A k \in 1..Len(segs[i]) :
             segs[i][k] = <<sidecar.url, sidecar.tag,
                            RangeStart(sidecar.total, sidecar.count, i) + k>>

(* A worker believes as many bytes are in its file as there are.           *)
WorkersInStep ==
  pc = "mp_work" =>
    \A i \in Segs : w[i].pc \in {"connect", "head", "body"} => w[i].got = Got(i)

MpCallReturns == (pc # "idle") ~> (pc = "idle")
=============================================================================
