---------------------------- MODULE SingleStream ----------------------------
(***************************************************************************)
(* Downloader.__call__ with one stream (src/mxhttp/download.py): the check *)
(* of an existing destination, load_resume_state, the reconnect loop of    *)
(* _download_single_stream, the checksum, the atomic replace and the       *)
(* cleanup.  The lock of DownloadLock.tla lets one call run at a time, so  *)
(* this is a sequence of calls, of any resource, by any process, each cut  *)
(* short by an interrupt or a crash at any step.                           *)
(***************************************************************************)
EXTENDS Staging

CONSTANT Attempts   \* Retry.attempts

ASSUME AttemptsAssumption == Attempts \in Nat \ {0}

VARIABLES
  pc,         \* where the call is, "idle" between calls
  url,        \* spec.url
  overwrite,  \* the overwrite= argument
  expect,     \* the revision the expected checksum is the digest of, if any
  received,   \* bytes of the .part file the loop believes in
  validator,  \* what the next reconnect sends as If-Range
  hashed,     \* the bytes fed to the hasher
  attempt,    \* failed attempts so far
  resp,       \* the response being read
  outcome     \* how the last call ended

callArgs == <<url, overwrite, expect>>
locals == <<received, validator, hashed, attempt, resp>>
vars == <<live, disk, pc, callArgs, locals, outcome>>

Labels == {"idle", "exists", "probe", "load", "open", "connect", "head",
           "state", "body", "verify", "replace", "cleanup"}
Outcomes == {"none", "done", "identity", "decode", "transport", "http",
             "lost", "mismatch", "interrupted"}

NoLocals ==
  /\ received' = 0 /\ validator' = NoTag /\ hashed' = <<>>
  /\ attempt' = 0 /\ resp' = NoResponse

Init ==
  /\ StagingInit
  /\ pc = "idle" /\ outcome = "none"
  /\ url \in Urls /\ overwrite = FALSE /\ expect = NoVersion
  /\ received = 0 /\ validator = NoTag /\ hashed = <<>>
  /\ attempt = 0 /\ resp = NoResponse

(* The call ends and its local variables are gone; the disk stays.         *)
End(how) ==
  /\ pc' = "idle" /\ outcome' = how
  /\ NoLocals
  /\ UNCHANGED <<live, callArgs>>

Raise(how) == End(how) /\ UNCHANGED disk

(* A step of the call that moves pc and changes none of these.             *)
Goto(label) == pc' = label /\ UNCHANGED <<live, callArgs, outcome>>

Call(u, o, e) ==
  /\ pc = "idle"
  /\ pc' = "exists" /\ outcome' = "none"
  /\ url' = u /\ overwrite' = o /\ expect' = e
  /\ UNCHANGED <<live, disk, locals>>

----------------------------------------------------------------------------
(* check_existing_target: by checksum if one is expected, else by the size *)
(* the probe reports; a target that passes is kept and staging is removed. *)

(* Mutant of TargetAbsent: the existing destination is not looked at.      *)
TargetAbsentAlways ==
  /\ pc = "exists"
  /\ Goto("load") /\ UNCHANGED <<disk, locals>>

TargetAbsent ==
  /\ pc = "exists"
  /\ overwrite \/ target = NoFile
  /\ Goto("load") /\ UNCHANGED <<disk, locals>>

CheckTargetDigest ==
  /\ pc = "exists" /\ ~overwrite /\ target # NoFile /\ expect # NoVersion
  /\ IF target = Whole(url, expect)
       THEN Goto("cleanup") /\ UNCHANGED <<disk, locals>>
       ELSE Raise("mismatch")

CheckTargetSize ==
  /\ pc = "exists" /\ ~overwrite /\ target # NoFile /\ expect = NoVersion
  /\ Goto("probe") /\ UNCHANGED <<disk, locals>>

(* Mutant of RetryOrRaise: failures are not counted.                       *)
RetryForever(label) ==
  /\ Goto(label) /\ resp' = NoResponse
  /\ UNCHANGED <<disk, received, validator, hashed, attempt>>

(* Mutant of RetryOrRaise: one attempt too many.                           *)
RetryOnceMore(label) ==
  \/ /\ attempt < Attempts
     /\ Goto(label)
     /\ attempt' = attempt + 1 /\ resp' = NoResponse
     /\ UNCHANGED <<disk, received, validator, hashed>>
  \/ attempt >= Attempts /\ Raise("transport")

(* A failure of the current attempt: retried while the budget lasts.  The  *)
(* budget is per call and progress does not refill it.                     *)
RetryOrRaise(label) ==
  \/ /\ attempt + 1 < Attempts
     /\ Goto(label)
     /\ attempt' = attempt + 1 /\ resp' = NoResponse
     /\ UNCHANGED <<disk, received, validator, hashed>>
  \/ attempt + 1 >= Attempts /\ Raise("transport")

(* probe_remote, and the comparison of the local size with what it found:  *)
(* the size may always be missing, which never matches.                    *)
Probe ==
  /\ pc = "probe"
  /\ \/ RetryOrRaise("probe")
     \/ Raise("http")
     \/ /\ Len(target) \in ProbedTotals(url)
        /\ Goto("cleanup") /\ UNCHANGED <<disk, locals>>
     \/ Raise("identity")

----------------------------------------------------------------------------
(* load_resume_state.  Nothing is decoded unless both files exist.         *)
Resumable == part # NoFile /\ sidecar # NoFile

(* Mutant of Load: the identity in the sidecar is not compared.            *)
LoadTrusting ==
  /\ pc = "load"
  /\ IF Resumable /\ sidecar # Torn
       THEN received' = Len(part) /\ validator' = sidecar.tag
       ELSE received' = 0 /\ validator' = NoTag
  /\ Goto("open") /\ UNCHANGED <<disk, hashed, attempt, resp>>

Load ==
  /\ pc = "load"
  /\ \/ Resumable /\ sidecar = Torn /\ Raise("decode")
     \/ /\ Resumable /\ sidecar # Torn /\ sidecar.url # url /\ ~overwrite
        /\ Raise("identity")
     \/ /\ Resumable => sidecar # Torn /\ sidecar.url # url /\ overwrite
        /\ received' = 0 /\ validator' = NoTag
        /\ Goto("open") /\ UNCHANGED <<disk, hashed, attempt, resp>>
     \/ /\ Resumable /\ sidecar # Torn /\ sidecar.url = url
        /\ received' = Len(part) /\ validator' = sidecar.tag
        /\ Goto("open") /\ UNCHANGED <<disk, hashed, attempt, resp>>

(* Mutant of OpenPart: "wb" where the code has "ab".                       *)
OpenTruncating ==
  /\ pc = "open"
  /\ part' = <<>> /\ hashed' = <<>>
  /\ Goto("connect")
  /\ UNCHANGED <<target, sidecar, segs, received, validator, attempt, resp>>

(* Mutant of OpenPart: the kept bytes are not fed to the hasher.           *)
OpenWithoutRehash ==
  /\ pc = "open"
  /\ part' = IF received > 0 THEN part ELSE <<>>
  /\ hashed' = <<>>
  /\ Goto("connect")
  /\ UNCHANGED <<target, sidecar, segs, received, validator, attempt, resp>>

(* The hasher reads what is kept; the .part file is opened "ab" or "wb".   *)
OpenPart ==
  /\ pc = "open"
  /\ part' = IF received > 0 THEN part ELSE <<>>
  /\ hashed' = IF received > 0 THEN part ELSE <<>>
  /\ Goto("connect")
  /\ UNCHANGED <<target, sidecar, segs, received, validator, attempt, resp>>

----------------------------------------------------------------------------
(* The reconnect loop.  Connecting may be answered, may fail retryably     *)
(* (transport error, 429, 5xx), or fatally (another status, the rate limit *)
(* refusing, an unexpected error).                                         *)
Connect ==
  /\ pc = "connect"
  /\ \/ /\ resp' \in Responses(url, received, validator)
        /\ Goto("head")
        /\ UNCHANGED <<disk, received, validator, hashed, attempt>>
     \/ RetryOrRaise("connect")
     \/ Raise("http")

(* Mutant of HandleHead: any status that is not an error is taken for a    *)
(* 206.                                                                    *)
HeadTrusting ==
  /\ pc = "head"
  /\ \/ resp.status = 416 /\ Raise("http")
     \/ /\ resp.status # 416
        /\ IF validator = NoTag
             THEN sidecar' = Torn /\ Goto("state")
             ELSE sidecar' = sidecar /\ Goto("body")
        /\ UNCHANGED <<target, part, segs, locals>>

(* The streaming response handler raises on a 416; bytes kept but no 206   *)
(* is ResumeLostError; a call without a validator starts write_state, which *)
(* truncates the sidecar before it writes it.                              *)
HandleHead ==
  /\ pc = "head"
  /\ \/ resp.status = 416 /\ Raise("http")
     \/ resp.status = 200 /\ received > 0 /\ Raise("lost")
     \/ /\ resp.status = 206 \/ (resp.status = 200 /\ received = 0)
        /\ IF validator = NoTag
             THEN sidecar' = Torn /\ Goto("state")
             ELSE sidecar' = sidecar /\ Goto("body")
        /\ UNCHANGED <<target, part, segs, locals>>

WriteState ==
  /\ pc = "state"
  /\ sidecar' = DownloadState(url, Tag(resp.ver))
  /\ validator' = Tag(resp.ver)
  /\ Goto("body")
  /\ UNCHANGED <<target, part, segs, received, hashed, attempt, resp>>

(* One byte read from the body, written, hashed, flushed and synced: a     *)
(* longer chunk is several of these steps.                                 *)
Chunk ==
  /\ pc = "body" /\ resp.at < Size[url][resp.ver]
  /\ LET b == <<url, resp.ver, resp.at + 1>>
     IN  part' = Append(part, b) /\ hashed' = Append(hashed, b)
  /\ received' = received + 1
  /\ resp' = NextByte(resp)
  /\ Goto("body")
  /\ UNCHANGED <<target, sidecar, segs, validator, attempt>>

(* Mutant of Drop: a dropped connection is taken for the end of the body.  *)
DropAsEnd ==
  /\ pc = "body"
  /\ Goto("verify") /\ UNCHANGED <<disk, locals>>

(* The connection drops while the body is read.                            *)
Drop ==
  /\ pc = "body"
  /\ RetryOrRaise("connect")

(* The loop ends whenever the body does: what was received is not compared *)
(* with the size of the resource.                                          *)
EndOfBody ==
  /\ pc = "body" /\ MayEnd(url, resp)
  /\ Goto("verify") /\ UNCHANGED <<disk, locals>>

(* Mutant of Verify: the digest is not compared.                           *)
VerifyNothing ==
  /\ pc = "verify"
  /\ Goto("replace") /\ UNCHANGED <<disk, locals>>

(* A failed digest leaves the staging files where they are.                *)
Verify ==
  /\ pc = "verify"
  /\ IF expect = NoVersion \/ hashed = Whole(url, expect)
       THEN Goto("replace") /\ UNCHANGED <<disk, locals>>
       ELSE Raise("mismatch")

Replace ==
  /\ pc = "replace"
  /\ target' = part /\ part' = NoFile
  /\ Goto("cleanup") /\ UNCHANGED <<sidecar, segs, locals>>

Cleanup ==
  /\ pc = "cleanup"
  /\ \/ UnlinkOneStagingFile /\ Goto("cleanup") /\ UNCHANGED locals
     \/ NoStagingLeft /\ End("done") /\ UNCHANGED disk

(* KeyboardInterrupt, cancellation or the death of the process, anywhere.  *)
Interrupt ==
  /\ pc # "idle"
  /\ Raise("interrupted")

Change(u) ==
  /\ Publish(u)
  /\ UNCHANGED <<disk, pc, callArgs, locals, outcome>>

(* The steps of the running call's own thread.                             *)
CheckTarget == CheckTargetDigest \/ CheckTargetSize \/ Probe

Stream ==
  \/ Load \/ OpenPart
  \/ Connect \/ HandleHead \/ WriteState \/ Chunk \/ Drop \/ EndOfBody
  \/ Verify \/ Replace \/ Cleanup

Step == TargetAbsent \/ CheckTarget \/ Stream

Next ==
  \/ \E u \in Urls, o \in BOOLEAN, e \in Versions \cup {NoVersion} : Call(u, o, e)
  \/ Step
  \/ Interrupt
  \/ \E u \in Urls : Change(u)

Spec == Init /\ [][Next]_vars

(* A call is one thread (or task) and every wait in it is bounded by a     *)
(* timeout or a delay, so it keeps taking steps until it ends.             *)
FairSpec == Spec /\ WF_vars(Step)

----------------------------------------------------------------------------
TypeOK ==
  /\ StagingTypeOK
  /\ pc \in Labels /\ outcome \in Outcomes
  /\ url \in Urls /\ overwrite \in BOOLEAN /\ expect \in Versions \cup {NoVersion}
  /\ received \in Nat /\ validator \in Versions \cup {NoTag}
  /\ hashed \in File /\ attempt \in 0..(Attempts - 1)
  /\ resp \in Response

(* The destination is absent or one complete revision that the server has  *)
(* had, whatever was interrupted, dropped or republished on the way: what  *)
(* If-Range, ResumeLostError and os.replace are there for.                 *)
TargetIntact ==
  target # NoFile => \E u \in Urls : \E n \in 1..live[u] : target = Whole(u, n)

(* The staging file never mixes two revisions or two resources and has no  *)
(* gap: it is always a prefix of one revision.                             *)
NoSplice ==
  part # NoFile =>
    \E u \in Urls : \E n \in 1..live[u] :
      Len(part) <= Size[u][n] /\ part = Held(u, n, Len(part))

(* A call that returned with an expected checksum left that very content,  *)
(* even if the server sends no validator and goes back to old revisions.   *)
VerifiedMeansExpected ==
  outcome = "done" /\ expect # NoVersion => target = Whole(url, expect)

(* The running digest covers exactly the staged bytes, across resumes and  *)
(* reconnects: a resumed download cannot fail its checksum for no reason.  *)
HashInStep ==
  pc \in {"connect", "head", "state", "body", "verify"} => hashed = part

(* Staged bytes of another resource survive a call without overwrite=True  *)
(* until a call has settled the destination (README, DownloadIdentityError). *)
ForeignPartKept ==
  [][ (/\ sidecar \in Identity /\ sidecar.url # url /\ ~overwrite
       /\ part \notin {NoFile, <<>>} /\ pc \notin {"idle", "cleanup"})
      => part' = part ]_vars

(* Bytes staged for the resource being downloaded are only added to until  *)
(* they become the destination, through every interrupt and reconnect.     *)
ResumableKept ==
  [][ (/\ sidecar \in Identity /\ sidecar.url = url /\ part # NoFile
       /\ pc \notin {"idle", "replace", "cleanup"})
      => /\ part' # NoFile
         /\ Len(part') >= Len(part)
         /\ SubSeq(part', 1, Len(part)) = part ]_vars

(* Every call ends: retries are bounded and so is the body.                *)
CallReturns == (pc # "idle") ~> (pc = "idle")

(* The promise to the caller; see DownloadContract.tla.                    *)
Contract == INSTANCE DownloadContract WITH
  phase <- CASE pc = "idle" -> "idle" [] pc = "cleanup" -> "settled" [] OTHER -> "working",
  outcome <- IF outcome \in {"none", "done"} THEN outcome ELSE "raised"

(* This module implements the contract: the destination moves only in the  *)
(* ways a caller was promised.                                             *)
ImplementsContract == Contract!Spec

(* response.py:212, README.md:395: ResumeLostError means that the server    *)
(* ignored Range or the resource changed; so not when the response is of   *)
(* the revision the staged bytes are of.                                   *)
LostMeansChanged ==
  [][ pc = "head" /\ outcome' = "lost" => part[1] # <<url, resp.ver, 1>> ]_vars

(* README.md:425 "if the existing file size matches the remote resource    *)
(* size, the download is skipped as complete; if sizes differ,             *)
(* `DownloadIdentityError` is raised".                                     *)
AcceptedHasRemoteSize ==
  [][ pc = "probe" /\ pc' = "cleanup" => Len(target) = Size[url][live[url]] ]_vars

(* README.md:416 "if the process is interrupted, calling it again resumes  *)
(* from disk": a resume of an unchanged resource is never refused.         *)
ResumeSatisfiable == ~(pc = "head" /\ resp.status = 416)

(* The same sentence: a call killed at any point leaves a sidecar that the *)
(* next call can read.                                                     *)
SidecarReadable == outcome # "decode"

----------------------------------------------------------------------------
(* The two strengthenings the proofs use.  CallInv needs no help from the  *)
(* server: it says what a call has established by the time it gets to a    *)
(* label.  IndInv is for a server that sends validators and never goes     *)
(* back to an old revision; what it says of whole files needs bodies that  *)
(* do not end short.                                                       *)
CallInv ==
  /\ HashInStep
  /\ VerifiedMeansExpected
  /\ pc = "replace" /\ expect # NoVersion => part = Whole(url, expect)
  /\ pc = "cleanup" /\ expect # NoVersion => target = Whole(url, expect)
  /\ pc = "probe" => expect = NoVersion /\ ~overwrite /\ target # NoFile
  /\ pc \in Labels \ {"idle", "exists", "probe", "cleanup"} =>
       overwrite \/ target = NoFile
  /\ pc # "idle" => outcome = "none"

(* Whose bytes are in the .part file: the loop only ever appends under its *)
(* own sidecar, and truncates a foreign .part only if it may.              *)
Own == sidecar \in Identity /\ sidecar.url = url /\ sidecar.tag = validator

OwnInv ==
  /\ pc \in {"open", "connect", "head"} /\ (validator # NoTag \/ received > 0) => Own
  /\ pc \in {"body", "verify", "replace"} => Own
  /\ pc = "open" /\ received = 0 /\ sidecar \in Identity /\ part \notin {NoFile, <<>>} =>
       overwrite /\ sidecar.url # url

Prefix(f, u, n) == Len(f) <= Size[u][n] /\ f = Held(u, n, Len(f))

(* What is on disk: staged bytes are of a revision at least as new as the  *)
(* one the sidecar names.                                                  *)
DiskInv ==
  /\ ~MayEndShort => TargetIntact
  /\ NoSplice
  /\ sidecar \in Identity => sidecar.tag \in 1..live[sidecar.url]
  /\ sidecar \in Identity /\ part \notin {NoFile, <<>>} =>
       \E n \in sidecar.tag..live[sidecar.url] : Prefix(part, sidecar.url, n)

(* The open .part file and the count of its bytes the loop keeps.          *)
CountInv ==
  /\ pc = "open" /\ received > 0 => part # NoFile /\ received = Len(part)
  /\ pc \in {"connect", "head", "state", "body"} => part # NoFile /\ received = Len(part)
  /\ pc \in {"verify", "replace"} => part # NoFile

(* What the loop believes: the validator is the one in its own sidecar,    *)
(* and bytes are kept only under a validator.                              *)
BeliefInv ==
  pc \in {"open", "connect", "head", "state", "body"} =>
    /\ validator # NoTag =>
         sidecar \in Identity /\ sidecar.url = url /\ sidecar.tag = validator
    /\ validator = NoTag => received = 0

(* What the response continues: the staged bytes, in the same revision.    *)
StreamInv ==
  /\ pc \in {"head", "state", "body"} => resp.ver \in 1..live[url]
  /\ pc = "head" => /\ validator <= resp.ver
                    /\ resp.status = 200 => resp.at = 0
                    /\ resp.status = 206 =>
                         resp.at = received /\ Prefix(part, url, resp.ver)
  /\ pc = "state" => received = 0 /\ resp.at = 0
  /\ pc = "body" => /\ validator \in 1..resp.ver
                    /\ resp.at = received
                    /\ Prefix(part, url, resp.ver)
  /\ pc \in {"verify", "replace"} /\ ~MayEndShort =>
       \E n \in 1..live[url] : part = Whole(url, n)

IndInv == TypeOK /\ CountInv /\ OwnInv /\ DiskInv /\ BeliefInv /\ StreamInv
=============================================================================
