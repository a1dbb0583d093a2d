------------------------- MODULE SingleStreamProofs -------------------------
(***************************************************************************)
(* Proofs about SingleStream, for any resources, sizes, number of          *)
(* revisions and retry budget.                                             *)
(***************************************************************************)
EXTENDS SingleStream, TLAPS

(* Held(u, n, k) is a file of k bytes that one more byte extends.          *)
LEMMA HeldLength ==
  ASSUME NEW u, NEW n, NEW k \in Nat
  PROVE  /\ Len(Held(u, n, k)) = k
         /\ DOMAIN Held(u, n, k) = 1..k
         /\ Held(u, n, 0) = <<>>
  BY DEF Held

(* A run of bytes of a revision is a file.                                 *)
LEMMA HeldType ==
  ASSUME NEW u \in Urls, NEW n \in Versions, NEW k \in Nat
  PROVE  Held(u, n, k) \in File
  BY DEF Held, File, Byte

(* The next byte of a revision makes the next longer run.                  *)
LEMMA HeldExtends ==
  ASSUME NEW u \in Urls, NEW n \in Versions, NEW k \in Nat
  PROVE  Append(Held(u, n, k), <<u, n, k + 1>>) = Held(u, n, k + 1)
  BY DEF Held

----------------------------------------------------------------------------
(* A call that returned with an expected checksum left that very content:  *)
(* no assumption on the server, its validators or its history.             *)
USE DEF vars, disk, callArgs, locals, Goto, Raise, End, NoLocals

(* No call has established anything at first.                              *)
LEMMA CallInit == Init => CallInv
  BY DEF Init, StagingInit, CallInv, HashInStep, VerifiedMeansExpected

(* What a call has established by a label stays established.               *)
LEMMA CallStep == CallInv /\ [Next]_vars => CallInv'
<1> SUFFICES ASSUME CallInv, [Next]_vars PROVE CallInv'
  OBVIOUS
<1> USE DEF CallInv, HashInStep, VerifiedMeansExpected, Labels
<1>1. ASSUME NEW u \in Urls, NEW o \in BOOLEAN, NEW e \in Versions \cup {NoVersion},
             Call(u, o, e)
      PROVE  CallInv'
  BY <1>1 DEF Call
<1>2. CASE TargetAbsent
  BY <1>2 DEF TargetAbsent
<1>3. CASE CheckTargetDigest
  BY <1>3 DEF CheckTargetDigest
<1>4. CASE CheckTargetSize
  BY <1>4 DEF CheckTargetSize
<1>5. CASE Probe
  BY <1>5 DEF Probe, RetryOrRaise
<1>6. CASE Load
  BY <1>6 DEF Load
<1>7. CASE OpenPart
  BY <1>7 DEF OpenPart
<1>8. CASE Connect
  BY <1>8 DEF Connect, RetryOrRaise
<1>9. CASE HandleHead
  BY <1>9 DEF HandleHead
<1>10. CASE WriteState
  BY <1>10 DEF WriteState
<1>11. CASE Chunk
  BY <1>11 DEF Chunk
<1>12. CASE Drop
  BY <1>12 DEF Drop, RetryOrRaise
<1>13. CASE EndOfBody
  BY <1>13 DEF EndOfBody
<1>14. CASE Verify
  BY <1>14 DEF Verify
<1>15. CASE Replace
  BY <1>15 DEF Replace
<1>16. CASE Cleanup
  BY <1>16 DEF Cleanup, UnlinkOneStagingFile
<1>17. CASE Interrupt
  BY <1>17 DEF Interrupt
<1>18. ASSUME NEW u \in Urls, Change(u) PROVE CallInv'
  BY <1>18 DEF Change, Publish
<1>19. CASE UNCHANGED vars
  BY <1>19
<1> QED
  BY <1>1, <1>2, <1>3, <1>4, <1>5, <1>6, <1>7, <1>8, <1>9, <1>10, <1>11, <1>12,
     <1>13, <1>14, <1>15, <1>16, <1>17, <1>18, <1>19 DEF Next, Step, CheckTarget, Stream

THEOREM CallInvariant == Spec => []CallInv
<1>1. Init => CallInv
  BY CallInit
<1>2. CallInv /\ [Next]_vars => CallInv'
  BY CallStep
<1> QED
  BY <1>1, <1>2, PTL DEF Spec

(* VerifiedMeansExpected: what a checksum is for.                          *)
THEOREM VerifiedContent == Spec => []VerifiedMeansExpected
<1>1. CallInv => VerifiedMeansExpected
  BY DEF CallInv
<1> QED
  BY <1>1, CallInvariant, PTL

----------------------------------------------------------------------------
(* Type correctness, which needs the file to be open while it is written.  *)
LEMMA EmptyFile == <<>> \in File /\ Len(<<>>) = 0
  BY DEF File

(* A file with one more byte at its end is a file.                         *)
LEMMA OneMoreByte ==
  ASSUME NEW f \in File, NEW u \in Urls, NEW n \in Versions, NEW i \in Nat \ {0}
  PROVE  Append(f, <<u, n, i>>) \in File /\ Len(Append(f, <<u, n, i>>)) = Len(f) + 1
  BY DEF File, Byte

(* Files have a length.                                                    *)
LEMMA FileLength ==
  ASSUME NEW f \in File
  PROVE  Len(f) \in Nat /\ (f # <<>> => Len(f) > 0)
  BY DEF File

(* Revisions are numbered from 1.                                          *)
LEMMA VersionsNat == (\A n \in Versions : n \in Nat /\ n >= 1) /\ 1 \in Versions
  BY ServerAssumption, StagingAssumption DEF Versions

(* The initial state is well typed.                                        *)
LEMMA TypeInit == Init => TypeOK /\ CountInv
<1> SUFFICES ASSUME Init PROVE TypeOK /\ CountInv
  OBVIOUS
<1> USE EmptyFile, VersionsNat, AttemptsAssumption
    DEF Init, StagingInit, TypeOK, StagingTypeOK, CountInv
<1>1. live \in [Urls -> Versions] /\ segs \in [Segs -> File \cup {NoFile}]
  OBVIOUS
<1>2. sidecar \in Sidecar /\ resp \in Response
  BY DEF Sidecar, Response, NoResponse
<1>3. pc \in Labels /\ outcome \in Outcomes /\ attempt \in 0..(Attempts - 1)
  BY DEF Labels, Outcomes
<1> QED
  BY <1>1, <1>2, <1>3 DEF NoTag, NoVersion

(* Every step of a call or of the server keeps the types, for which the    *)
(* .part file has to be open, and counted, while it is written.            *)
LEMMA TypeStep == TypeOK /\ CountInv /\ [Next]_vars => TypeOK' /\ CountInv'
<1> SUFFICES ASSUME TypeOK, CountInv, [Next]_vars PROVE TypeOK' /\ CountInv'
  OBVIOUS
<1> USE EmptyFile, VersionsNat, AttemptsAssumption, ServerAssumption, StagingAssumption
    DEF TypeOK, StagingTypeOK, CountInv, Labels, Outcomes, NoTag, NoVersion
<1>0. NoResponse \in Response
  BY DEF NoResponse, Response
<1>1. ASSUME NEW u \in Urls, NEW o \in BOOLEAN, NEW e \in Versions \cup {NoVersion},
             Call(u, o, e)
      PROVE  TypeOK' /\ CountInv'
  BY <1>1 DEF Call
<1>2. CASE TargetAbsent
  BY <1>2 DEF TargetAbsent
<1>3. CASE CheckTargetDigest
  BY <1>0, <1>3 DEF CheckTargetDigest
<1>4. CASE CheckTargetSize
  BY <1>4 DEF CheckTargetSize
<1>5. CASE Probe
  BY <1>0, <1>5 DEF Probe, RetryOrRaise
<1>6. CASE Load
  <2>1. part # NoFile => Len(part) \in Nat
    BY FileLength
  <2>2. sidecar \notin {NoFile, Torn} => sidecar.tag \in Versions \cup {NoTag}
    BY DEF Sidecar, Identity
  <2> QED
    BY <1>0, <1>6, <2>1, <2>2 DEF Load, Resumable
<1>7. CASE OpenPart
  BY <1>7 DEF OpenPart
<1>8. CASE Connect
  <2>1. CASE resp' \in Responses(url, received, validator)
             /\ Goto("head") /\ UNCHANGED <<disk, received, validator, hashed, attempt>>
    <3>1. live[url] \in Versions
      OBVIOUS
    <3>2. resp' \in Response
      BY <2>1, <3>1 DEF Responses, Response, Full, Partial, Unsatisfiable
    <3> QED
      BY <1>8, <2>1, <3>2 DEF Connect
  <2>2. CASE RetryOrRaise("connect")
    BY <1>0, <1>8, <2>2 DEF RetryOrRaise, Connect
  <2>3. CASE Raise("http")
    BY <1>0, <1>8, <2>3 DEF Connect
  <2> QED
    BY <1>8, <2>1, <2>2, <2>3 DEF Connect
<1>9. CASE HandleHead
  BY <1>0, <1>9 DEF HandleHead, Sidecar
<1>10. CASE WriteState
  <2>1. Tag(resp.ver) \in Versions \cup {NoTag}
    BY DEF Tag, Response
  <2> QED
    BY <1>10, <2>1 DEF WriteState, DownloadState, Sidecar, Identity
<1>11. CASE Chunk
  <2>1. resp.ver \in Versions /\ resp.at \in Nat /\ resp.status \in {0, 200, 206, 416}
    BY DEF Response
  <2>2. part \in File /\ hashed \in File /\ url \in Urls /\ resp.at + 1 \in Nat \ {0}
    <3>1. resp.at + 1 \in Nat \ {0}
      BY <2>1
    <3>2. pc = "body"
      BY <1>11 DEF Chunk
    <3> QED
      BY <3>1, <3>2
  <2>3. part' = Append(part, <<url, resp.ver, resp.at + 1>>)
        /\ hashed' = Append(hashed, <<url, resp.ver, resp.at + 1>>)
    BY <1>11 DEF Chunk
  <2>4. part' \in File /\ hashed' \in File /\ Len(part') = Len(part) + 1
    <3> HIDE DEF TypeOK, CountInv, StagingTypeOK
    <3>1. Append(part, <<url, resp.ver, resp.at + 1>>) \in File
      BY <2>1, <2>2, OneMoreByte
    <3>2. Append(hashed, <<url, resp.ver, resp.at + 1>>) \in File
      BY <2>1, <2>2, OneMoreByte
    <3>3. Len(Append(part, <<url, resp.ver, resp.at + 1>>)) = Len(part) + 1
      BY <2>1, <2>2, OneMoreByte
    <3> QED
      BY <2>3, <3>1, <3>2, <3>3
  <2>5. part' # NoFile
    BY <2>4
  <2>6. resp' \in Response
    BY <1>11, <2>1 DEF Chunk, NextByte, Response
  <2> QED
    BY <1>11, <2>4, <2>5, <2>6 DEF Chunk
<1>12. CASE Drop
  BY <1>0, <1>12 DEF Drop, RetryOrRaise
<1>13. CASE EndOfBody
  BY <1>13 DEF EndOfBody
<1>14. CASE Verify
  BY <1>0, <1>14 DEF Verify
<1>15. CASE Replace
  BY <1>15 DEF Replace
<1>16. CASE Cleanup
  <2>1. CASE UnlinkOneStagingFile /\ Goto("cleanup") /\ UNCHANGED locals
    <3>1. /\ part' \in File \cup {NoFile} /\ sidecar' \in Sidecar
          /\ segs' \in [Segs -> File \cup {NoFile}] /\ target' = target
      BY <2>1 DEF UnlinkOneStagingFile, Sidecar
    <3> QED
      BY <1>16, <2>1, <3>1 DEF Cleanup
  <2>2. CASE End("done") /\ UNCHANGED disk
    BY <1>0, <2>2
  <2> QED
    BY <1>16, <2>1, <2>2 DEF Cleanup
<1>17. CASE Interrupt
  BY <1>0, <1>17 DEF Interrupt
<1>18. ASSUME NEW u \in Urls, Change(u) PROVE TypeOK' /\ CountInv'
  BY <1>18 DEF Change, Publish
<1>19. CASE UNCHANGED vars
  BY <1>19
<1> QED
  BY <1>1, <1>2, <1>3, <1>4, <1>5, <1>6, <1>7, <1>8, <1>9, <1>10, <1>11, <1>12,
     <1>13, <1>14, <1>15, <1>16, <1>17, <1>18, <1>19 DEF Next, Step, CheckTarget, Stream

(* Every variable stays in its type, for any server.                       *)
THEOREM TypeCorrect == Spec => []TypeOK
<1>1. Init => TypeOK /\ CountInv
  BY TypeInit
<1>2. TypeOK /\ CountInv /\ [Next]_vars => (TypeOK /\ CountInv)'
  BY TypeStep
<1> QED
  BY <1>1, <1>2, PTL DEF Spec

----------------------------------------------------------------------------
(* Intact files, from a server that sends validators and whose revisions   *)
(* only move forward.                                                      *)
LEMMA SizeNat ==
  ASSUME NEW u \in Urls, NEW n \in Versions
  PROVE  Size[u][n] \in Nat
  BY ServerAssumption, StagingAssumption

(* The empty file is the start of every revision.                          *)
LEMMA PrefixEmpty ==
  ASSUME NEW u \in Urls, NEW n \in Versions
  PROVE  Prefix(<<>>, u, n)
  BY SizeNat, HeldLength DEF Prefix

(* Appending the next byte of a revision to a start of it.                 *)
LEMMA PrefixExtends ==
  ASSUME NEW f \in File, NEW u \in Urls, NEW n \in Versions,
         Prefix(f, u, n), Len(f) < Size[u][n]
  PROVE  Prefix(Append(f, <<u, n, Len(f) + 1>>), u, n)
<1>1. Len(f) \in Nat /\ Size[u][n] \in Nat
  BY FileLength, SizeNat
<1>2. Append(f, <<u, n, Len(f) + 1>>) = Held(u, n, Len(f) + 1)
  BY <1>1, HeldExtends DEF Prefix
<1>3. Len(Held(u, n, Len(f) + 1)) = Len(f) + 1
  BY <1>1, HeldLength
<1> QED
  BY <1>1, <1>2, <1>3 DEF Prefix

(* A start of a revision that is as long as it is the whole of it.         *)
LEMMA PrefixComplete ==
  ASSUME NEW f, NEW u, NEW n, Prefix(f, u, n), Len(f) = Size[u][n]
  PROVE  f = Whole(u, n)
  BY DEF Prefix, Whole

(* A revision once served stays at most the live one.                      *)
LEMMA RevisionsGrow ==
  ASSUME TypeOK, [Next]_vars, ~Rollback
  PROVE  \A u \in Urls : /\ live[u] \in Versions /\ live'[u] \in Versions
                         /\ live[u] <= live'[u]
<1> SUFFICES ASSUME NEW v \in Urls
             PROVE  /\ live[v] \in Versions /\ live'[v] \in Versions
                    /\ live[v] <= live'[v]
  OBVIOUS
<1>0. live \in [Urls -> Versions] /\ live[v] \in Versions /\ live[v] \in Nat
  BY VersionsNat DEF TypeOK, StagingTypeOK
<1>1. CASE live' = live
  BY <1>0, <1>1
<1>2. ASSUME NEW u \in Urls, Change(u)
      PROVE  live'[v] \in Versions /\ live[v] <= live'[v]
  <2>1. PICK n \in Versions : n > live[u] /\ live' = [live EXCEPT ![u] = n]
    BY <1>2 DEF Change, Publish
  <2>2. n \in Nat
    BY VersionsNat
  <2> QED
    BY <1>0, <2>1, <2>2
<1>3. Step => live' = live
  BY DEF Step, CheckTarget, Stream, TargetAbsent, CheckTargetDigest, CheckTargetSize,
         Probe, Load, OpenPart, Connect, HandleHead, WriteState, Chunk, Drop, EndOfBody, Verify,
         Replace, Cleanup, RetryOrRaise
<1> QED
  BY <1>0, <1>1, <1>2, <1>3 DEF Next, Call, Interrupt

(* What is on disk stays intact when the server publishes a revision.      *)
LEMMA DiskStable ==
  ASSUME TypeOK, DiskInv, UNCHANGED disk,
         \A u \in Urls : /\ live[u] \in Versions /\ live'[u] \in Versions
                         /\ live[u] <= live'[u]
  PROVE  DiskInv'
<1>0. \A u \in Urls : live[u] \in Nat /\ live'[u] \in Nat
  BY VersionsNat
<1>1. \A u \in Urls : \A n \in 1..live[u] : n \in 1..live'[u]
  BY <1>0
<1>2. ~MayEndShort => TargetIntact'
  BY <1>1 DEF DiskInv, TargetIntact
<1>3. NoSplice'
  BY <1>1 DEF DiskInv, NoSplice
<1>4. ASSUME sidecar \in Identity
      PROVE  /\ sidecar.url \in Urls /\ sidecar.tag \in 1..live[sidecar.url]
             /\ sidecar.tag \in Nat
  BY <1>0, <1>4 DEF DiskInv, Identity
<1>5. (sidecar \in Identity => sidecar.tag \in 1..live[sidecar.url])'
  BY <1>1, <1>4
<1>6. (sidecar \in Identity /\ part \notin {NoFile, <<>>} =>
         \E n \in sidecar.tag..live[sidecar.url] : Prefix(part, sidecar.url, n))'
  <2> SUFFICES ASSUME sidecar \in Identity, part \notin {NoFile, <<>>}
               PROVE  \E n \in sidecar.tag..live'[sidecar.url] : Prefix(part, sidecar.url, n)
    BY DEF Prefix
  <2>1. PICK n \in sidecar.tag..live[sidecar.url] : Prefix(part, sidecar.url, n)
    BY DEF DiskInv
  <2>2. n \in sidecar.tag..live'[sidecar.url]
    BY <1>0, <1>4, <2>1
  <2> QED
    BY <2>1, <2>2
<1> QED
  BY <1>2, <1>3, <1>5, <1>6 DEF DiskInv

Intact == DiskInv /\ BeliefInv /\ StreamInv

(* There is nothing on disk at first.                                      *)
LEMMA IntactInit == Init => Intact
<1> SUFFICES ASSUME Init PROVE Intact
  OBVIOUS
<1>1. sidecar \notin Identity /\ part = NoFile
  BY ServerAssumption, StagingAssumption DEF Init, StagingInit
<1> QED
  BY <1>1 DEF Init, StagingInit, Intact, DiskInv, BeliefInv, StreamInv,
     TargetIntact, NoSplice

(* A step that leaves the disk alone and is not about a response keeps the *)
(* invariant by keeping the disk.                                          *)
LEMMA QuietStep ==
  ASSUME TypeOK, Intact, UNCHANGED disk,
         \A u \in Urls : /\ live[u] \in Versions /\ live'[u] \in Versions
                         /\ live[u] <= live'[u],
         pc' \in {"idle", "exists", "probe", "load", "cleanup"}
  PROVE  Intact'
<1>1. DiskInv'
  BY DiskStable DEF Intact
<1> QED
  BY <1>1 DEF Intact, BeliefInv, StreamInv

(* Every step keeps staged and finished files intact.                      *)
LEMMA IntactStep ==
  ASSUME Tagged, ~Rollback, TypeOK, TypeOK', CountInv, Intact, [Next]_vars
  PROVE  Intact'
<1>0. \A u \in Urls : /\ live[u] \in Versions /\ live'[u] \in Versions
                      /\ live[u] <= live'[u]
  BY RevisionsGrow
<1>a. url \in Urls /\ live[url] \in Nat /\ live[url] >= 1
  <2>1. url \in Urls
    BY DEF TypeOK
  <2> QED
    BY <1>0, <2>1, VersionsNat
<1>1. ASSUME NEW u \in Urls, NEW o \in BOOLEAN, NEW e \in Versions \cup {NoVersion},
             Call(u, o, e)
      PROVE  Intact'
  BY <1>0, <1>1, QuietStep DEF Call
<1>2. CASE TargetAbsent \/ CheckTargetDigest \/ CheckTargetSize
  BY <1>0, <1>2, QuietStep DEF TargetAbsent, CheckTargetDigest, CheckTargetSize
<1>3. CASE Probe
  BY <1>0, <1>3, QuietStep DEF Probe, RetryOrRaise
<1>4. CASE Load
  <2>1. CASE UNCHANGED disk /\ pc' = "idle"
    BY <1>0, <2>1, QuietStep
  <2>2. CASE UNCHANGED <<disk, url>> /\ pc' = "open" /\ received' = 0 /\ validator' = NoTag
    <3>1. DiskInv'
      BY <1>0, <2>2, DiskStable DEF Intact
    <3> QED
      BY <2>2, <3>1 DEF Intact, BeliefInv, StreamInv
  <2>3. CASE /\ UNCHANGED <<disk, url>> /\ pc' = "open"
             /\ Resumable /\ sidecar # Torn /\ sidecar.url = url
             /\ received' = Len(part) /\ validator' = sidecar.tag
    <3>1. DiskInv'
      BY <1>0, <2>3, DiskStable DEF Intact
    <3>2. sidecar \in Identity
      BY <2>3 DEF TypeOK, StagingTypeOK, Sidecar, Resumable
    <3>3. sidecar.tag # NoTag
      <4>1. sidecar.tag \in 1..live[sidecar.url]
        BY <3>2 DEF Intact, DiskInv
      <4> QED
        BY <4>1, <1>0, <2>3, <3>2, VersionsNat DEF NoTag, Identity
    <3> QED
      BY <2>3, <3>1, <3>2, <3>3 DEF Intact, BeliefInv, StreamInv
  <2> QED
    BY <1>4, <2>1, <2>2, <2>3 DEF Load
<1>5. CASE OpenPart
  <2>1. CASE received > 0
    <3>1. DiskInv'
      BY <1>0, <1>5, <2>1, DiskStable DEF OpenPart, Intact
    <3> QED
      BY <1>5, <2>1, <3>1 DEF OpenPart, Intact, BeliefInv, StreamInv
  <2>2. CASE ~(received > 0)
    <3>1. part' = <<>> /\ UNCHANGED <<live, target, sidecar>> /\ url \in Urls
      BY <1>5, <2>2 DEF OpenPart, TypeOK
    <3>2. ~MayEndShort => TargetIntact'
      BY <3>1 DEF Intact, DiskInv, TargetIntact
    <3>3. NoSplice'
      <4>1. 1 \in Versions /\ 1 \in 1..live[url]
        BY <1>a, VersionsNat
      <4>2. Prefix(<<>>, url, 1)
        BY <3>1, <4>1, PrefixEmpty
      <4> QED
        BY <3>1, <4>1, <4>2 DEF NoSplice, Prefix
    <3>4. DiskInv'
      BY <3>1, <3>2, <3>3 DEF Intact, DiskInv
    <3> QED
      BY <1>5, <3>4 DEF OpenPart, Intact, BeliefInv, StreamInv
  <2> QED
    BY <2>1, <2>2
<1>6. CASE Connect
  <2>1. CASE RetryOrRaise("connect")
    <3>1. DiskInv'
      BY <1>0, <2>1, DiskStable DEF RetryOrRaise, Intact
    <3> QED
      BY <1>6, <2>1, <3>1 DEF RetryOrRaise, Connect, Intact, BeliefInv, StreamInv
  <2>2. CASE Raise("http")
    BY <1>0, <2>2, QuietStep
  <2>3. CASE resp' \in Responses(url, received, validator)
             /\ Goto("head") /\ UNCHANGED <<disk, received, validator, hashed, attempt>>
    <3>1. DiskInv'
      BY <1>0, <2>3, DiskStable DEF Intact
    <3>2. BeliefInv'
      BY <1>6, <2>3 DEF Connect, Intact, BeliefInv
    <3>3. /\ url \in Urls /\ live[url] \in Versions /\ live[url] \in Nat
          /\ live[url] \in 1..live[url] /\ received \in Nat
      BY <1>0, <1>a DEF TypeOK
    <3>4. resp'.ver = live[url]
      BY <2>3 DEF Responses, Full, Partial, Unsatisfiable
    <3>5. resp'.status = 200 => resp'.at = 0
      BY <2>3 DEF Responses, Full, Partial, Unsatisfiable
    <3>6. validator <= live[url]
      <4>1. CASE validator = NoTag
        BY <3>3, <4>1 DEF NoTag
      <4>2. CASE validator # NoTag
        <5>1. sidecar \in Identity /\ sidecar.url = url /\ sidecar.tag = validator
          BY <1>6, <4>2 DEF Connect, Intact, BeliefInv
        <5> QED
          BY <3>3, <5>1 DEF Intact, DiskInv
      <4> QED
        BY <4>1, <4>2
    <3>7. ASSUME resp'.status = 206
          PROVE  resp'.at = received /\ Prefix(part, url, live[url])
      <4>1. /\ received > 0 /\ resp' = Partial(url, received)
            /\ validator = NoTag \/ validator = Tag(live[url])
        BY <2>3, <3>3, <3>7 DEF Responses, Full, Unsatisfiable
      <4>2. /\ validator = live[url] /\ validator # NoTag /\ sidecar \in Identity
            /\ sidecar.url = url /\ sidecar.tag = live[url]
        BY <1>6, <3>3, <4>1 DEF Connect, Intact, BeliefInv, Tag, NoTag
      <4>3. part \notin {NoFile, <<>>}
        BY <1>6, <4>1, EmptyFile DEF Connect, CountInv
      <4>4. PICK n \in live[url]..live[url] : Prefix(part, url, n)
        BY <4>2, <4>3 DEF Intact, DiskInv
      <4>5. n = live[url]
        BY <3>3, <4>4
      <4> QED
        BY <4>1, <4>4, <4>5 DEF Partial
    <3> QED
      BY <2>3, <3>1, <3>2, <3>3, <3>4, <3>5, <3>6, <3>7 DEF Intact, StreamInv, Prefix
  <2> QED
    BY <1>6, <2>1, <2>2, <2>3 DEF Connect
<1>7. CASE HandleHead
  <2>1. CASE UNCHANGED disk /\ pc' = "idle"
    BY <1>0, <2>1, QuietStep
  <2>2. CASE /\ resp.status = 206 \/ (resp.status = 200 /\ received = 0)
             /\ IF validator = NoTag
                  THEN sidecar' = Torn /\ pc' = "state"
                  ELSE sidecar' = sidecar /\ pc' = "body"
             /\ UNCHANGED <<live, target, part, url, locals>>
    <3>1. /\ resp.ver \in 1..live[url] /\ validator <= resp.ver
          /\ part # NoFile /\ received = Len(part)
          /\ resp.status = 200 => resp.at = 0
          /\ resp.status = 206 => resp.at = received /\ Prefix(part, url, resp.ver)
      BY <1>7 DEF HandleHead, CountInv, Intact, StreamInv
    <3>2. resp.at = received /\ Prefix(part, url, resp.ver)
      <4>1. CASE resp.status = 206
        BY <3>1, <4>1
      <4>2. CASE resp.status = 200 /\ received = 0
        <5>0. part \in File
          BY <3>1 DEF TypeOK, StagingTypeOK
        <5>1. part = <<>>
          <6>1. Len(part) = 0
            BY <3>1, <4>2
          <6> QED
            BY <5>0, <6>1, FileLength
        <5>2. resp.ver \in Versions
          BY DEF TypeOK, Response
        <5>3. Prefix(part, url, resp.ver)
          BY <1>a, <5>1, <5>2, PrefixEmpty
        <5> QED
          BY <3>1, <4>2, <5>3
      <4> QED
        BY <2>2, <4>1, <4>2
    <3>3. CASE validator = NoTag
      <4>1. received = 0 /\ sidecar' = Torn /\ sidecar' \notin Identity
        BY <1>7, <2>2, <3>3, ServerAssumption, StagingAssumption DEF HandleHead, Intact, BeliefInv
      <4>2. DiskInv'
        BY <2>2, <4>1 DEF Intact, DiskInv, TargetIntact, NoSplice
      <4> QED
        BY <2>2, <3>1, <3>2, <3>3, <4>1, <4>2 DEF Intact, BeliefInv, StreamInv
    <3>4. CASE validator # NoTag
      <4>1. UNCHANGED disk \/ UNCHANGED <<target, part, sidecar>>
        BY <2>2, <3>4
      <4>2. DiskInv'
        BY <2>2, <3>4 DEF Intact, DiskInv, TargetIntact, NoSplice, Prefix
      <4>3. validator \in 1..resp.ver
        BY <1>a, <3>1, <3>4, VersionsNat DEF TypeOK, NoTag
      <4>4. BeliefInv'
        BY <1>7, <2>2, <3>4 DEF HandleHead, Intact, BeliefInv
      <4> QED
        BY <2>2, <3>1, <3>2, <3>4, <4>2, <4>3, <4>4 DEF Intact, StreamInv, Prefix
    <3> QED
      BY <3>3, <3>4
  <2> QED
    BY <1>7, <2>1, <2>2 DEF HandleHead
<1>8. CASE WriteState
  <2>1. /\ resp.ver \in 1..live[url] /\ received = 0 /\ resp.at = 0
        /\ part # NoFile /\ received = Len(part)
    BY <1>8 DEF WriteState, Intact, StreamInv, CountInv
  <2>2. resp.ver \in Versions /\ resp.ver \in Nat /\ resp.ver >= 1
    BY VersionsNat DEF TypeOK, Response
  <2>3. part = <<>>
    BY <2>1, FileLength DEF TypeOK, StagingTypeOK
  <2>4. Tag(resp.ver) = resp.ver
    BY DEF Tag
  <2>5. /\ sidecar' = DownloadState(url, resp.ver) /\ validator' = resp.ver /\ pc' = "body"
        /\ UNCHANGED <<live, target, part, url, received, resp>>
    BY <1>8, <2>4 DEF WriteState
  <2>6. /\ sidecar' \in Identity /\ sidecar'.url = url /\ sidecar'.tag = resp.ver
    BY <1>a, <2>2, <2>5 DEF DownloadState, Identity
  <2>7. DiskInv'
    BY <2>1, <2>3, <2>5, <2>6 DEF Intact, DiskInv, TargetIntact, NoSplice
  <2>8. BeliefInv'
    BY <2>2, <2>5, <2>6 DEF BeliefInv, NoTag
  <2>9. StreamInv'
    <3>1. validator' \in 1..resp.ver
      BY <2>2, <2>5
    <3>2. Prefix(part', url, resp.ver)
      BY <1>a, <2>2, <2>3, <2>5, PrefixEmpty
    <3> QED
      BY <2>1, <2>5, <3>1, <3>2 DEF StreamInv
  <2> QED
    BY <2>7, <2>8, <2>9 DEF Intact
<1>9. CASE Chunk
  <2>1. /\ resp.ver \in 1..live[url] /\ validator \in 1..resp.ver
        /\ resp.at = received /\ Prefix(part, url, resp.ver)
        /\ part # NoFile /\ received = Len(part) /\ resp.at < Size[url][resp.ver]
    BY <1>9 DEF Chunk, Intact, StreamInv, CountInv
  <2>2. resp.ver \in Versions /\ resp.ver \in Nat /\ resp.at \in Nat
    BY VersionsNat DEF TypeOK, Response
  <2>3. part \in File
    BY <2>1 DEF TypeOK, StagingTypeOK
  <2>4. part' = Append(part, <<url, resp.ver, Len(part) + 1>>)
    BY <1>9, <2>1 DEF Chunk
  <2>5. Prefix(part', url, resp.ver)
    BY <1>a, <2>1, <2>2, <2>3, <2>4, PrefixExtends
  <2>6. /\ resp'.ver = resp.ver /\ resp'.at = resp.at + 1 /\ received' = received + 1
        /\ pc' = "body" /\ UNCHANGED <<live, target, sidecar, url, validator>>
    BY <1>9 DEF Chunk, NextByte
  <2>7. sidecar \in Identity /\ sidecar.url = url /\ sidecar.tag = validator
    BY <1>9, <1>a, <2>1, <2>2 DEF Chunk, Intact, BeliefInv, NoTag
  <2>8. resp.ver \in validator..live[url]
    BY <1>a, <2>1, <2>2
  <2>9. DiskInv'
    <3>1. ~MayEndShort => TargetIntact'
      BY <2>6 DEF Intact, DiskInv, TargetIntact
    <3>2. NoSplice'
      BY <1>a, <2>1, <2>5, <2>6 DEF NoSplice, Prefix
    <3>3. sidecar' \in Identity => sidecar'.tag \in 1..live'[sidecar'.url]
      BY <2>6 DEF Intact, DiskInv
    <3>4. \E n \in sidecar'.tag..live'[sidecar'.url] : Prefix(part', sidecar'.url, n)
      BY <2>5, <2>6, <2>7, <2>8
    <3>5. \E n \in sidecar'.tag..live'[sidecar'.url] : Prefix(part, sidecar.url, n)'
      BY <3>4 DEF Prefix
    <3> QED
      BY <3>1, <3>2, <3>3, <3>5 DEF DiskInv
  <2>10. BeliefInv'
    BY <1>a, <2>1, <2>2, <2>6, <2>7 DEF BeliefInv, NoTag
  <2>11. StreamInv'
    BY <2>1, <2>5, <2>6 DEF StreamInv, Prefix
  <2> QED
    BY <2>9, <2>10, <2>11 DEF Intact
<1>10. CASE Drop
  <2>1. CASE UNCHANGED disk /\ pc' = "idle"
    BY <1>0, <2>1, QuietStep
  <2>2. CASE UNCHANGED <<disk, received, validator, url>> /\ pc' = "connect"
    <3>1. DiskInv'
      BY <1>0, <2>2, DiskStable DEF Intact
    <3> QED
      BY <1>10, <2>2, <3>1 DEF Drop, Intact, BeliefInv, StreamInv
  <2> QED
    BY <1>10, <2>1, <2>2 DEF Drop, RetryOrRaise
<1>11. CASE EndOfBody
  <2>1. UNCHANGED <<live, disk, url>> /\ pc' = "verify"
    BY <1>11 DEF EndOfBody
  <2>2. DiskInv'
    BY <1>0, <2>1, DiskStable DEF Intact
  <2>3. /\ resp.ver \in 1..live[url] /\ Prefix(part, url, resp.ver)
        /\ ~MayEndShort => Len(part) = Size[url][resp.ver]
    BY <1>11 DEF EndOfBody, MayEnd, Intact, StreamInv, CountInv
  <2>4. ~MayEndShort => part = Whole(url, resp.ver)
    BY <2>3, PrefixComplete
  <2> QED
    BY <2>1, <2>2, <2>3, <2>4 DEF Intact, BeliefInv, StreamInv
<1>12. CASE Verify
  <2>1. CASE UNCHANGED disk /\ pc' = "idle"
    BY <1>0, <2>1, QuietStep
  <2>2. CASE UNCHANGED <<live, disk, url>> /\ pc' = "replace"
    <3>1. DiskInv'
      BY <1>0, <2>2, DiskStable DEF Intact
    <3> QED
      BY <1>12, <2>2, <3>1 DEF Verify, Intact, BeliefInv, StreamInv
  <2> QED
    BY <1>12, <2>1, <2>2 DEF Verify
<1>13. CASE Replace
  <2>1. /\ target' = part /\ part' = NoFile /\ pc' = "cleanup"
        /\ UNCHANGED <<live, sidecar, url>>
    BY <1>13 DEF Replace
  <2>2. ~MayEndShort => TargetIntact'
    BY <1>13, <1>a, <2>1 DEF Replace, Intact, StreamInv, TargetIntact
  <2>3. DiskInv'
    BY <2>1, <2>2 DEF Intact, DiskInv, NoSplice
  <2> QED
    BY <2>1, <2>3 DEF Intact, BeliefInv, StreamInv
<1>14. CASE Cleanup
  <2>1. CASE UNCHANGED disk
    BY <1>0, <1>14, <2>1, QuietStep DEF Cleanup
  <2>2. CASE UnlinkOneStagingFile /\ pc' = "cleanup" /\ UNCHANGED live
    <3>1. /\ UNCHANGED target
          /\ \/ part' = NoFile /\ UNCHANGED sidecar
             \/ sidecar' \notin Identity /\ UNCHANGED part
             \/ UNCHANGED <<part, sidecar>>
      BY <2>2, ServerAssumption, StagingAssumption DEF UnlinkOneStagingFile
    <3>2. DiskInv'
      BY <2>2, <3>1 DEF Intact, DiskInv, TargetIntact, NoSplice, Prefix
    <3> QED
      BY <2>2, <3>2 DEF Intact, BeliefInv, StreamInv
  <2> QED
    BY <1>14, <2>1, <2>2 DEF Cleanup
<1>15. CASE Interrupt
  BY <1>0, <1>15, QuietStep DEF Interrupt
<1>16. ASSUME NEW u \in Urls, Change(u) PROVE Intact'
  <2>1. UNCHANGED <<disk, pc, url, received, validator, resp>>
    BY <1>16 DEF Change, Publish
  <2>2. DiskInv'
    BY <1>0, <2>1, DiskStable DEF Intact
  <2>3. BeliefInv'
    BY <2>1 DEF Intact, BeliefInv
  <2>4. \A n \in 1..live[url] : n \in 1..live'[url]
    BY <1>0, <1>a, VersionsNat
  <2>5. StreamInv'
    BY <2>1, <2>4 DEF Intact, StreamInv, Prefix
  <2> QED
    BY <2>2, <2>3, <2>5 DEF Intact
<1>17. CASE UNCHANGED vars
  BY <1>17 DEF Intact, DiskInv, BeliefInv, StreamInv, TargetIntact, NoSplice, Prefix
<1> QED
  BY <1>1, <1>2, <1>3, <1>4, <1>5, <1>6, <1>7, <1>8, <1>9, <1>10, <1>11, <1>12,
     <1>13, <1>14, <1>15, <1>16, <1>17 DEF Next, Step, CheckTarget, Stream

(* The three invariants hold together in every reachable state.            *)
LEMMA IntactInvariant ==
  ASSUME Tagged, ~Rollback
  PROVE  Spec => [](TypeOK /\ CountInv /\ Intact)
<1>1. Init => TypeOK /\ CountInv /\ Intact
  BY TypeInit, IntactInit
<1>2. TypeOK /\ CountInv /\ Intact /\ [Next]_vars => (TypeOK /\ CountInv /\ Intact)'
  BY TypeStep, IntactStep
<1> QED
  BY <1>1, <1>2, PTL DEF Spec

(* The destination is never a mixture or a part: with a server that sends  *)
(* validators, whose revisions only move forward and whose bodies do not   *)
(* end short, no interrupt, drop or release between two reconnects can     *)
(* leave anything but one complete revision.                               *)
THEOREM TargetAlwaysIntact ==
  ASSUME Tagged, ~Rollback, ~MayEndShort
  PROVE  Spec => []TargetIntact
<1>1. Intact => TargetIntact
  BY DEF Intact, DiskInv
<1> QED
  BY <1>1, IntactInvariant, PTL

(* Nor is the staging file: what a resume builds on is a prefix, wherever  *)
(* bodies end.                                                             *)
THEOREM NeverSpliced ==
  ASSUME Tagged, ~Rollback
  PROVE  Spec => []NoSplice
<1>1. Intact => NoSplice
  BY DEF Intact, DiskInv
<1> QED
  BY <1>1, IntactInvariant, PTL

----------------------------------------------------------------------------
(* The implementation of the contract.  Most steps are invisible to the    *)
(* caller; the lemmas name what each visible one is to the contract.       *)
LEMMA ContractInit == Init => Contract!Init
  BY DEF Init, StagingInit, Contract!Init

(* Every step is a step of the contract or invisible to the caller.        *)
LEMMA ContractStep ==
  ASSUME Tagged, ~Rollback, ~MayEndShort, ~MayHideSize,
         TypeOK, TypeOK', Intact, CallInv, [Next]_vars
  PROVE  [Contract!Next]_(Contract!vars)
<1> USE DEF Contract!call, Contract!vars
<1>1. ASSUME NEW u \in Urls, NEW o \in BOOLEAN, NEW e \in Versions \cup {NoVersion},
             Call(u, o, e)
      PROVE  Contract!Begin
  BY <1>1 DEF Call, Contract!Begin
<1>2. CASE TargetAbsent \/ CheckTargetSize
  BY <1>2 DEF TargetAbsent, CheckTargetSize
<1>3. ASSUME NEW how \in Outcomes \ {"none", "done"}, pc # "idle", Raise(how)
      PROVE  Contract!Abort
  BY <1>3 DEF Contract!Abort
<1>4. CASE pc' = pc /\ UNCHANGED <<live, target, callArgs, outcome>>
  BY <1>4
<1>5. ASSUME NEW from, NEW to,
             from \in Labels \ {"idle", "cleanup"}, to \in Labels \ {"idle", "cleanup"},
             pc = from, pc' = to, UNCHANGED <<live, target, callArgs, outcome>>
      PROVE  UNCHANGED Contract!vars
  BY <1>5
<1>6. CASE CheckTargetDigest
  <2>1. CASE target = Whole(url, expect)
    BY <1>6, <2>1 DEF CheckTargetDigest, Contract!Accept, Contract!Next
  <2>2. CASE target # Whole(url, expect)
    BY <1>3, <1>6, <2>2 DEF CheckTargetDigest, Outcomes, Contract!Next
  <2> QED
    BY <2>1, <2>2
<1>7. CASE Probe
  <2>1. CASE Goto("cleanup") /\ UNCHANGED disk
    <3>1. Len(target) = Size[url][live[url]]
      BY <1>7, <2>1 DEF Probe, RetryOrRaise, Raise, End, Goto, ProbedTotals
    <3> QED
      BY <1>7, <2>1, <3>1 DEF Probe, CallInv, Contract!Accept, Contract!Next
  <2>2. CASE Raise("http") \/ Raise("identity") \/ Raise("transport")
    BY <1>3, <1>7, <2>2 DEF Probe, Outcomes, Contract!Next
  <2>3. CASE Goto("probe") /\ UNCHANGED disk
    BY <1>4, <1>7, <2>3 DEF Probe
  <2> QED
    BY <1>7, <2>1, <2>2, <2>3 DEF Probe, RetryOrRaise
<1>8. CASE Load
  <2>1. CASE Raise("decode") \/ Raise("identity")
    BY <1>3, <1>8, <2>1 DEF Load, Outcomes, Contract!Next
  <2>2. CASE Goto("open") /\ UNCHANGED disk
    BY <1>8, <2>2 DEF Load
  <2> QED
    BY <1>8, <2>1, <2>2 DEF Load
<1>9. CASE OpenPart \/ WriteState \/ Chunk \/ EndOfBody
  BY <1>9 DEF OpenPart, WriteState, Chunk, EndOfBody
<1>10. CASE Connect \/ Drop
  <2>1. CASE Raise("http") \/ Raise("transport")
    BY <1>3, <1>10, <2>1 DEF Connect, Drop, Outcomes, Contract!Next
  <2>2. CASE (Goto("connect") \/ Goto("head")) /\ UNCHANGED disk
    BY <1>10, <2>2 DEF Connect, Drop
  <2> QED
    BY <1>10, <2>1, <2>2 DEF Connect, Drop, RetryOrRaise
<1>11. CASE HandleHead
  <2>1. CASE Raise("http") \/ Raise("lost")
    BY <1>3, <1>11, <2>1 DEF HandleHead, Outcomes, Contract!Next
  <2>2. CASE (Goto("state") \/ Goto("body")) /\ UNCHANGED target
    BY <1>11, <2>2 DEF HandleHead
  <2> QED
    BY <1>11, <2>1, <2>2 DEF HandleHead
<1>12. CASE Verify
  <2>1. CASE Raise("mismatch")
    BY <1>3, <1>12, <2>1 DEF Verify, Outcomes, Contract!Next
  <2>2. CASE Goto("replace") /\ UNCHANGED disk
    BY <1>12, <2>2 DEF Verify
  <2> QED
    BY <1>12, <2>1, <2>2 DEF Verify
<1>13. CASE Replace
  <2>1. overwrite \/ target = NoFile
    BY <1>13 DEF Replace, CallInv, Labels
  <2>2. PICK n \in 1..live[url] : part = Whole(url, n)
    BY <1>13 DEF Replace, Intact, StreamInv
  <2>3. expect # NoVersion => part = Whole(url, expect)
    BY <1>13 DEF Replace, CallInv
  <2>4. Contract!Publish
    BY <1>13, <2>1, <2>2, <2>3 DEF Replace, Contract!Publish
  <2> QED
    BY <2>4 DEF Contract!Next
<1>14. CASE Cleanup
  <2>1. CASE End("done") /\ UNCHANGED disk
    BY <1>14, <2>1 DEF Cleanup, Contract!Succeed, Contract!Next
  <2>2. CASE Goto("cleanup") /\ UNCHANGED target
    BY <1>14, <1>4, <2>2 DEF Cleanup
  <2> QED
    BY <1>14, <2>1, <2>2 DEF Cleanup, UnlinkOneStagingFile
<1>15. CASE Interrupt
  BY <1>3, <1>15 DEF Interrupt, Outcomes, Contract!Next
<1>16. ASSUME NEW u \in Urls, Change(u) PROVE Contract!Change
  BY <1>16 DEF Change, Publish, Contract!Change
<1>17. CASE UNCHANGED vars
  BY <1>17
<1> QED
  BY <1>1, <1>2, <1>6, <1>7, <1>8, <1>9, <1>10, <1>11, <1>12, <1>13, <1>14, <1>15,
     <1>16, <1>17 DEF Next, Step, CheckTarget, Stream, Contract!Next

(* A download implements the contract: for a server that sends validators, *)
(* never goes back, sends bodies whole and says the size of what it has,   *)
(* the destination moves, or is accepted, only as the caller was told.     *)
THEOREM DownloadImplementsContract ==
  ASSUME Tagged, ~Rollback, ~MayEndShort, ~MayHideSize
  PROVE  Spec => ImplementsContract
<1>1. Init => Contract!Init
  BY ContractInit
<1>2. /\ TypeOK /\ CountInv /\ Intact /\ CallInv
      /\ (TypeOK /\ CountInv /\ Intact)'
      /\ [Next]_vars
      => [Contract!Next]_(Contract!vars)
  BY ContractStep
<1> QED
  BY <1>1, <1>2, IntactInvariant, CallInvariant, PTL
     DEF Spec, ImplementsContract, Contract!Spec

----------------------------------------------------------------------------
(* What a call may do to staged bytes, on any server.                      *)
LEMMA OwnInit == Init => OwnInv
  BY DEF Init, OwnInv

(* Every step keeps the ownership of the .part file.                       *)
LEMMA OwnStep ==
  ASSUME TypeOK, TypeOK', CountInv, OwnInv, [Next]_vars
  PROVE  OwnInv'
<1> USE DEF OwnInv, Own
<1>1. ASSUME NEW u \in Urls, NEW o \in BOOLEAN, NEW e \in Versions \cup {NoVersion},
             Call(u, o, e)
      PROVE  OwnInv'
  BY <1>1 DEF Call
<1>2. CASE TargetAbsent \/ CheckTargetDigest \/ CheckTargetSize
  BY <1>2 DEF TargetAbsent, CheckTargetDigest, CheckTargetSize
<1>3. CASE Probe
  BY <1>3 DEF Probe, RetryOrRaise
<1>4. CASE Load
  <2>1. CASE pc' = "idle"
    BY <2>1
  <2>2. CASE /\ pc' = "open" /\ received' = 0 /\ validator' = NoTag
             /\ UNCHANGED <<disk, url, overwrite>>
             /\ Resumable => sidecar.url # url /\ overwrite
    BY <2>2, ServerAssumption, StagingAssumption DEF Resumable
  <2>3. CASE /\ Resumable /\ sidecar # Torn /\ sidecar.url = url /\ pc' = "open"
             /\ received' = Len(part) /\ validator' = sidecar.tag
             /\ UNCHANGED <<disk, url>>
    <3>1. sidecar \in Identity /\ part \in File
      BY <2>3 DEF TypeOK, StagingTypeOK, Sidecar, Resumable
    <3>2. part # <<>> => Len(part) > 0
      BY <3>1, FileLength
    <3> QED
      BY <2>3, <3>1, <3>2
  <2> QED
    BY <1>4, <2>1, <2>2, <2>3 DEF Load
<1>5. CASE OpenPart
  BY <1>5 DEF OpenPart
<1>6. CASE Connect
  BY <1>6 DEF Connect, RetryOrRaise
<1>7. CASE HandleHead
  BY <1>7 DEF HandleHead
<1>8. CASE WriteState
  <2>1. Tag(resp.ver) \in {NoTag} \cup Versions
    BY DEF TypeOK, Response, Tag
  <2> QED
    BY <1>8, <2>1 DEF WriteState, DownloadState, Identity, TypeOK
<1>9. CASE Chunk
  BY <1>9 DEF Chunk
<1>10. CASE Drop
  BY <1>10 DEF Drop, RetryOrRaise
<1>11. CASE EndOfBody \/ Verify
  BY <1>11 DEF EndOfBody, Verify
<1>12. CASE Replace \/ Cleanup
  BY <1>12 DEF Replace, Cleanup
<1>13. CASE Interrupt
  BY <1>13 DEF Interrupt
<1>14. ASSUME NEW u \in Urls, Change(u) PROVE OwnInv'
  BY <1>14 DEF Change, Publish
<1>15. CASE UNCHANGED vars
  BY <1>15
<1> QED
  BY <1>1, <1>2, <1>3, <1>4, <1>5, <1>6, <1>7, <1>8, <1>9, <1>10, <1>11, <1>12,
     <1>13, <1>14, <1>15 DEF Next, Step, CheckTarget, Stream

(* Which steps touch the .part file at all, and how.                       *)
LEMMA PartMoves ==
  ASSUME TypeOK, CountInv, [Next]_vars, part' # part
  PROVE  \/ pc = "open" /\ received = 0 /\ part' = <<>>
         \/ /\ pc = "body" /\ part \in File
            /\ \E b \in Byte : part' = Append(part, b)
         \/ pc \in {"replace", "cleanup"}
<1>1. CASE OpenPart
  BY <1>1 DEF OpenPart, TypeOK
<1>2. CASE Chunk
  <2>1. <<url, resp.ver, resp.at + 1>> \in Byte
    <3>1. url \in Urls /\ resp.ver \in Versions /\ resp.at + 1 \in Nat \ {0}
      BY DEF TypeOK, Response
    <3> QED
      BY <3>1 DEF Byte
  <2>2. part \in File /\ part' = Append(part, <<url, resp.ver, resp.at + 1>>) /\ pc = "body"
    BY <1>2 DEF Chunk, CountInv, TypeOK, StagingTypeOK
  <2> QED
    BY <2>1, <2>2
<1>3. CASE Replace \/ Cleanup
  BY <1>3 DEF Replace, Cleanup
<1>4. ASSUME NEW u \in Urls, NEW o \in BOOLEAN, NEW e \in Versions \cup {NoVersion},
             Call(u, o, e)
      PROVE  FALSE
  BY <1>4 DEF Call
<1>5. CASE TargetAbsent \/ CheckTargetDigest \/ CheckTargetSize \/ Probe \/ Load
  BY <1>5 DEF TargetAbsent, CheckTargetDigest, CheckTargetSize, Probe, Load, RetryOrRaise
<1>6. CASE Connect \/ HandleHead \/ WriteState \/ Drop \/ EndOfBody \/ Verify
  BY <1>6 DEF Connect, HandleHead, WriteState, Drop, EndOfBody, Verify, RetryOrRaise
<1>7. CASE Interrupt \/ UNCHANGED vars
  BY <1>7 DEF Interrupt
<1>8. ASSUME NEW u \in Urls, Change(u) PROVE FALSE
  BY <1>8 DEF Change, Publish
<1> QED
  BY <1>1, <1>2, <1>3, <1>4, <1>5, <1>6, <1>7, <1>8 DEF Next, Step, CheckTarget, Stream

(* The ownership of the .part file in every reachable state.               *)
LEMMA OwnInvariant == Spec => [](TypeOK /\ CountInv /\ OwnInv)
<1>1. Init => TypeOK /\ CountInv /\ OwnInv
  BY TypeInit, OwnInit
<1>2. TypeOK /\ CountInv /\ OwnInv /\ [Next]_vars => (TypeOK /\ CountInv /\ OwnInv)'
  BY TypeStep, OwnStep
<1> QED
  BY <1>1, <1>2, PTL DEF Spec

(* Another resource's staged bytes survive a call that was not allowed to  *)
(* overwrite, on any server.                                               *)
THEOREM ForeignBytesKept == Spec => ForeignPartKept
<1> DEFINE Foreign == /\ sidecar \in Identity /\ sidecar.url # url /\ ~overwrite
                      /\ part \notin {NoFile, <<>>} /\ pc \notin {"idle", "cleanup"}
<1>1. TypeOK /\ CountInv /\ OwnInv /\ [Next]_vars => [Foreign => part' = part]_vars
  <2> SUFFICES ASSUME TypeOK, CountInv, OwnInv, [Next]_vars, Foreign, part' # part
               PROVE  FALSE
    OBVIOUS
  <2>1. (pc = "open" /\ received = 0) \/ pc \in {"body", "replace"}
    BY PartMoves
  <2> QED
    BY <2>1 DEF OwnInv, Own
<1> QED
  BY <1>1, OwnInvariant, PTL DEF Spec, ForeignPartKept

(* Appending keeps what a file starts with.                                *)
LEMMA AppendExtends ==
  ASSUME NEW f \in File, NEW b \in Byte
  PROVE  /\ Append(f, b) \in File
         /\ Len(Append(f, b)) >= Len(f)
         /\ SubSeq(Append(f, b), 1, Len(f)) = f
  BY DEF File

(* Bytes staged for the resource being downloaded are only added to.       *)
THEOREM ResumableBytesKept == Spec => ResumableKept
<1> DEFINE Held0 == /\ sidecar \in Identity /\ sidecar.url = url /\ part # NoFile
                    /\ pc \notin {"idle", "replace", "cleanup"}
           Grown == /\ part' # NoFile
                    /\ Len(part') >= Len(part)
                    /\ SubSeq(part', 1, Len(part)) = part
<1>1. TypeOK /\ CountInv /\ OwnInv /\ [Next]_vars => [Held0 => Grown]_vars
  <2> SUFFICES ASSUME TypeOK, CountInv, OwnInv, [Next]_vars, Held0
               PROVE  Grown
    OBVIOUS
  <2>1. part \in File
    BY DEF TypeOK, StagingTypeOK
  <2>2. CASE part' = part
    BY <2>1, <2>2 DEF File
  <2>3. CASE pc = "open" /\ received = 0 /\ part' = <<>>
    <3>1. part = <<>>
      BY <2>3 DEF OwnInv
    <3> QED
      BY <2>1, <2>2, <2>3, <3>1
  <2>4. ASSUME NEW b \in Byte, part' = Append(part, b) PROVE Grown
    BY <2>1, <2>4, AppendExtends, ServerAssumption, StagingAssumption
  <2> QED
    BY <2>2, <2>3, <2>4, PartMoves
<1> QED
  BY <1>1, OwnInvariant, PTL DEF Spec, ResumableKept
=============================================================================
