-------------------------- MODULE ResumableStream --------------------------
(***************************************************************************)
(* A byte stream with resumable= (src/mxhttp/response.py): the generator   *)
(* of resumable_stream_sync and resumable_stream_async, which reconnects   *)
(* with Range when the connection drops and hands each chunk to a caller   *)
(* who may stop reading at any of them.                                    *)
(*                                                                         *)
(* The caller gets the decoded body (httpx undoes Content-Encoding) while  *)
(* Range counts bytes of the encoded one: Packing[u] bytes are decoded     *)
(* from each encoded byte of resource u.  A byte of the body is            *)
(* <<version, offset>>.                                                    *)
(***************************************************************************)
EXTENDS RangeServer, SequencesExt

CONSTANTS
  Attempts,   \* Retry.attempts
  Packing     \* Packing[u]: decoded bytes per encoded byte; 1: no Content-Encoding

ASSUME StreamAssumption ==
  Attempts \in Nat \ {0} /\ Packing \in [Urls -> Nat \ {0}]

VARIABLES
  pc,         \* where the generator is, "idle" between calls
  url,
  yielded,    \* what the caller has been given
  received,   \* len of it, as the generator counts
  validator,
  attempt,
  resp,
  outcome

locals == <<received, validator, attempt, resp>>
vars == <<live, pc, url, yielded, locals, outcome>>

Labels == {"idle", "connect", "head", "body", "yielded"}
Outcomes == {"none", "done", "transport", "http", "lost", "closed"}

(* The first k bytes of revision n, decoded; and all Size of them.         *)
Decoded(n, k) == [i \in 1..k |-> <<n, i>>]
WholeBody(u, n) == Decoded(n, Packing[u] * Size[u][n])

Init ==
  /\ live = [u \in Urls |-> 1]
  /\ pc = "idle" /\ url \in Urls /\ yielded = <<>> /\ outcome = "none"
  /\ received = 0 /\ validator = NoTag /\ attempt = 0 /\ resp = NoResponse

Goto(label) == pc' = label /\ UNCHANGED <<live, url, outcome>>

(* The generator ends; its with blocks close the response and give back    *)
(* the concurrency slot.                                                   *)
End(how) ==
  /\ pc' = "idle" /\ outcome' = how
  /\ received' = 0 /\ validator' = NoTag /\ attempt' = 0 /\ resp' = NoResponse
  /\ UNCHANGED <<live, url, yielded>>

Call(u) ==
  /\ pc = "idle"
  /\ pc' = "connect" /\ url' = u /\ yielded' = <<>> /\ outcome' = "none"
  /\ UNCHANGED <<live, locals>>

(* Mutant of RetryOrRaise: failures are not counted.                       *)
RetryForever ==
  /\ Goto("connect") /\ resp' = NoResponse
  /\ UNCHANGED <<yielded, received, validator, attempt>>

(* A failure of the current attempt, of a budget that progress does not    *)
(* refill.                                                                 *)
RetryOrRaise ==
  \/ /\ attempt + 1 < Attempts
     /\ attempt' = attempt + 1 /\ resp' = NoResponse
     /\ Goto("connect") /\ UNCHANGED <<yielded, received, validator>>
  \/ attempt + 1 >= Attempts /\ End("transport")

Connect ==
  /\ pc = "connect"
  /\ \/ /\ resp' \in Responses(url, received, validator)
        /\ Goto("head") /\ UNCHANGED <<yielded, received, validator, attempt>>
     \/ RetryOrRaise
     \/ End("http")

(* Mutant of HandleHead: any status that is not an error is taken for a    *)
(* 206.                                                                    *)
HeadTrusting ==
  /\ pc = "head"
  /\ \/ resp.status = 416 /\ End("http")
     \/ /\ resp.status # 416
        /\ validator' = IF validator = NoTag THEN Tag(resp.ver) ELSE validator
        /\ Goto("body") /\ UNCHANGED <<yielded, received, attempt, resp>>

(* The streaming response handler, the check for a lost resume, and the    *)
(* validator, which is taken from the first response that has one.         *)
HandleHead ==
  /\ pc = "head"
  /\ \/ resp.status = 416 /\ End("http")
     \/ resp.status = 200 /\ received > 0 /\ End("lost")
     \/ /\ resp.status = 206 \/ (resp.status = 200 /\ received = 0)
        /\ validator' = IF validator = NoTag THEN Tag(resp.ver) ELSE validator
        /\ Goto("body") /\ UNCHANGED <<yielded, received, attempt, resp>>

(* A decoder that starts in the middle of an encoded body fails, with an   *)
(* error Retry.on does not list.                                           *)
Decodable == Packing[url] = 1 \/ resp.status = 200

Chunk ==
  /\ pc = "body" /\ resp.at < Size[url][resp.ver] /\ Decodable
  /\ yielded' = yielded \o [k \in 1..Packing[url] |-> <<resp.ver, Packing[url] * resp.at + k>>]
  /\ received' = received + Packing[url]
  /\ resp' = NextByte(resp)
  /\ Goto("yielded") /\ UNCHANGED <<validator, attempt>>

(* httpx.DecodingError.                                                    *)
Undecodable == pc = "body" /\ resp.at < Size[url][resp.ver] /\ ~Decodable /\ End("http")

(* The caller asks for more.                                               *)
Resume == pc = "yielded" /\ Goto("body") /\ UNCHANGED <<yielded, locals>>

(* The caller closes the generator, or is interrupted or cancelled.        *)
Close == pc # "idle" /\ End("closed")

(* Mutant of Drop: a dropped connection is taken for the end of the body.  *)
DropAsEnd == pc = "body" /\ End("done")

Drop == pc = "body" /\ RetryOrRaise

(* The generator returns whenever the body ends: what was received is not  *)
(* compared with the size of the resource.                                 *)
EndOfBody == pc = "body" /\ MayEnd(url, resp) /\ End("done")

Change(u) == Publish(u) /\ UNCHANGED <<pc, url, yielded, locals, outcome>>

Step ==
  \/ Connect \/ HandleHead \/ Chunk \/ Undecodable \/ Drop \/ EndOfBody

Next ==
  \/ \E u \in Urls : Call(u) \/ Change(u)
  \/ Step \/ Resume \/ Close

Spec == Init /\ [][Next]_vars

(* The generator runs while it is being read, and the caller reads on.     *)
FairSpec == Spec /\ WF_vars(Step \/ Resume)

----------------------------------------------------------------------------
TypeOK ==
  /\ live \in [Urls -> Versions]
  /\ pc \in Labels /\ url \in Urls /\ outcome \in Outcomes
  /\ yielded \in Seq(Versions \X (Nat \ {0}))
  /\ received \in Nat /\ validator \in Versions \cup {NoTag}
  /\ attempt \in 0..(Attempts - 1)
  /\ resp \in Response

(* README.md:395: a stream never splices: what the caller was given, over  *)
(* all reconnects, is the start of one revision, without a gap or a byte   *)
(* twice.                                                                  *)
NeverSplices ==
  \E n \in 1..live[url] : IsPrefix(yielded, WholeBody(url, n))

(* A stream that ended without an exception gave the caller all of it.     *)
DoneMeansWhole ==
  outcome = "done" => \E n \in 1..live[url] : yielded = WholeBody(url, n)

(* A stream ends if its caller reads on.                                   *)
StreamEnds == (pc # "idle") ~> (pc = "idle")

(* README.md:384 "reconnect with a `Range` request instead of restarting   *)
(* from scratch if the connection drops mid-download": so a reconnect to   *)
(* an unchanged resource is not answered by a 416, nor undecodable.        *)
ReconnectContinues ==
  /\ ~(pc = "head" /\ resp.status = 416)
  /\ pc = "body" => Decodable
=============================================================================
