------------------------ MODULE ResumableStreamProofs ------------------------
(***************************************************************************)
(* Proofs about ResumableStream: for resources of any size and encoding,   *)
(* any number of revisions and of attempts, what a caller is given is the  *)
(* start of one revision.                                                  *)
(***************************************************************************)
EXTENDS ResumableStream, SequenceTheorems, TLAPS

(* The caller has been given the start of revision n.                      *)
GivenOf(n) ==
  /\ yielded = Decoded(n, Len(yielded))
  /\ Len(yielded) <= Packing[url] * Size[url][n]

(* What the generator believes: it has counted what it gave, and its       *)
(* validator, once it gave something, is no newer than that.               *)
BeliefInv ==
  /\ pc # "idle" => received = Len(yielded) /\ (received > 0 => validator # NoTag)
  /\ pc = "idle" => received = 0 /\ validator = NoTag
  /\ validator <= live[url]
  /\ \E n \in 1..live[url] : GivenOf(n) /\ (received > 0 => validator <= n)

(* The response it reads continues what the caller was given, at the byte  *)
(* the caller is at, unless the generator is about to find that it is lost. *)
RespInv ==
  pc \in {"head", "body", "yielded"} =>
    /\ resp.ver <= live[url] /\ validator <= resp.ver
    /\ resp.status = 206 \/ received = 0 \/ pc # "head" => GivenOf(resp.ver)
    /\ resp.status = 206 /\ pc = "head" => resp.at = received /\ received > 0
    /\ resp.status = 206 /\ Packing[url] # 1 => resp.at < Size[url][resp.ver]
    /\ resp.status = 200 /\ pc = "head" => resp.at = 0
    /\ pc # "head" =>
         /\ resp.status \in {200, 206} /\ resp.at <= Size[url][resp.ver]
         /\ validator # NoTag
         /\ Decodable => received = Packing[url] * resp.at
    /\ resp.status = 206 => resp.at <= Size[url][resp.ver]

DoneInv == outcome = "done" => pc = "idle" /\ (~MayEndShort => DoneMeansWhole)

StreamInv == TypeOK /\ BeliefInv /\ RespInv /\ DoneInv

----------------------------------------------------------------------------
(* Bodies.                                                                 *)

(* The bytes after the first a of a body make them the first a + p.        *)
LEMMA DecodedMore ==
  ASSUME NEW n, NEW a \in Nat, NEW p \in Nat
  PROVE  Decoded(n, a) \o [k \in 1..p |-> <<n, a + k>>] = Decoded(n, a + p)
<1> DEFINE s == Decoded(n, a)
           t == [k \in 1..p |-> <<n, a + k>>]
           B == {n} \X Nat
<1>1. s \in Seq(B) /\ Len(s) = a /\ \A i \in 1..a : s[i] = <<n, i>>
  BY DEF Decoded
<1>2. t \in Seq(B) /\ Len(t) = p /\ \A i \in 1..p : t[i] = <<n, a + i>>
  OBVIOUS
<1>3. Decoded(n, a + p) \in Seq(B) /\ Len(Decoded(n, a + p)) = a + p
      /\ \A i \in 1..(a + p) : Decoded(n, a + p)[i] = <<n, i>>
  BY DEF Decoded
<1> DEFINE w == s \o t
<1> HIDE DEF s, t, B
<1>4. /\ w \in Seq(B) /\ Len(w) = a + p
      /\ \A i \in 1..(a + p) : w[i] = IF i <= a THEN s[i] ELSE t[i - a]
  BY <1>1, <1>2, ConcatProperties
<1> HIDE DEF w
<1>5. ASSUME NEW i \in 1..(a + p) PROVE w[i] = <<n, i>>
  <2>1. CASE i <= a
    BY <1>1, <1>4, <2>1
  <2>2. CASE ~(i <= a)
    <3>1. i - a \in 1..p /\ a + (i - a) = i
      BY <2>2
    <3>2. t[i - a] = <<n, i>>
      BY <1>2, <3>1
    <3> QED
      BY <1>4, <2>2, <3>2
  <2> QED
    BY <2>1, <2>2
<1>6. w = Decoded(n, a + p)
  BY <1>3, <1>4, <1>5, SeqEqual
<1> QED
  BY <1>6 DEF s, t, w

(* A run of bytes of one revision.                                         *)
LEMMA RunOfBytes ==
  ASSUME NEW n \in Versions, NEW a \in Nat, NEW p \in Nat
  PROVE  [k \in 1..p |-> <<n, a + k>>] \in Seq(Versions \X (Nat \ {0}))
  OBVIOUS

(* Decoding more of a body gives at least as much.                         *)
LEMMA PackingMonotonic ==
  ASSUME NEW p \in Nat, NEW a \in Nat, NEW b \in Nat, a <= b
  PROVE  p * a <= p * b
  OBVIOUS

(* What is given of a revision is a prefix of it.                          *)
LEMMA GivenIsPrefix ==
  ASSUME NEW u \in Urls, NEW n \in Versions, url = u, GivenOf(n),
         yielded \in Seq(Versions \X (Nat \ {0}))
  PROVE  IsPrefix(yielded, WholeBody(u, n))
<1> DEFINE m == Packing[u] * Size[u][n]
<1>1. m \in Nat
  BY StreamAssumption, ServerAssumption
<1> HIDE DEF m
<1>2. Len(yielded) \in Nat /\ Len(yielded) <= m
  BY DEF GivenOf, m
<1>3. WholeBody(u, n) = Decoded(n, m)
  BY DEF WholeBody, m
<1>4. Len(Decoded(n, m)) = m
  BY <1>1 DEF Decoded
<1>5. SubSeq(Decoded(n, m), 1, Len(yielded)) = Decoded(n, Len(yielded))
  BY <1>1, <1>2 DEF Decoded
<1>6. SubSeq(yielded, 1, Len(yielded)) = Decoded(n, Len(yielded))
  BY <1>2 DEF GivenOf, Decoded
<1> QED
  BY <1>2, <1>3, <1>4, <1>5, <1>6 DEF IsPrefix

----------------------------------------------------------------------------
(* The steps.                                                              *)

(* Nothing is given before the first call.                                 *)
LEMMA StreamInit == Init => StreamInv
<1> SUFFICES ASSUME Init PROVE StreamInv
  OBVIOUS
<1>1. TypeOK
  BY StreamAssumption, ServerAssumption
  DEF Init, TypeOK, Versions, Labels, Outcomes, NoTag, NoResponse, Response
<1>2. GivenOf(1)
  BY StreamAssumption, ServerAssumption DEF Init, GivenOf, Decoded, Versions
<1>3. BeliefInv
  BY <1>2 DEF Init, BeliefInv, NoTag
<1> QED
  BY <1>1, <1>3 DEF Init, StreamInv, RespInv, DoneInv

(* Every step keeps the types.                                             *)
LEMMA StreamTypes == TypeOK /\ [Next]_vars => TypeOK'
<1> SUFFICES ASSUME TypeOK, [Next]_vars PROVE TypeOK'
  OBVIOUS
<1> USE DEF TypeOK, locals
<1>1. CASE UNCHANGED vars
  BY <1>1 DEF vars
<1>0. NoResponse \in Response /\ 0 \in 0..(Attempts - 1)
  BY StreamAssumption, ServerAssumption DEF NoResponse, Response, Versions
<1>2. ASSUME NEW how \in Outcomes, End(how) PROVE TypeOK'
  BY <1>0, <1>2 DEF End, Labels, NoTag
<1>3. CASE RetryOrRaise
  <2>1. CASE /\ attempt + 1 < Attempts /\ attempt' = attempt + 1 /\ resp' = NoResponse
             /\ Goto("connect") /\ UNCHANGED <<yielded, received, validator>>
    <3>1. attempt' \in 0..(Attempts - 1)
      BY <2>1, StreamAssumption
    <3> QED
      BY <1>0, <2>1, <3>1 DEF Goto, Labels
  <2> QED
    BY <1>2, <1>3, <2>1 DEF RetryOrRaise, Outcomes
<1>4. ASSUME NEW u \in Urls, Call(u) PROVE TypeOK'
  BY <1>4 DEF Call, Labels, Outcomes
<1>5. ASSUME NEW u \in Urls, Change(u) PROVE TypeOK'
  BY <1>5 DEF Change, Publish
<1>6. CASE Connect
  <2>1. Responses(url, received, validator) \subseteq Response
    BY ServerAssumption DEF Responses, Response, Full, Partial, Unsatisfiable
  <2> QED
    BY <1>2, <1>3, <1>6, <2>1 DEF Connect, Goto, Labels, Outcomes
<1>7. CASE HandleHead
  BY <1>2, <1>7 DEF HandleHead, Goto, Labels, Outcomes, Tag, NoTag, Response
<1>8. CASE Chunk
  <2> DEFINE more == [k \in 1..Packing[url] |-> <<resp.ver, Packing[url] * resp.at + k>>]
  <2>1. Packing[url] \in Nat \ {0} /\ resp.ver \in Versions /\ resp.at \in Nat
    BY StreamAssumption DEF Response
  <2>2. Packing[url] * resp.at \in Nat
    BY <2>1
  <2>3. more \in Seq(Versions \X (Nat \ {0}))
    BY <2>1, <2>2, RunOfBytes
  <2> HIDE DEF more
  <2>4. yielded \o more \in Seq(Versions \X (Nat \ {0}))
    BY <2>3
  <2>5. NextByte(resp) \in Response
    BY DEF NextByte, Response
  <2> QED
    BY <1>8, <2>1, <2>4, <2>5 DEF Chunk, Goto, Labels, more
<1>9. CASE Undecodable \/ Drop \/ EndOfBody \/ Close
  BY <1>2, <1>3, <1>9 DEF Undecodable, Drop, EndOfBody, Close, Outcomes
<1>10. CASE Resume
  BY <1>10 DEF Resume, Goto, Labels
<1> QED
  BY <1>1, <1>4, <1>5, <1>6, <1>7, <1>8, <1>9, <1>10 DEF Next, Step

(* What has been given survives new revisions.                             *)
LEMMA LiveGrows ==
  ASSUME ~Rollback, TypeOK, NEW u \in Urls, Publish(u)
  PROVE  \A v \in Urls : live[v] \in Nat /\ live'[v] \in Nat /\ live[v] <= live'[v]
<1>1. PICK n \in Versions \ {live[u]} : n > live[u] /\ live' = [live EXCEPT ![u] = n]
  BY DEF Publish
<1>2. live \in [Urls -> Versions] /\ Versions \subseteq Nat
  BY DEF TypeOK, Versions
<1> TAKE v \in Urls
<1>3. live[v] \in Nat /\ live[u] \in Nat /\ n \in Nat /\ live'[u] = n
  BY <1>1, <1>2
<1>4. CASE v = u
  BY <1>1, <1>3, <1>4
<1>5. CASE v # u
  BY <1>1, <1>2, <1>3, <1>5
<1> QED
  BY <1>4, <1>5

(* The end of a call leaves what was given.                                *)
LEMMA EndKeeps ==
  ASSUME StreamInv, NEW how \in Outcomes \ {"done"}, End(how)
  PROVE  (BeliefInv /\ RespInv /\ DoneInv)'
<1>1. PICK n \in 1..live[url] : GivenOf(n)
  BY DEF StreamInv, BeliefInv
<1>2. live[url] \in Nat
  BY ServerAssumption DEF StreamInv, TypeOK, Versions
<1>3. BeliefInv'
  BY <1>1, <1>2 DEF End, BeliefInv, GivenOf, NoTag
<1> QED
  BY <1>3 DEF End, RespInv, DoneInv

(* So does another attempt.                                                *)
LEMMA RetryKeeps ==
  ASSUME StreamInv, pc # "idle", RetryOrRaise
  PROVE  (BeliefInv /\ RespInv /\ DoneInv)'
<1>1. CASE /\ attempt' = attempt + 1 /\ resp' = NoResponse
           /\ Goto("connect") /\ UNCHANGED <<yielded, received, validator>>
  <2>1. BeliefInv'
    BY <1>1 DEF Goto, StreamInv, BeliefInv, GivenOf
  <2> QED
    BY <1>1, <2>1 DEF Goto, StreamInv, RespInv, DoneInv
<1>2. CASE End("transport")
  BY <1>2, EndKeeps DEF Outcomes
<1> QED
  BY <1>1, <1>2 DEF RetryOrRaise

(* A response is what the server has now, from the byte that is next.      *)
LEMMA ConnectKeeps ==
  ASSUME Tagged, StreamInv, Connect
  PROVE  (BeliefInv /\ RespInv /\ DoneInv)'
<1>1. CASE resp' \in Responses(url, received, validator) /\ Goto("head")
           /\ UNCHANGED <<yielded, received, validator, attempt>>
  <2>0. pc' = "head" /\ UNCHANGED <<live, url, yielded, received, validator>>
    BY <1>1 DEF Goto
  <2>1. BeliefInv'
    BY <1>1 DEF Connect, Goto, StreamInv, BeliefInv, GivenOf
  <2>2. DoneInv'
    BY <1>1 DEF Connect, Goto, StreamInv, DoneInv
  <2>3. live[url] \in Nat /\ received \in Nat /\ received = Len(yielded) /\ validator \in Nat
    BY ServerAssumption DEF Connect, StreamInv, TypeOK, BeliefInv, Versions, NoTag
  <2>4. PICK n \in 1..live[url] : GivenOf(n) /\ (received > 0 => validator <= n)
    BY DEF StreamInv, BeliefInv
  <2>5. validator <= live[url] /\ (received > 0 => validator # NoTag)
    BY DEF Connect, StreamInv, BeliefInv
  <2>6. CASE resp' = Full(url)
    <3>1. resp'.status = 200 /\ resp'.ver = live[url] /\ resp'.at = 0
      BY <2>6 DEF Full
    <3>2. received = 0 => GivenOf(live[url])
      BY <2>3, <2>4, StreamAssumption, ServerAssumption
      DEF GivenOf, Decoded, StreamInv, TypeOK, Versions
    <3>3. (received = 0 => GivenOf(resp.ver))'
      BY <2>0, <3>1, <3>2 DEF GivenOf
    <3> QED
      BY <2>0, <2>1, <2>2, <2>3, <2>5, <3>1, <3>3 DEF RespInv
  <2>7. CASE resp' = Unsatisfiable(url) /\ received > 0
    <3>1. resp'.status = 416 /\ resp'.ver = live[url]
      BY <2>7 DEF Unsatisfiable
    <3> QED
      BY <2>0, <2>1, <2>2, <2>3, <2>5, <2>7, <3>1 DEF RespInv
  <2>8. CASE /\ resp' = Partial(url, received) /\ received > 0
             /\ received < Size[url][live[url]] /\ validator = live[url]
    <3>1. resp'.status = 206 /\ resp'.ver = live[url] /\ resp'.at = received
      BY <2>8 DEF Partial
    <3>2. n = live[url]
      BY <2>3, <2>4, <2>8
    <3>3. GivenOf(live[url])
      BY <2>4, <3>2
    <3>4. received <= Size[url][live[url]]
      BY <2>3, <2>8, ServerAssumption DEF StreamInv, TypeOK
    <3> QED
      BY <1>1, <2>1, <2>2, <2>5, <2>8, <3>1, <3>3, <3>4 DEF Goto, RespInv, GivenOf
  <2> QED
    BY <1>1, <2>3, <2>5, <2>6, <2>7, <2>8 DEF Responses, Tag
<1>2. CASE RetryOrRaise
  BY <1>2, RetryKeeps DEF Connect
<1>3. CASE End("http")
  BY <1>3, EndKeeps DEF Outcomes
<1> QED
  BY <1>1, <1>2, <1>3 DEF Connect

(* A body is read if it is a continuation, or nothing was given yet.       *)
LEMMA HeadKeeps ==
  ASSUME Tagged, StreamInv, HandleHead
  PROVE  (BeliefInv /\ RespInv /\ DoneInv)'
<1>1. CASE /\ resp.status = 206 \/ (resp.status = 200 /\ received = 0)
           /\ validator' = IF validator = NoTag THEN Tag(resp.ver) ELSE validator
           /\ Goto("body") /\ UNCHANGED <<yielded, received, attempt, resp>>
  <2>1. /\ resp.ver \in Versions /\ resp.at \in Nat /\ live[url] \in Versions
        /\ validator \in Versions \cup {NoTag} /\ received \in Nat
        /\ Packing[url] \in Nat \ {0} /\ Size[url][resp.ver] \in Nat
    BY StreamAssumption, ServerAssumption DEF StreamInv, TypeOK, Response
  <2>2. /\ resp.ver <= live[url] /\ validator <= resp.ver /\ GivenOf(resp.ver)
        /\ resp.status = 206 => /\ resp.at = received /\ received > 0
                                /\ resp.at <= Size[url][resp.ver]
                                /\ Packing[url] # 1 => resp.at < Size[url][resp.ver]
        /\ resp.status = 200 => resp.at = 0
    BY <1>1 DEF HandleHead, StreamInv, RespInv
  <2>3. validator' # NoTag /\ validator' <= resp.ver /\ validator' <= live[url]
    BY <1>1, <2>1, <2>2 DEF Tag, NoTag, Versions
  <2>4. BeliefInv'
    <3>1. resp.ver \in 1..live[url]
      BY <2>1, <2>2 DEF Versions
    <3> QED
      BY <1>1, <2>2, <2>3, <3>1 DEF HandleHead, Goto, StreamInv, BeliefInv, GivenOf
  <2>5. Decodable => received = Packing[url] * resp.at
    <3>1. CASE resp.status = 200
      BY <1>1, <2>1, <2>2, <3>1
    <3>2. CASE resp.status = 206
      BY <2>1, <2>2, <3>2 DEF Decodable
    <3> QED
      BY <1>1, <3>1, <3>2
  <2>6. RespInv'
    BY <1>1, <2>1, <2>2, <2>3, <2>5 DEF Goto, RespInv, GivenOf, Decodable
  <2> QED
    BY <1>1, <2>4, <2>6 DEF HandleHead, Goto, StreamInv, DoneInv
<1>2. ASSUME NEW how \in {"http", "lost"}, End(how) PROVE (BeliefInv /\ RespInv /\ DoneInv)'
  BY <1>2, EndKeeps DEF Outcomes
<1> QED
  BY <1>1, <1>2 DEF HandleHead

(* A chunk is what follows in the revision the caller has the start of.    *)
LEMMA ChunkKeeps ==
  ASSUME StreamInv, Chunk
  PROVE  (BeliefInv /\ RespInv /\ DoneInv)'
<1> DEFINE p == Packing[url]
           n == resp.ver
           a == resp.at
           size == Size[url][resp.ver]
           more == [k \in 1..p |-> <<n, p * a + k>>]
<1>1. p \in Nat \ {0} /\ n \in Versions /\ a \in Nat /\ size \in Nat /\ live[url] \in Versions
  BY StreamAssumption, ServerAssumption DEF StreamInv, TypeOK, Response
<1>2. /\ n <= live[url] /\ validator <= n /\ validator # NoTag /\ GivenOf(n)
      /\ resp.status \in {200, 206} /\ a < size
      /\ received = p * a /\ received = Len(yielded) /\ received \in Nat
      /\ pc = "body" /\ Decodable
  BY DEF Chunk, StreamInv, TypeOK, RespInv, BeliefInv
<1>3. /\ yielded' = yielded \o more /\ received' = received + p
      /\ resp' = NextByte(resp) /\ validator' = validator
      /\ pc' = "yielded" /\ UNCHANGED <<live, url, outcome>>
  BY DEF Chunk, Goto
<1>4. resp'.status = resp.status /\ resp'.ver = n /\ resp'.at = a + 1
  BY <1>3 DEF NextByte
<1> HIDE DEF p, n, a, size
<1>5. p * a \in Nat /\ p * (a + 1) = p * a + p /\ p * (a + 1) <= p * size
  BY <1>1, <1>2, PackingMonotonic
<1>6. yielded = Decoded(n, p * a)
  BY <1>2 DEF GivenOf
<1>7. yielded' = Decoded(n, p * a + p)
  BY <1>1, <1>3, <1>5, <1>6, DecodedMore
<1>8. Len(yielded') = p * a + p
  BY <1>1, <1>5, <1>7 DEF Decoded
<1>9. GivenOf(n)'
  BY <1>3, <1>4, <1>5, <1>7, <1>8 DEF GivenOf, p, n, size
<1>10. BeliefInv'
  <2>1. n \in 1..live[url] /\ validator <= live[url]
    BY <1>1, <1>2 DEF Versions, StreamInv, BeliefInv
  <2>2. GivenOf(resp.ver)' /\ resp'.ver = n
    BY <1>4, <1>9 DEF n
  <2>3. \E m \in 1..live'[url'] : GivenOf(m)' /\ (received' > 0 => validator' <= m)
    BY <1>2, <1>3, <2>1, <2>2 DEF GivenOf
  <2>4. received' = Len(yielded')
    BY <1>2, <1>3, <1>8
  <2> QED
    BY <1>2, <1>3, <2>1, <2>3, <2>4 DEF BeliefInv
<1>11. RespInv'
  <2>1. a + 1 <= size /\ (resp.status = 206 /\ p # 1 => FALSE)
    BY <1>1, <1>2 DEF Decodable, p
  <2> QED
    BY <1>1, <1>2, <1>3, <1>4, <1>5, <1>9, <2>1 DEF RespInv, Decodable, p, n, a, size
<1> QED
  BY <1>2, <1>3, <1>10, <1>11 DEF StreamInv, DoneInv

(* The body ends where its revision does, if bodies do not end short.      *)
LEMMA EndOfBodyKeeps ==
  ASSUME StreamInv, EndOfBody
  PROVE  (BeliefInv /\ RespInv /\ DoneInv)'
<1>1. resp.ver \in Versions /\ resp.at \in Nat /\ live[url] \in Versions
  BY ServerAssumption DEF StreamInv, TypeOK, Response
<1>2. /\ resp.ver <= live[url] /\ GivenOf(resp.ver) /\ resp.status \in {200, 206}
      /\ resp.status = 206 /\ Packing[url] # 1 => resp.at < Size[url][resp.ver]
      /\ Decodable => received = Packing[url] * resp.at
      /\ received = Len(yielded)
  BY DEF EndOfBody, StreamInv, RespInv, BeliefInv
<1>3. resp.ver \in 1..live[url]
  BY <1>1, <1>2 DEF Versions
<1>4. ASSUME ~MayEndShort PROVE yielded = WholeBody(url, resp.ver)
  <2>1. resp.at = Size[url][resp.ver]
    BY <1>4 DEF EndOfBody, MayEnd
  <2>2. Decodable
    BY <1>1, <1>2, <2>1 DEF Decodable
  <2> QED
    BY <1>2, <2>1, <2>2 DEF GivenOf, WholeBody
<1>5. BeliefInv' /\ RespInv'
  BY <1>1, <1>2, <1>3 DEF EndOfBody, End, BeliefInv, RespInv, GivenOf, NoTag, Versions
<1>6. DoneInv'
  BY <1>3, <1>4 DEF EndOfBody, End, DoneInv, DoneMeansWhole
<1> QED
  BY <1>5, <1>6

(* A new revision takes nothing from the ones before it.                   *)
LEMMA ChangeKeeps ==
  ASSUME ~Rollback, StreamInv, NEW u \in Urls, Change(u)
  PROVE  (BeliefInv /\ RespInv /\ DoneInv)'
<1>1. live[url] \in Nat /\ live'[url] \in Nat /\ live[url] <= live'[url]
  BY LiveGrows DEF Change, StreamInv, TypeOK
<1>2. UNCHANGED <<pc, url, yielded, received, validator, attempt, resp, outcome>>
  BY DEF Change, locals
<1>3. 1..live[url] \subseteq 1..live'[url]
  BY <1>1
<1>4. validator \in Nat /\ resp.ver \in Nat
  BY DEF StreamInv, TypeOK, Response, Versions, NoTag
<1>5. BeliefInv'
  BY <1>1, <1>2, <1>3, <1>4 DEF StreamInv, BeliefInv, GivenOf
<1>6. RespInv'
  BY <1>1, <1>2, <1>4 DEF StreamInv, RespInv, GivenOf, Decodable
<1>7. DoneInv'
  BY <1>2, <1>3 DEF StreamInv, DoneInv, DoneMeansWhole
<1> QED
  BY <1>5, <1>6, <1>7

(* Every step of the generator, its caller and the server keeps it.        *)
LEMMA StreamStep ==
  ASSUME Tagged, ~Rollback
  PROVE  StreamInv /\ [Next]_vars => StreamInv'
<1> SUFFICES ASSUME StreamInv, [Next]_vars PROVE (BeliefInv /\ RespInv /\ DoneInv)'
  BY StreamTypes DEF StreamInv
<1>1. CASE UNCHANGED vars
  BY <1>1
  DEF vars, locals, StreamInv, BeliefInv, RespInv, DoneInv, DoneMeansWhole, GivenOf, Decodable
<1>2. ASSUME NEW u \in Urls, Call(u) PROVE (BeliefInv /\ RespInv /\ DoneInv)'
  <2>1. 1 \in 1..live[u] /\ Packing[u] * Size[u][1] \in Nat
    BY StreamAssumption, ServerAssumption DEF StreamInv, TypeOK, Versions
  <2>2. GivenOf(1)'
    BY <1>2, <2>1 DEF Call, GivenOf, Decoded
  <2> QED
    BY <1>2, <2>1, <2>2
    DEF Call, locals, NoTag, Versions, StreamInv, TypeOK, BeliefInv, RespInv, DoneInv
<1>3. CASE Resume
  BY <1>3
  DEF Resume, Goto, locals, StreamInv, BeliefInv, RespInv, DoneInv, GivenOf, Decodable
<1>4. CASE Close \/ Undecodable
  BY <1>4, EndKeeps DEF Close, Undecodable, Outcomes
<1>5. CASE Drop
  BY <1>5, RetryKeeps DEF Drop
<1> QED
  BY <1>1, <1>2, <1>3, <1>4, <1>5, ConnectKeeps, HeadKeeps, ChunkKeeps, EndOfBodyKeeps, ChangeKeeps
  DEF Next, Step

----------------------------------------------------------------------------
(* With a server that sends validators and only moves forward ...          *)
LEMMA StreamInvariant ==
  ASSUME Tagged, ~Rollback
  PROVE  Spec => []StreamInv
  BY StreamInit, StreamStep, PTL DEF Spec

(* README.md:395: ... no sequence of drops, reconnects and releases makes  *)
(* a stream give its caller a mixture, a gap or a byte twice.              *)
THEOREM StreamNeverSplices ==
  ASSUME Tagged, ~Rollback
  PROVE  Spec => []NeverSplices
<1>1. ASSUME StreamInv PROVE NeverSplices
  <2>1. PICK n \in 1..live[url] : GivenOf(n)
    BY <1>1 DEF StreamInv, BeliefInv
  <2>2. n \in Versions /\ url \in Urls /\ yielded \in Seq(Versions \X (Nat \ {0}))
    BY <1>1, <2>1, ServerAssumption DEF StreamInv, TypeOK, Versions
  <2> QED
    BY <2>1, <2>2, GivenIsPrefix DEF NeverSplices
<1> QED
  BY <1>1, StreamInvariant, PTL

(* A stream that ends without an exception has given a whole revision,     *)
(* also one it was reconnected for, if no body ends short of its end: the  *)
(* generator itself compares nothing with what was announced.              *)
THEOREM StreamDoneMeansWhole ==
  ASSUME Tagged, ~Rollback, ~MayEndShort
  PROVE  Spec => []DoneMeansWhole
<1>1. StreamInv => DoneMeansWhole
  BY DEF StreamInv, DoneInv, DoneMeansWhole
<1> QED
  BY <1>1, StreamInvariant, PTL
=============================================================================
