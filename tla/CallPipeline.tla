---------------------------- MODULE CallPipeline ----------------------------
(***************************************************************************)
(* An endpoint call of src/mxhttp/endpoint.py that decodes a response: it  *)
(* takes a concurrency slot of the host (concurrency.py), passes the rate  *)
(* limit, builds its request once, with its idempotency key, and sends it  *)
(* as often as retry.py allows, all while it holds the slot.               *)
(*                                                                         *)
(* Callers are threads (Fifo = FALSE, a threading.BoundedSemaphore) or     *)
(* tasks (Fifo = TRUE, an anyio.Semaphore).  Block and timeout are not     *)
(* part of the key of a semaphore, so calls that wait and calls that do    *)
(* not share one.                                                          *)
(***************************************************************************)
EXTENDS Naturals, Sequences, FiniteSets, SequencesExt

CONSTANTS
  Callers,
  Limit,       \* Concurrency.limit
  Attempts,    \* Retry.attempts
  Idempotent,  \* idempotent=True
  Fifo,
  Late,        \* a request may reach the server after its sender gave up
  Ids,         \* BOUND: calls that the server can still hear of
  NoKey

ASSUME PipelineAssumption ==
  /\ IsFiniteSet(Callers) /\ Limit \in Nat \ {0} /\ Attempts \in Nat \ {0}
  /\ {Idempotent, Fifo, Late} \subseteq BOOLEAN
  /\ NoKey \notin Ids

VARIABLES
  free,      \* the value of the semaphore
  queue,     \* the callers that wait for it
  pc,
  id,        \* id[c]: the call that c is making
  try,       \* try[c]: attempts that have failed
  outcome,
  net,       \* requests that have not reached the server
  replies,   \* responses that have not reached the client
  applied,   \* applied[i]: how often the server has done call i's work
  seen       \* idempotency keys the server has done the work of

client == <<free, queue, pc, id, try, outcome>>
server == <<net, replies, applied, seen>>
vars == <<client, server>>

Labels == {"idle", "wait", "gate", "send", "await"}
Holding == {"gate", "send", "await"}
Outcomes == {"none", "ok", "refused", "http", "transport", "interrupted"}
Messages == [id : Ids, try : 0..(Attempts - 1), key : Ids \cup {NoKey}]
Replies == [id : Ids, try : 0..(Attempts - 1), status : {"ok", "busy", "bad"}]

Init ==
  /\ free = Limit /\ queue = <<>>
  /\ pc = [c \in Callers |-> "idle"]
  /\ \E i \in Ids : id = [c \in Callers |-> i]
  /\ try = [c \in Callers |-> 0]
  /\ outcome = [c \in Callers |-> "none"]
  /\ net = {} /\ replies = {}
  /\ applied = [i \in Ids |-> 0] /\ seen = {}

Goto(c, label) == pc' = [pc EXCEPT ![c] = label]
Result(c, how) == outcome' = [outcome EXCEPT ![c] = how]

----------------------------------------------------------------------------
(* The slot.  A task that comes while others wait goes behind them; a      *)
(* thread takes any slot that is free.                                     *)
SlotFor(c) ==
  /\ free > 0
  /\ Fifo /\ queue # <<>> => Head(queue) = c

Take(c) == free' = free - 1 /\ Goto(c, "gate")

(* block=False: a slot at once or ConcurrencyExceededError.                *)
EnterNow(c) ==
  /\ pc[c] = "idle"
  /\ \/ SlotFor(c) /\ Take(c) /\ Result(c, "none")
     \/ ~SlotFor(c) /\ Result(c, "refused") /\ UNCHANGED <<free, pc>>
  /\ UNCHANGED <<queue, id, try, server>>

Enter(c) ==
  /\ pc[c] = "idle"
  /\ Goto(c, "wait") /\ queue' = Append(queue, c) /\ Result(c, "none")
  /\ UNCHANGED <<free, id, try, server>>

Grant(c) ==
  /\ pc[c] = "wait" /\ SlotFor(c)
  /\ Take(c) /\ queue' = Remove(queue, c)
  /\ UNCHANGED <<id, try, outcome, server>>

(* ConcurrencyTimeoutError, or an interrupt, while waiting.                *)
GiveUp(c) ==
  /\ pc[c] = "wait"
  /\ Goto(c, "idle") /\ queue' = Remove(queue, c) /\ Result(c, "refused")
  /\ UNCHANGED <<free, id, try, server>>

Abandoned(c) ==
  IF Late THEN UNCHANGED <<net, replies>>
  ELSE /\ net' = {m \in net : m.id # id[c]}
       /\ replies' = {r \in replies : r.id # id[c]}

(* Mutant of Leave: the slot is given back only if the call succeeds.      *)
LeaveHolding(c, how) ==
  /\ Goto(c, "idle") /\ Result(c, how)
  /\ free' = IF how = "ok" THEN free + 1 ELSE free
  /\ Abandoned(c)
  /\ UNCHANGED <<queue, id, try, applied, seen>>

(* The with block ends, by a return or by any exception: __exit__ gives    *)
(* the slot back.                                                          *)
Leave(c, how) ==
  /\ Goto(c, "idle") /\ Result(c, how)
  /\ free' = free + 1
  /\ Abandoned(c)
  /\ UNCHANGED <<queue, id, try, applied, seen>>

----------------------------------------------------------------------------
(* gate_sync inside the slot, then build_spec: a fresh call for the        *)
(* server, and with idempotent=True a fresh key for all of its attempts.   *)
Unused(i) ==
  /\ \A c \in Callers : pc[c] \in {"send", "await"} => id[c] # i
  /\ \A m \in net : m.id # i
  /\ \A r \in replies : r.id # i

Gate(c) ==
  /\ pc[c] = "gate"
  /\ \/ /\ \E i \in Ids :
             /\ Unused(i)
             /\ id' = [id EXCEPT ![c] = i]
             /\ applied' = [applied EXCEPT ![i] = 0] /\ seen' = seen \ {i}
        /\ try' = [try EXCEPT ![c] = 0]
        /\ Goto(c, "send") /\ UNCHANGED <<free, queue, outcome, net, replies>>
     \/ Leave(c, "refused")

(* Mutant of Key: only the first attempt carries the key.                  *)
KeyOfFirstAttempt(c) == IF Idempotent /\ try[c] = 0 THEN id[c] ELSE NoKey

Key(c) == IF Idempotent THEN id[c] ELSE NoKey

Send(c) ==
  /\ pc[c] = "send"
  /\ net' = net \cup {[id |-> id[c], try |-> try[c], key |-> Key(c)]}
  /\ Goto(c, "await")
  /\ UNCHANGED <<free, queue, id, try, outcome, replies, applied, seen>>

(* One more attempt, after a delay, or the end of the call.                *)
RetryOrLeave(c, how) ==
  \/ /\ try[c] + 1 < Attempts
     /\ try' = [try EXCEPT ![c] = @ + 1]
     /\ Goto(c, "send")
     /\ Abandoned(c)
     /\ UNCHANGED <<free, queue, id, outcome, applied, seen>>
  \/ try[c] + 1 >= Attempts /\ Leave(c, how)

(* Mutant of Answer: an error status is returned as a success.             *)
AnswerTrusting(c) ==
  /\ pc[c] = "await"
  /\ \E r \in replies :
       /\ r.id = id[c] /\ r.try = try[c]
       /\ \/ r.status # "busy" /\ Leave(c, "ok")
          \/ r.status = "busy" /\ RetryOrLeave(c, "ok")

(* The answer to the request that is being waited for.  The one that       *)
(* matches Retry.on after the last attempt is returned, and response_handler *)
(* or decode raises.                                                       *)
Answer(c) ==
  /\ pc[c] = "await"
  /\ \E r \in replies :
       /\ r.id = id[c] /\ r.try = try[c]
       /\ \/ r.status = "ok" /\ Leave(c, "ok")
          \/ r.status = "bad" /\ Leave(c, "http")
          \/ r.status = "busy" /\ RetryOrLeave(c, "http")

(* A transport error: the request or its response is lost, or just late.   *)
Fail(c) ==
  /\ pc[c] = "await"
  /\ RetryOrLeave(c, "transport")

Interrupt(c) ==
  /\ pc[c] \in Holding
  /\ Leave(c, "interrupted")

----------------------------------------------------------------------------
(* The server: it does the work of a request, once for each key, and       *)
(* answers; or fails before or after it; or never gets the request.        *)
Reply(m, status) ==
  replies' = replies \cup {[id |-> m.id, try |-> m.try, status |-> status]}

Serve(m) ==
  /\ net' = net \ {m}
  /\ \/ /\ m.key \in seen
        /\ Reply(m, "ok")
        /\ UNCHANGED <<applied, seen>>
     \/ /\ m.key \notin seen
        /\ applied' = [applied EXCEPT ![m.id] = @ + 1]
        /\ seen' = seen \cup ({m.key} \ {NoKey})
        /\ \E status \in {"ok", "busy"} : Reply(m, status)
     \/ /\ \E status \in {"busy", "bad"} : Reply(m, status)
        /\ UNCHANGED <<applied, seen>>
  /\ UNCHANGED client

Lose ==
  /\ \/ \E m \in net : net' = net \ {m} /\ UNCHANGED replies
     \/ \E r \in replies : replies' = replies \ {r} /\ UNCHANGED net
  /\ UNCHANGED <<client, applied, seen>>

Hold(c) == Gate(c) \/ Send(c) \/ Answer(c) \/ Fail(c)

Next ==
  \/ \E c \in Callers :
       \/ EnterNow(c) \/ Enter(c) \/ Grant(c) \/ GiveUp(c)
       \/ Hold(c) \/ Interrupt(c)
  \/ \E m \in net : Serve(m)
  \/ Lose

Spec == Init /\ [][Next]_vars

(* A call that has its slot gets on: requests time out and delays end.  A  *)
(* waiter that can have a slot takes it.                                   *)
FairSpec == Spec /\ \A c \in Callers : WF_vars(Hold(c)) /\ WF_vars(Grant(c))

----------------------------------------------------------------------------
TypeOK ==
  /\ free \in Nat /\ queue \in Seq(Callers)
  /\ pc \in [Callers -> Labels] /\ id \in [Callers -> Ids]
  /\ try \in [Callers -> 0..(Attempts - 1)]
  /\ outcome \in [Callers -> Outcomes]
  /\ net \subseteq Messages /\ replies \subseteq Replies
  /\ applied \in [Ids -> Nat] /\ seen \subseteq Ids

Holders == {c \in Callers : pc[c] \in Holding}

(* Every slot is free or held by one call, whatever way calls end: none is *)
(* lost or given back twice.  So at most `limit` requests are in flight.   *)
SlotsConserved == free + Cardinality(Holders) = Limit

(* README.md:264: however often a call is sent, and however late its       *)
(* requests arrive, the server applies it once.                            *)
AppliedOnce == \A i \in Ids : applied[i] <= 1

(* A call that returned has been applied: the answer it took is not that   *)
(* of another call or an earlier one.                                      *)
ReturnedMeansApplied ==
  [][ \A c \in Callers : outcome[c] # "ok" /\ outcome'[c] = "ok" => applied[id[c]] > 0 ]_vars

(* A slot always comes back, although it is held through all the retries.  *)
SlotComesBack == (free = 0) ~> (free > 0)

(* Tasks that wait for a slot get it or give up: nobody is overtaken for   *)
(* ever.                                                                   *)
WaiterServed == \A c \in Callers : pc[c] = "wait" ~> pc[c] # "wait"

(* The strengthening for AppliedOnce: the server remembers the key of what *)
(* it has applied, and all attempts of a call carry its key.               *)
KeyInv ==
  /\ id \in [Callers -> Ids]
  /\ applied \in [Ids -> Nat] /\ seen \subseteq Ids
  /\ \A m \in net : m.id \in Ids /\ m.key = IF Idempotent THEN m.id ELSE NoKey
  /\ Idempotent => AppliedOnce /\ \A i \in Ids : applied[i] > 0 => i \in seen

(* For ReturnedMeansApplied: only work that was done is answered "ok" or   *)
(* remembered, and it is not forgotten while such an answer is under way.  *)
AnswerInv ==
  /\ KeyInv
  /\ outcome \in [Callers -> Outcomes]
  /\ \A r \in replies : r.id \in Ids /\ (r.status = "ok" => applied[r.id] > 0)
  /\ \A i \in seen : applied[i] > 0

(* And for SlotsConserved, with the types it takes.                        *)
SlotInv ==
  /\ free \in Nat /\ pc \in [Callers -> Labels]
  /\ SlotsConserved
=============================================================================
