------------------------- MODULE CallPipelineProofs -------------------------
(***************************************************************************)
(* Proofs about CallPipeline: slots are conserved, and an idempotent call  *)
(* is applied at most once, for any number of callers, slots and attempts. *)
(***************************************************************************)
EXTENDS CallPipeline, FiniteSetTheorems, TLAPS

----------------------------------------------------------------------------
(* Slots.                                                                  *)

(* One caller changes its label: what that does to the set of holders.     *)
LEMMA HoldersMove ==
  ASSUME SlotInv, NEW c \in Callers, NEW label \in Labels, Goto(c, label)
  PROVE  /\ pc' \in [Callers -> Labels]
         /\ label \in Holding => Holders' = Holders \cup {c}
         /\ label \notin Holding => Holders' = Holders \ {c}
  BY DEF SlotInv, Goto, Holders

(* There are finitely many calls, so the holders can be counted.           *)
LEMMA HoldersFinite == IsFiniteSet(Holders)
  BY PipelineAssumption, FS_Subset DEF Holders

(* A caller that takes a slot, and one that gives it back.                 *)
LEMMA TakeKeeps ==
  ASSUME SlotInv, NEW c \in Callers, pc[c] \notin Holding, free > 0, Take(c)
  PROVE  SlotInv'
<1>1. Holders' = Holders \cup {c} /\ pc' \in [Callers -> Labels]
  BY HoldersMove DEF Take, Labels, Holding
<1>2. c \notin Holders
  BY DEF Holders
<1>3. Cardinality(Holders') = Cardinality(Holders) + 1
  BY <1>1, <1>2, HoldersFinite, FS_AddElement
<1>4. free' = free - 1 /\ free \in Nat
  BY DEF Take, SlotInv
<1>5. Cardinality(Holders) \in Nat
  BY HoldersFinite, FS_CardinalityType
<1> QED
  BY <1>1, <1>3, <1>4, <1>5 DEF SlotInv, SlotsConserved

(* A call that leaves the with block gives one slot back.                  *)
LEMMA LeaveKeeps ==
  ASSUME SlotInv, NEW c \in Callers, pc[c] \in Holding, NEW how, Leave(c, how)
  PROVE  SlotInv'
<1>1. Holders' = Holders \ {c} /\ pc' \in [Callers -> Labels]
  BY HoldersMove DEF Leave, Labels, Holding
<1>2. c \in Holders
  BY DEF Holders
<1>3. Cardinality(Holders') = Cardinality(Holders) - 1
  BY <1>1, <1>2, HoldersFinite, FS_RemoveElement
<1>4. free' = free + 1 /\ free \in Nat
  BY DEF Leave, SlotInv
<1>5. Cardinality(Holders) \in Nat
  BY HoldersFinite, FS_CardinalityType
<1> QED
  BY <1>1, <1>3, <1>4, <1>5 DEF SlotInv, SlotsConserved

(* A step that leaves the semaphore alone and does not move its caller in  *)
(* or out of the with block.                                               *)
LEMMA StayKeeps ==
  ASSUME SlotInv, NEW c \in Callers, NEW label \in Labels, Goto(c, label),
         label \in Holding <=> pc[c] \in Holding, free' = free
  PROVE  SlotInv'
<1>1. Holders' = Holders /\ pc' \in [Callers -> Labels]
  BY HoldersMove DEF Holders
<1> QED
  BY <1>1 DEF SlotInv, SlotsConserved

(* A step that changes neither the semaphore nor a label.                  *)
LEMMA QuietKeeps ==
  ASSUME SlotInv, UNCHANGED <<free, pc>>
  PROVE  SlotInv'
  BY DEF SlotInv, SlotsConserved, Holders

(* A retry keeps the slot, a last failure gives it back.                   *)
LEMMA RetryKeeps ==
  ASSUME SlotInv, NEW c \in Callers, pc[c] = "await", NEW how, RetryOrLeave(c, how)
  PROVE  SlotInv'
<1>1. CASE Leave(c, how)
  BY <1>1, LeaveKeeps DEF Holding
<1>2. CASE Goto(c, "send") /\ free' = free
  BY <1>2, StayKeeps DEF Labels, Holding
<1> QED
  BY <1>1, <1>2 DEF RetryOrLeave

(* Every step keeps the sum of free and held slots.                        *)
LEMMA SlotStep == SlotInv /\ [Next]_vars => SlotInv'
<1> SUFFICES ASSUME SlotInv, [Next]_vars PROVE SlotInv'
  OBVIOUS
<1>1. CASE UNCHANGED vars
  BY <1>1, QuietKeeps DEF vars, client
<1>2. ASSUME NEW c \in Callers, EnterNow(c) PROVE SlotInv'
  <2>1. CASE SlotFor(c) /\ Take(c)
    BY <1>2, <2>1, TakeKeeps DEF EnterNow, SlotFor, Holding
  <2>2. CASE UNCHANGED <<free, pc>>
    BY <2>2, QuietKeeps
  <2> QED
    BY <1>2, <2>1, <2>2 DEF EnterNow
<1>3. ASSUME NEW c \in Callers, Enter(c) PROVE SlotInv'
  BY <1>3, StayKeeps DEF Enter, Labels, Holding
<1>4. ASSUME NEW c \in Callers, Grant(c) PROVE SlotInv'
  BY <1>4, TakeKeeps DEF Grant, SlotFor, Holding
<1>5. ASSUME NEW c \in Callers, GiveUp(c) PROVE SlotInv'
  BY <1>5, StayKeeps DEF GiveUp, Labels, Holding
<1>6. ASSUME NEW c \in Callers, Gate(c) PROVE SlotInv'
  <2>1. CASE Leave(c, "refused")
    BY <1>6, <2>1, LeaveKeeps DEF Gate, Holding
  <2>2. CASE Goto(c, "send") /\ free' = free
    BY <1>6, <2>2, StayKeeps DEF Gate, Labels, Holding
  <2> QED
    BY <1>6, <2>1, <2>2 DEF Gate
<1>7. ASSUME NEW c \in Callers, Send(c) PROVE SlotInv'
  BY <1>7, StayKeeps DEF Send, Labels, Holding
<1>8. ASSUME NEW c \in Callers, Answer(c) PROVE SlotInv'
  <2>1. pc[c] = "await" /\ (\/ Leave(c, "ok") \/ Leave(c, "http") \/ RetryOrLeave(c, "http"))
    BY <1>8 DEF Answer
  <2> QED
    BY <2>1, LeaveKeeps, RetryKeeps DEF Holding
<1>9. ASSUME NEW c \in Callers, Fail(c) PROVE SlotInv'
  BY <1>9, RetryKeeps DEF Fail
<1>10. ASSUME NEW c \in Callers, Interrupt(c) PROVE SlotInv'
  BY <1>10, LeaveKeeps DEF Interrupt
<1>11. ASSUME NEW m \in net, Serve(m) PROVE SlotInv'
  BY <1>11, QuietKeeps DEF Serve, client
<1>12. CASE Lose
  BY <1>12, QuietKeeps DEF Lose, client
<1> QED
  BY <1>1, <1>2, <1>3, <1>4, <1>5, <1>6, <1>7, <1>8, <1>9, <1>10, <1>11, <1>12 DEF Next, Hold

(* No way to end a call, by a return, a refusal, an exception or an        *)
(* interrupt, loses a slot of the semaphore or gives one back twice.       *)
THEOREM SlotsAreConserved == Spec => []SlotsConserved
<1>1. Init => SlotInv
  <2> SUFFICES ASSUME Init PROVE SlotInv
    OBVIOUS
  <2>1. Holders = {}
    BY DEF Init, Holders, Holding
  <2>2. Cardinality(Holders) = 0
    BY <2>1, FS_EmptySet
  <2> QED
    BY <2>2, PipelineAssumption DEF Init, SlotInv, SlotsConserved, Labels
<1>2. SlotInv /\ [Next]_vars => SlotInv'
  BY SlotStep
<1>3. SlotInv => SlotsConserved
  BY DEF SlotInv
<1> QED
  BY <1>1, <1>2, <1>3, PTL DEF Spec

----------------------------------------------------------------------------
(* Idempotency.                                                            *)

(* Steps of a client neither send under another key nor apply anything.    *)
LEMMA ClientKeeps ==
  ASSUME KeyInv, net' \subseteq net, UNCHANGED <<id, applied, seen>>
  PROVE  KeyInv'
  BY DEF KeyInv, AppliedOnce

(* The end of a call sends nothing and applies nothing.                    *)
LEMMA LeaveHarmless ==
  ASSUME NEW c, NEW how, Leave(c, how)
  PROVE  net' \subseteq net /\ UNCHANGED <<id, applied, seen>>
  BY DEF Leave, Abandoned

(* A retry does not send by itself.                                        *)
LEMMA RetryHarmless ==
  ASSUME NEW c, NEW how, RetryOrLeave(c, how)
  PROVE  net' \subseteq net /\ UNCHANGED <<id, applied, seen>>
  BY LeaveHarmless DEF RetryOrLeave, Abandoned

(* The server applies what it has not seen, and remembers its key.         *)
LEMMA ServeKeeps ==
  ASSUME KeyInv, NEW m \in net, Serve(m)
  PROVE  KeyInv'
<1>1. m.id \in Ids /\ m.key = IF Idempotent THEN m.id ELSE NoKey
  BY DEF KeyInv
<1>2. net' \subseteq net /\ id' = id
  BY DEF Serve, client
<1>3. CASE UNCHANGED <<applied, seen>>
  BY <1>2, <1>3, ClientKeeps
<1>4. CASE /\ m.key \notin seen
           /\ applied' = [applied EXCEPT ![m.id] = @ + 1]
           /\ seen' = seen \cup ({m.key} \ {NoKey})
  <2>1. applied' \in [Ids -> Nat] /\ seen' \subseteq Ids
    BY <1>1, <1>4 DEF KeyInv
  <2>2. ASSUME Idempotent
        PROVE  AppliedOnce' /\ \A i \in Ids : applied'[i] > 0 => i \in seen'
    <3>1. m.key = m.id /\ m.id # NoKey
      BY <1>1, <2>2, PipelineAssumption DEF KeyInv
    <3>2. applied[m.id] = 0
      BY <1>1, <1>4, <2>2, <3>1 DEF KeyInv
    <3> QED
      BY <1>1, <1>4, <2>2, <3>1, <3>2 DEF KeyInv, AppliedOnce
  <2> QED
    BY <1>2, <2>1, <2>2 DEF KeyInv
<1> QED
  BY <1>3, <1>4 DEF Serve

(* Every step keeps the keys of requests with their calls.                 *)
LEMMA KeyStep == KeyInv /\ [Next]_vars => KeyInv'
<1> SUFFICES ASSUME KeyInv, [Next]_vars PROVE KeyInv'
  OBVIOUS
<1>1. CASE UNCHANGED vars
  BY <1>1, ClientKeeps DEF vars, client, server
<1>2. ASSUME NEW c \in Callers,
             EnterNow(c) \/ Enter(c) \/ Grant(c) \/ GiveUp(c) \/ Fail(c)
             \/ Answer(c) \/ Interrupt(c)
      PROVE  KeyInv'
  <2>1. net' \subseteq net /\ UNCHANGED <<id, applied, seen>>
    BY <1>2, LeaveHarmless, RetryHarmless
    DEF EnterNow, Enter, Grant, GiveUp, Fail, Answer, Interrupt, server
  <2> QED
    BY <2>1, ClientKeeps
<1>3. ASSUME NEW c \in Callers, Gate(c) PROVE KeyInv'
  <2>1. CASE Leave(c, "refused")
    BY <2>1, LeaveHarmless, ClientKeeps
  <2>2. ASSUME NEW i \in Ids, Unused(i), id' = [id EXCEPT ![c] = i],
               applied' = [applied EXCEPT ![i] = 0], seen' = seen \ {i}, net' = net
        PROVE  KeyInv'
    BY <2>2 DEF KeyInv, AppliedOnce, Unused
  <2> QED
    BY <1>3, <2>1, <2>2 DEF Gate
<1>4. ASSUME NEW c \in Callers, Send(c) PROVE KeyInv'
  <2> DEFINE m == [id |-> id[c], try |-> try[c], key |-> Key(c)]
  <2>1. m.id \in Ids /\ m.key = IF Idempotent THEN m.id ELSE NoKey
    BY <1>4 DEF KeyInv, Key
  <2> QED
    BY <1>4, <2>1 DEF Send, KeyInv, AppliedOnce
<1>5. ASSUME NEW m \in net, Serve(m) PROVE KeyInv'
  BY <1>5, ServeKeeps
<1>6. CASE Lose
  BY <1>6, ClientKeeps DEF Lose, client
<1> QED
  BY <1>1, <1>2, <1>3, <1>4, <1>5, <1>6 DEF Next, Hold

(* README.md:264: with idempotent=True a call is applied at most once,     *)
(* whatever is lost, late or retried, if the server honours the key.       *)
THEOREM AppliedAtMostOnce == ASSUME Idempotent PROVE Spec => []AppliedOnce
<1>1. Init => KeyInv
  BY DEF Init, KeyInv, AppliedOnce
<1>2. KeyInv /\ [Next]_vars => KeyInv'
  BY KeyStep
<1>3. KeyInv => AppliedOnce
  BY DEF KeyInv
<1> QED
  BY <1>1, <1>2, <1>3, PTL DEF Spec

----------------------------------------------------------------------------
(* What the answer of a call is worth.                                     *)

(* Steps of a client that neither answer nor forget anything.              *)
LEMMA ClientAnswers ==
  ASSUME AnswerInv, KeyInv', replies' \subseteq replies, UNCHANGED <<applied, seen>>,
         outcome' \in [Callers -> Outcomes]
  PROVE  AnswerInv'
  BY DEF AnswerInv

(* A call ends with one of its outcomes.                                   *)
LEMMA LeaveAnswers ==
  ASSUME AnswerInv, NEW c \in Callers, NEW how \in Outcomes, Leave(c, how)
  PROVE  /\ replies' \subseteq replies /\ UNCHANGED <<applied, seen>>
         /\ outcome' \in [Callers -> Outcomes]
  BY DEF AnswerInv, Leave, Abandoned, Result

(* A retry has none yet.                                                   *)
LEMMA RetryAnswers ==
  ASSUME AnswerInv, NEW c \in Callers, NEW how \in Outcomes, RetryOrLeave(c, how)
  PROVE  /\ replies' \subseteq replies /\ UNCHANGED <<applied, seen>>
         /\ outcome' \in [Callers -> Outcomes]
<1>1. CASE Leave(c, how)
  BY <1>1, LeaveAnswers
<1>2. CASE Abandoned(c) /\ UNCHANGED <<outcome, applied, seen>>
  BY <1>2 DEF AnswerInv, Abandoned
<1> QED
  BY <1>1, <1>2 DEF RetryOrLeave

(* The server says "ok" to what it does now, or did under the same key,    *)
(* which was then a request of the same call.                              *)
LEMMA ServeAnswers ==
  ASSUME AnswerInv, NEW m \in net, Serve(m)
  PROVE  AnswerInv'
<1>1. KeyInv' /\ m.id \in Ids /\ m.key = IF Idempotent THEN m.id ELSE NoKey
  BY ServeKeeps DEF AnswerInv, KeyInv
<1>2. outcome' \in [Callers -> Outcomes]
  BY DEF AnswerInv, Serve, client
<1>3. /\ applied \in [Ids -> Nat] /\ applied' \in [Ids -> Nat]
      /\ seen \subseteq Ids /\ NoKey \notin Ids
  BY <1>1, PipelineAssumption DEF AnswerInv, KeyInv
<1>4. \A i \in Ids : applied[i] > 0 => applied'[i] > 0
  BY <1>1, <1>3 DEF Serve
<1>5. seen' \subseteq seen \cup {m.id} /\ (m.id \in seen' \ seen => applied'[m.id] > 0)
  BY <1>1, <1>3 DEF Serve
<1>6. \A i \in seen' : applied'[i] > 0
  BY <1>1, <1>3, <1>4, <1>5 DEF AnswerInv
<1>7. ASSUME NEW r \in replies', r \notin replies
      PROVE  r.id = m.id /\ (r.status = "ok" => applied'[m.id] > 0)
  <2>1. CASE m.key \in seen /\ Reply(m, "ok") /\ UNCHANGED <<applied, seen>>
    <3>1. m.key = m.id
      BY <1>1, <1>3, <2>1
    <3> QED
      BY <1>7, <2>1, <3>1 DEF Reply, AnswerInv
  <2>2. ASSUME NEW status, Reply(m, status), applied' = [applied EXCEPT ![m.id] = @ + 1]
        PROVE  r.id = m.id /\ (r.status = "ok" => applied'[m.id] > 0)
    BY <1>1, <1>3, <1>7, <2>2 DEF Reply
  <2>3. ASSUME NEW status \in {"busy", "bad"}, Reply(m, status)
        PROVE  r.id = m.id /\ (r.status = "ok" => applied'[m.id] > 0)
    BY <1>7, <2>3 DEF Reply
  <2> QED
    BY <2>1, <2>2, <2>3 DEF Serve
<1>8. \A r \in replies' : r.id \in Ids /\ (r.status = "ok" => applied'[r.id] > 0)
  BY <1>1, <1>4, <1>7 DEF AnswerInv
<1> QED
  BY <1>1, <1>2, <1>6, <1>8 DEF AnswerInv

(* Every step keeps the answers true.                                      *)
LEMMA AnswerStep == AnswerInv /\ [Next]_vars => AnswerInv'
<1> SUFFICES ASSUME AnswerInv, [Next]_vars PROVE AnswerInv'
  OBVIOUS
<1>1. KeyInv'
  BY KeyStep DEF AnswerInv
<1>2. CASE UNCHANGED vars
  BY <1>1, <1>2, ClientAnswers DEF vars, client, server, AnswerInv
<1>3. ASSUME NEW c \in Callers,
             EnterNow(c) \/ Enter(c) \/ Grant(c) \/ GiveUp(c) \/ Send(c)
      PROVE  AnswerInv'
  <2>1. replies' = replies /\ UNCHANGED <<applied, seen>>
    BY <1>3 DEF EnterNow, Enter, Grant, GiveUp, Send, server
  <2>2. outcome' \in [Callers -> Outcomes]
    BY <1>3 DEF EnterNow, Enter, Grant, GiveUp, Send, Result, Outcomes, AnswerInv
  <2> QED
    BY <1>1, <2>1, <2>2, ClientAnswers
<1>4. ASSUME NEW c \in Callers, Answer(c) \/ Fail(c) \/ Interrupt(c) PROVE AnswerInv'
  <2>1. \E how \in Outcomes : Leave(c, how) \/ RetryOrLeave(c, how)
    BY <1>4 DEF Answer, Fail, Interrupt, Outcomes
  <2> QED
    BY <1>1, <2>1, LeaveAnswers, RetryAnswers, ClientAnswers
<1>5. ASSUME NEW c \in Callers, Gate(c) PROVE AnswerInv'
  <2>1. CASE Leave(c, "refused")
    BY <1>1, <2>1, LeaveAnswers, ClientAnswers DEF Outcomes
  <2>2. ASSUME NEW i \in Ids, Unused(i), UNCHANGED <<outcome, replies>>,
               applied' = [applied EXCEPT ![i] = 0], seen' = seen \ {i}
        PROVE  AnswerInv'
    BY <1>1, <2>2 DEF AnswerInv, KeyInv, Unused
  <2> QED
    BY <1>5, <2>1, <2>2 DEF Gate
<1>6. ASSUME NEW m \in net, Serve(m) PROVE AnswerInv'
  BY <1>6, ServeAnswers
<1>7. CASE Lose
  BY <1>1, <1>7, ClientAnswers DEF Lose, client, AnswerInv
<1> QED
  BY <1>2, <1>3, <1>4, <1>5, <1>6, <1>7 DEF Next, Hold

(* Only the answer to its own request ends a call well.                    *)
LEMMA OkIsAnswered ==
  ASSUME AnswerInv, [Next]_vars, NEW c \in Callers, outcome[c] # "ok", outcome'[c] = "ok"
  PROVE  applied[id[c]] > 0
<1> USE DEF AnswerInv
<1>1. ASSUME NEW d \in Callers, NEW how, Leave(d, how) \/ RetryOrLeave(d, how)
      PROVE  d = c /\ how = "ok"
  BY <1>1 DEF Leave, RetryOrLeave, Result
<1>2. ASSUME NEW d \in Callers, NEW how, Result(d, how) PROVE d = c /\ how = "ok"
  BY <1>2 DEF Result
<1>3. outcome' # outcome
  OBVIOUS
<1>4. ASSUME NEW d \in Callers, Answer(d) PROVE applied[id[c]] > 0
  <2>1. PICK r \in replies :
          /\ r.id = id[d]
          /\ \/ r.status = "ok" /\ Leave(d, "ok")
             \/ r.status = "bad" /\ Leave(d, "http")
             \/ r.status = "busy" /\ RetryOrLeave(d, "http")
    BY <1>4 DEF Answer
  <2>2. d = c /\ r.status = "ok"
    BY <1>1, <2>1
  <2> QED
    BY <2>1, <2>2
<1>5. ASSUME NEW d \in Callers, EnterNow(d) \/ Enter(d) \/ Grant(d) \/ GiveUp(d) PROVE FALSE
  BY <1>2, <1>3, <1>5 DEF EnterNow, Enter, Grant, GiveUp
<1>6. ASSUME NEW d \in Callers, Gate(d) \/ Send(d) \/ Fail(d) \/ Interrupt(d) PROVE FALSE
  BY <1>1, <1>3, <1>6 DEF Gate, Send, Fail, Interrupt
<1>7. CASE Lose \/ UNCHANGED vars \/ \E m \in net : Serve(m)
  BY <1>3, <1>7 DEF Lose, Serve, vars, client
<1> QED
  BY <1>4, <1>5, <1>6, <1>7 DEF Next, Hold

(* A call that returns has been applied, idempotent or not, whatever is    *)
(* lost, late or answered twice: an answer is never taken for another's.   *)
THEOREM ReturnedCallsAreApplied == Spec => ReturnedMeansApplied
<1>1. Init => AnswerInv
  BY DEF Init, AnswerInv, KeyInv, AppliedOnce, Outcomes
<1>2. AnswerInv /\ [Next]_vars => AnswerInv'
  BY AnswerStep
<1>3. AnswerInv /\ [Next]_vars =>
        [\A c \in Callers : outcome[c] # "ok" /\ outcome'[c] = "ok" => applied[id[c]] > 0]_vars
  BY OkIsAnswered
<1> QED
  BY <1>1, <1>2, <1>3, PTL DEF Spec, ReturnedMeansApplied
=============================================================================
