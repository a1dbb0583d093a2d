----------------------------- MODULE HostGates -----------------------------
(***************************************************************************)
(* The gates of one host and the calls that share them: which of the       *)
(* concurrency slot and the rate limit each kind of endpoint takes, in     *)
(* which order, for how many requests and for how long                     *)
(* (src/mxhttp/endpoint.py, response.py, download.py).                     *)
(*                                                                         *)
(*   decode   slot, rate limit once, then the request and its retries      *)
(*   stream   rate limit when it is called, slot when its generator is     *)
(*            iterated first, then the request and its reconnects; the     *)
(*            generator keeps the slot while its caller does other things  *)
(*   single   slot, then the rate limit before every request               *)
(*   multi    a download by parts: as single, until it splits              *)
(*   segment  a worker of such a download: no slot of its own              *)
(*                                                                         *)
(* Retries, caching and the content of requests are those of CallPipeline, *)
(* ResumableStream and MultiPart.  block=False and timeout= both end in    *)
(* GiveUp.                                                                 *)
(***************************************************************************)
EXTENDS RateLimit, Sequences, SequencesExt

CONSTANTS
  Limit,      \* Concurrency.limit
  Attempts,   \* Retry.attempts
  Tasks,      \* tasks of one event loop, or threads
  Kinds,      \* the endpoints that are called
  Nesting,    \* a caller makes calls from the loop over one of its streams
  NoCall

ASSUME GatesAssumption ==
  /\ IsFiniteSet(Callers)
  /\ Limit \in Nat \ {0} /\ Attempts \in Nat \ {0}
  /\ {Tasks, Nesting} \subseteq BOOLEAN
  /\ Kinds \subseteq {"decode", "stream", "single", "multi"}
  /\ NoCall \notin Callers

VARIABLES
  free,    \* the value of the semaphore
  queue,   \* the calls that wait for it
  call     \* call[c]: the call c makes; `paid`: passed the rate limit since
           \* its last request; `owed`: requests it sent without

window == <<left, count, waiting, sleep, recent>>
gates == <<free, queue, call>>
allVars == <<window, gates>>

Labels == {"idle", "made", "wait", "gate", "send", "await", "yield", "dropped", "join", "stop"}

Idle == [kind |-> "none", pc |-> "idle", inside |-> NoCall,
         try |-> 0, paid |-> FALSE, owed |-> 0]

GatesInit ==
  /\ Init
  /\ free = Limit /\ queue = <<>>
  /\ call = [c \in Callers |-> Idle]

At(c, labels) == call[c].pc \in labels
Is(c, kinds) == call[c].kind \in kinds
Goto(c, label) == call' = [call EXCEPT ![c].pc = label]

Segments(d) == {c \in Callers : Is(c, {"segment"}) /\ call[c].inside = d}

(* A call made from the loop over stream s is under way: the caller of s   *)
(* does not touch s, nor another stream it has from there.                 *)
Busy(s) ==
  \E c \in Callers : call[c].inside = s /\ ~At(c, {"idle", "made", "yield", "dropped"})

HasTurn(c) == ~Busy(c) /\ (call[c].inside = NoCall \/ ~Busy(call[c].inside))

Holds(c) ==
  /\ ~Is(c, {"segment"})
  /\ ~At(c, {"idle", "made", "wait"})
  /\ Is(c, {"stream"}) => ~At(c, {"gate"})

(* What is left of the calls when c's is over.                             *)
Without(c) ==
  [d \in Callers |->
    IF d = c THEN Idle
    ELSE IF call[d].inside = c THEN [call[d] EXCEPT !.inside = NoCall] ELSE call[d]]

(* Mutant of Leave: a generator that is dropped keeps its slot.            *)
LeaveUnlessDropped(c) ==
  /\ call' = Without(c)
  /\ free' = IF Holds(c) /\ ~At(c, {"dropped"}) THEN free + 1 ELSE free
  /\ UNCHANGED queue

(* The call is over, by a return or an exception; its with block, if it is *)
(* in one, gives the slot back.                                            *)
Leave(c) ==
  /\ call' = Without(c)
  /\ free' = IF Holds(c) THEN free + 1 ELSE free
  /\ UNCHANGED queue

(* A segment that cannot go on.  In a task group that cancels the others;  *)
(* a thread leaves its error in segment_errors.                            *)
SegmentFails(c) ==
  /\ call' = [d \in Callers |->
       IF d = c THEN Idle
       ELSE IF Tasks /\ d = call[c].inside THEN [call[d] EXCEPT !.pc = "stop"]
       ELSE call[d]]
  /\ UNCHANGED <<free, queue>>

Fail(c) == IF Is(c, {"segment"}) THEN SegmentFails(c) ELSE Leave(c)

----------------------------------------------------------------------------
(* The wrapper of an endpoint is entered.                                  *)
Begin(c) ==
  /\ At(c, {"idle"})
  /\ \E kind \in Kinds, s \in Callers \cup {NoCall} :
       /\ s # NoCall => Nesting /\ At(s, {"yield"}) /\ HasTurn(s)
       /\ call' = [call EXCEPT ![c] =
            [Idle EXCEPT !.kind = kind, !.inside = s,
                         !.pc = IF kind = "stream" THEN "gate" ELSE "wait"]]
       /\ queue' = IF kind = "stream" THEN queue ELSE Append(queue, c)
  /\ UNCHANGED <<free, window>>

(* The first next() of a generator.                                        *)
Iterate(c) ==
  /\ At(c, {"made"}) /\ HasTurn(c)
  /\ Goto(c, "wait") /\ queue' = Append(queue, c)
  /\ UNCHANGED <<free, window>>

(* Mutant of SlotFor: whoever comes first takes the slot.                  *)
SlotForAnyone(c) == free > 0

SlotFor(c) == free > 0 /\ (Tasks => Head(queue) = c)

Grant(c) ==
  /\ At(c, {"wait"}) /\ SlotFor(c)
  /\ free' = free - 1 /\ queue' = Remove(queue, c)
  /\ Goto(c, IF Is(c, {"stream"}) THEN "send" ELSE "gate")
  /\ UNCHANGED window

GiveUp(c) ==
  /\ At(c, {"wait"})
  /\ call' = [call EXCEPT ![c] = Idle] /\ queue' = Remove(queue, c)
  /\ UNCHANGED <<free, window>>

----------------------------------------------------------------------------
(* Through the rate limit: the generator is made, or the request is next.  *)
Pass(c) ==
  /\ call' = [call EXCEPT ![c].paid = TRUE,
                          ![c].pc = IF Is(c, {"stream"}) THEN "made" ELSE "send"]
  /\ UNCHANGED <<free, queue>>

Gate(c) ==
  /\ At(c, {"gate"}) /\ Acquire(c)
  /\ \/ Admit(c) /\ Pass(c)
     \/ Refuse(c) /\ Fail(c)
     \/ SleepFor(c) /\ UNCHANGED gates

Rouse(c) == Wake(c) /\ Pass(c)

Send(c) ==
  /\ At(c, {"send"})
  /\ call' = [call EXCEPT ![c].pc = "await", ![c].paid = FALSE,
                          ![c].owed = IF call[c].paid THEN @ ELSE @ + 1]
  /\ UNCHANGED <<free, queue, window>>

----------------------------------------------------------------------------
(* The response, or more of it: a call ends, a stream hands out a chunk, a *)
(* probe turns a download by parts into a single one.                      *)
Answer(c) ==
  /\ At(c, {"await"})
  /\ \/ Leave(c)
     \/ Is(c, {"stream"}) /\ Goto(c, "yield") /\ UNCHANGED <<free, queue>>
     \/ /\ Is(c, {"multi"})
        /\ call' = [call EXCEPT ![c].kind = "single", ![c].pc = "gate", ![c].try = 0]
        /\ UNCHANGED <<free, queue>>
  /\ UNCHANGED window

(* Workers are started for the segments, after a probe or from the state   *)
(* of an earlier run; those that are complete return at once.              *)
Split(d) ==
  /\ Is(d, {"multi"}) /\ d \notin waiting
  /\ \/ At(d, {"await"})
     \/ At(d, {"gate"}) /\ call[d].try = 0
  /\ \E workers \in SUBSET {c \in Callers : At(c, {"idle"})} :
       call' = [c \in Callers |->
         IF c \in workers
         THEN [Idle EXCEPT !.kind = "segment", !.pc = "gate", !.inside = d]
         ELSE IF c = d THEN [call[d] EXCEPT !.pc = "join"] ELSE call[c]]
  /\ UNCHANGED <<free, queue, window>>

(* Mutant of Again: a download sends again at once, as a decoded call does. *)
AgainUngated(c) == "send"

Again(c) == IF Is(c, {"decode", "stream"}) THEN "send" ELSE "gate"

(* Mutant of Lost: there is always another attempt.                        *)
LostForEver(c) ==
  /\ At(c, {"await"})
  /\ call' = [call EXCEPT ![c].pc = Again(c)]
  /\ UNCHANGED <<free, queue, window>>

(* A failed request is retried, or it is the last: then a segment reports  *)
(* it and lets the others go on.                                           *)
Lost(c) ==
  /\ At(c, {"await"})
  /\ \/ /\ call[c].try + 1 < Attempts
        /\ call' = [call EXCEPT ![c].pc = Again(c), ![c].try = @ + 1]
        /\ UNCHANGED <<free, queue>>
     \/ call[c].try + 1 >= Attempts /\ Leave(c)
  /\ UNCHANGED window

(* The sleep in the rate limit, if c is in it, ends.                       *)
EndSleep(c) == IF c \in waiting THEN Cancel(c) ELSE UNCHANGED window

(* An interrupt, an exception that is not retried, a segment that lost its *)
(* resource.                                                               *)
Raise(c) ==
  /\ At(c, {"gate", "send", "await"})
  /\ Fail(c) /\ EndSleep(c)

(* Mutant of Interrupt: nobody waits for the workers.                      *)
InterruptAll(d) ==
  /\ At(d, {"join"})
  /\ Leave(d)
  /\ UNCHANGED window

(* An interrupt of a download that waits for its workers.  A task group is *)
(* cancelled and waited for; threads are only told to stop.                *)
Interrupt(d) ==
  /\ At(d, {"join"})
  /\ IF Tasks THEN Goto(d, "stop") /\ UNCHANGED <<free, queue>> ELSE Leave(d)
  /\ UNCHANGED window

CancelSegment(c) ==
  /\ \E d \in Callers : At(d, {"stop"}) /\ c \in Segments(d)
  /\ Leave(c) /\ EndSleep(c)

Joined(d) ==
  /\ At(d, {"join", "stop"}) /\ Segments(d) = {}
  /\ Leave(d)
  /\ UNCHANGED window

----------------------------------------------------------------------------
(* What the caller of a generator does with it: the next chunk, the end of *)
(* its loop, or it is let go of until it is collected.                     *)
Resume(c) ==
  /\ At(c, {"yield"}) /\ HasTurn(c)
  /\ Goto(c, "await")
  /\ UNCHANGED <<free, queue, window>>

Close(c) ==
  /\ At(c, {"made", "yield"}) /\ HasTurn(c)
  /\ Leave(c)
  /\ UNCHANGED window

Drop(c) ==
  /\ At(c, {"yield"}) /\ HasTurn(c)
  /\ Goto(c, "dropped")
  /\ UNCHANGED <<free, queue, window>>

Collect(c) ==
  /\ At(c, {"dropped"})
  /\ Leave(c)
  /\ UNCHANGED window

----------------------------------------------------------------------------
Step(c) ==
  \/ Gate(c) \/ Rouse(c) \/ Send(c) \/ Answer(c) \/ Split(c) \/ Lost(c)
  \/ CancelSegment(c) \/ Joined(c)

GatesNext ==
  \/ \E c \in Callers :
       \/ Begin(c) \/ Iterate(c) \/ Grant(c) \/ GiveUp(c)
       \/ Step(c) \/ Raise(c) \/ Interrupt(c)
       \/ Resume(c) \/ Close(c) \/ Drop(c) \/ Collect(c)
  \/ Tick /\ UNCHANGED gates

GatesSpec == GatesInit /\ [][GatesNext]_allVars

(* Time passes and requests are answered or time out.  Nothing is assumed  *)
(* of the callers: a suspended stream may stay so.                         *)
FairGates ==
  /\ GatesSpec
  /\ WF_allVars(Tick /\ UNCHANGED gates)
  /\ \A c \in Callers : WF_allVars(Step(c)) /\ WF_allVars(Grant(c))

----------------------------------------------------------------------------
GatesTypeOK ==
  /\ free \in Nat /\ queue \in Seq(Callers)
  /\ call \in [Callers -> [kind : Kinds \cup {"none", "single", "segment"}, pc : Labels,
                           inside : Callers \cup {NoCall}, try : 0..(Attempts - 1),
                           paid : BOOLEAN, owed : Nat]]

(* Every slot is free or held by one call, whatever its kind and however   *)
(* it ends: generators that are closed, dropped or never iterated, split   *)
(* downloads that are joined, cancelled or fail.                           *)
SlotsOfHost == free + Cardinality({c \in Callers : Holds(c)}) = Limit

InFlight == {c \in Callers : At(c, {"await", "yield", "dropped"})}

(* README.md:290: what is in flight is within the limit, in this sense: a  *)
(* request is that of a call that holds a slot, or of a worker of one that *)
(* still does.                                                             *)
RequestsUnderSlots ==
  \A c \in InFlight : Holds(c) \/ \E d \in Callers : Holds(d) /\ c \in Segments(d)

(* Only retries of decoded calls and reconnects of streams go out without  *)
(* passing the rate limit; a download and its segments pass it for every   *)
(* request.                                                                *)
OnlyRetriesAreUngated ==
  \A c \in Callers :
    call[c].owed <= IF Is(c, {"decode", "stream"}) THEN call[c].try ELSE 0

Suspended == \E c \in Callers : At(c, {"yield", "dropped"})

(* README.md:304: a call over the limit blocks until a slot is released.   *)
(* It then has one, whatever the other kinds of calls do with theirs, as   *)
(* long as no stream is suspended again and again, or for ever.            *)
WaiterGetsSlot == \A c \in Callers : At(c, {"wait"}) ~> ~At(c, {"wait"}) \/ Suspended

UnderWay == {"gate", "send", "await", "join", "stop"}

(* A call that neither waits for a slot nor for its caller ends or comes   *)
(* back to one of these, through retries, the rate limit, its workers and  *)
(* their cancellation.                                                     *)
CallMovesOn == \A c \in Callers : At(c, UnderWay) ~> ~At(c, UnderWay)

(* README.md:290 "maximum simultaneous in-flight requests" and README.md:460 *)
(* "to cap how hard the segments hit it concurrently", word for word.      *)
InFlightWithinLimit == Cardinality(InFlight) <= Limit

(* The same promise to a call made from the loop over a stream.            *)
NestedCallGetsSlot ==
  \A c \in Callers :
    At(c, {"wait"}) /\ call[c].inside # NoCall ~> ~At(c, {"wait"})
=============================================================================
