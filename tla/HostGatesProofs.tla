-------------------------- MODULE HostGatesProofs --------------------------
(***************************************************************************)
(* Proofs about RateLimit and HostGates, for any number of callers, slots  *)
(* and attempts, any limits, and calls of any kind inside each other's     *)
(* loops.                                                                  *)
(***************************************************************************)
EXTENDS HostGates, FiniteSetTheorems, TLAPS

----------------------------------------------------------------------------
(* The window of a rate limit, whoever its callers are.                    *)

(* Nothing sleeps before the first call.                                   *)
LEMMA SleepInit == Init => SleepInv
  BY RateLimitAssumption
  DEF Init, SleepInv, TypeOK, BlocksUntilReset, DelayBounded, Ages

(* What reserving a slot does to the window.                               *)
LEMMA ReserveMoves ==
  ASSUME SleepInv, Reserve
  PROVE  /\ left' \in 1..Period /\ count' \in Nat
         /\ left > 0 => left' = left
         /\ left = 0 => left' = Period
  BY RateLimitAssumption DEF SleepInv, TypeOK, Reserve, KeepCounting

(* A new sleep lasts as long as the window, and reserving a slot moves the *)
(* reset only when no sleep is under way.                                  *)
LEMMA AcquireKeeps ==
  ASSUME SleepInv, NEW c \in Callers, Acquire(c)
  PROVE  SleepInv'
<1>1. /\ left' \in 1..Period /\ count' \in Nat
      /\ left > 0 => left' = left
      /\ left = 0 => left' = Period
  BY ReserveMoves DEF Acquire
<1>2. c \notin waiting
  BY DEF Acquire
<1>3. CASE Admit(c)
  BY <1>1, <1>3, RateLimitAssumption
  DEF Admit, SleepInv, TypeOK, BlocksUntilReset, DelayBounded, Ages
<1>4. CASE Refuse(c)
  BY <1>1, <1>4, RateLimitAssumption
  DEF Refuse, SleepInv, TypeOK, BlocksUntilReset, DelayBounded
<1>5. CASE SleepFor(c)
  BY <1>1, <1>2, <1>5, RateLimitAssumption
  DEF SleepFor, SleepInv, TypeOK, BlocksUntilReset, DelayBounded
<1> QED
  BY <1>3, <1>4, <1>5 DEF Acquire

(* Time takes as much from the sleeps as from the window.                  *)
LEMMA TickKeeps ==
  ASSUME SleepInv, Tick
  PROVE  SleepInv'
<1>1. left' \in 0..Period /\ (left > 0 => left' = left - 1) /\ (left = 0 => left' = 0)
  BY RateLimitAssumption DEF Tick, Sooner, SleepInv, TypeOK
<1>2. \A c \in Callers : /\ sleep'[c] \in 0..Period
                         /\ sleep[c] > 0 => sleep'[c] = sleep[c] - 1
                         /\ sleep[c] = 0 => sleep'[c] = 0
  BY RateLimitAssumption DEF Tick, Sooner, SleepInv, TypeOK
<1>3. recent' \in [Ages -> Nat]
  <2> SUFFICES ASSUME NEW a \in Ages, a # 0 PROVE recent[a - 1] \in Nat
    BY DEF Tick
  <2>1. a - 1 \in Ages
    BY RateLimitAssumption DEF Ages
  <2> QED
    BY <2>1 DEF SleepInv, TypeOK
<1>4. sleep' \in [Callers -> 0..Period]
  BY <1>2 DEF Tick
<1>5. TypeOK'
  BY <1>1, <1>3, <1>4 DEF Tick, SleepInv, TypeOK
<1>6. BlocksUntilReset'
  BY <1>1, <1>2, RateLimitAssumption DEF Tick, SleepInv, TypeOK, BlocksUntilReset
<1>7. DelayBounded'
  <2> SUFFICES ASSUME NEW c \in waiting PROVE Block /\ sleep'[c] <= MaxDelay
    BY DEF DelayBounded, Tick
  <2>1. c \in Callers /\ sleep[c] \in Nat /\ sleep[c] <= MaxDelay /\ Block
    BY DEF SleepInv, TypeOK, DelayBounded
  <2> QED
    BY <1>2, <2>1, RateLimitAssumption
<1> QED
  BY <1>5, <1>6, <1>7 DEF SleepInv

(* Every step of the limiter keeps the invariant.                          *)
LEMMA SleepStep == SleepInv /\ [Next]_vars => SleepInv'
<1> SUFFICES ASSUME SleepInv, [Next]_vars PROVE SleepInv'
  OBVIOUS
<1>1. CASE UNCHANGED vars
  BY <1>1 DEF vars, SleepInv, TypeOK, BlocksUntilReset, DelayBounded
<1>2. CASE Tick
  BY <1>2, TickKeeps
<1>3. ASSUME NEW c \in Callers, Acquire(c) PROVE SleepInv'
  BY <1>3, AcquireKeeps
<1>4. ASSUME NEW c \in Callers, Wake(c) PROVE SleepInv'
  BY <1>4, RateLimitAssumption
  DEF Wake, SleepInv, TypeOK, BlocksUntilReset, DelayBounded
<1>5. ASSUME NEW c \in Callers, Cancel(c) PROVE SleepInv'
  BY <1>5, RateLimitAssumption
  DEF Cancel, SleepInv, TypeOK, BlocksUntilReset, DelayBounded
<1> QED
  BY <1>1, <1>2, <1>3, <1>4, <1>5 DEF Next

(* The invariant holds in every reachable state.                           *)
LEMMA SleepInvariant == Spec => []SleepInv
<1>1. Init => SleepInv
  BY SleepInit
<1>2. SleepInv /\ [Next]_vars => SleepInv'
  BY SleepStep
<1> QED
  BY <1>1, <1>2, PTL DEF Spec

(* A call over the limit sleeps until the window resets, no longer and no  *)
(* shorter (README.md:284), for every limit and any number of callers.     *)
THEOREM SleepsEndWithWindow == Spec => []BlocksUntilReset
<1>1. SleepInv => BlocksUntilReset
  BY DEF SleepInv
<1> QED
  BY <1>1, SleepInvariant, PTL

(* block=False never sleeps, and no sleep is longer than max_delay.        *)
THEOREM SleepsAreBounded == Spec => []DelayBounded
<1>1. SleepInv => DelayBounded
  BY DEF SleepInv
<1> QED
  BY <1>1, SleepInvariant, PTL

----------------------------------------------------------------------------
(* How many calls go through without waiting.                              *)

(* What the model counts is zero at first.                                 *)
LEMMA BurstInit == Init => BurstInv
  BY SleepInit, RateLimitAssumption DEF Init, BurstInv, SlotsAllUsed, Ages

(* A call takes the next slot of its window, and goes through at once if   *)
(* that is one of the first `Calls`.                                       *)
LEMMA AcquireCounts ==
  ASSUME BurstInv, NEW c \in Callers, Acquire(c)
  PROVE  BurstInv'
<1> USE RateLimitAssumption
<1>1. SleepInv'
  BY AcquireKeeps DEF BurstInv
<1>2. /\ left \in 0..Period /\ left' \in 1..Period /\ count \in Nat /\ count' \in Nat
      /\ recent \in [Ages -> Nat] /\ {0, Period, Period - left'} \subseteq Ages
      /\ left > 0 => left' = left /\ Period - left \in Ages
  BY ReserveMoves DEF Acquire, BurstInv, SleepInv, TypeOK, Ages
<1>3. CASE Admit(c)
  <2>1. recent' = [a \in Ages |-> recent[a] + 1] /\ count' <= Calls
    BY <1>3 DEF Admit
  <2>2. \A a, b \in Ages : a <= b => recent'[a] <= recent'[b]
    BY <1>2, <2>1 DEF BurstInv, Ages
  <2>3. CASE left = 0
    <3>1. left' = Period /\ count' = 1
      BY <2>3 DEF Acquire, Reserve
    <3> QED
      BY <1>1, <1>2, <2>1, <2>2, <2>3, <3>1 DEF BurstInv, SlotsAllUsed
  <2>4. CASE left > 0
    <3>1. left' = left /\ count' = count + 1
      BY <1>2, <2>1, <2>4 DEF Acquire, Reserve, KeepCounting
    <3> QED
      BY <1>1, <1>2, <2>1, <2>2, <2>4, <3>1 DEF BurstInv, SlotsAllUsed
  <2> QED
    BY <1>2, <2>3, <2>4
<1>4. CASE Refuse(c) \/ SleepFor(c)
  <2>1. recent' = recent /\ count' > Calls
    BY <1>4 DEF Refuse, SleepFor
  <2>2. left > 0
    BY <1>2, <2>1 DEF Acquire, Reserve
  <2>3. left' = left /\ count >= Calls
    BY <1>2, <2>1, <2>2 DEF Acquire, Reserve, KeepCounting
  <2> QED
    BY <1>1, <1>2, <2>1, <2>2, <2>3 DEF BurstInv, SlotsAllUsed
<1> QED
  BY <1>3, <1>4 DEF Acquire

(* A tick ago is two ticks ago after the next tick.                        *)
LEMMA TickCounts ==
  ASSUME BurstInv, Tick
  PROVE  BurstInv'
<1> USE RateLimitAssumption
<1>1. SleepInv'
  BY TickKeeps DEF BurstInv
<1>2. /\ left \in 0..Period /\ count \in Nat /\ recent \in [Ages -> Nat]
      /\ count' = count /\ left' = Sooner(left)
      /\ recent' = [a \in Ages |-> IF a = 0 THEN 0 ELSE recent[a - 1]]
  BY DEF Tick, BurstInv, SleepInv, TypeOK
<1>3. \A a \in Ages : a # 0 => a - 1 \in Ages /\ recent'[a] = recent[a - 1]
  BY <1>2 DEF Ages
<1>4. 0 \in Ages /\ recent'[0] = 0 /\ Period \in Ages /\ recent'[Period] = recent[Period - 1]
  BY <1>2, <1>3 DEF Ages
<1>5. \A a, b \in Ages : a <= b => recent'[a] <= recent'[b]
  <2> SUFFICES ASSUME NEW a \in Ages, NEW b \in Ages, a <= b PROVE recent'[a] <= recent'[b]
    OBVIOUS
  <2>1. CASE a = 0
    BY <1>2, <1>3, <1>4, <2>1
  <2>2. CASE a # 0
    <3>1. b # 0 /\ a - 1 <= b - 1 /\ a - 1 \in Ages /\ b - 1 \in Ages
      BY <1>3, <2>2 DEF Ages
    <3> QED
      BY <1>3, <2>2, <3>1 DEF BurstInv
  <2> QED
    BY <2>1, <2>2
<1>6. Period - 1 \in Ages /\ recent[Period - 1] <= recent[Period]
      /\ recent[Period - 1] \in Nat /\ recent[Period] \in Nat
  BY <1>2 DEF BurstInv, Ages
<1>7. CASE left = 0
  <2>1. left' = 0
    BY <1>7, <1>2 DEF Sooner
  <2>2. recent'[Period] <= Calls
    BY <1>4, <1>6, <1>7 DEF BurstInv
  <2> QED
    BY <1>1, <1>4, <1>5, <2>1, <2>2 DEF BurstInv, SlotsAllUsed
<1>8. CASE left = 1
  <2>1. left' = 0
    BY <1>8, <1>2 DEF Sooner
  <2>2. recent[Period - 1] <= Calls
    BY <1>2, <1>8 DEF BurstInv, SlotsAllUsed
  <2> QED
    BY <1>1, <1>4, <1>5, <2>1, <2>2 DEF BurstInv, SlotsAllUsed
<1>9. CASE left > 1
  <2>1. left' = left - 1 /\ left' > 0
    BY <1>9, <1>2 DEF Sooner
  <2>2. Period - left' \in Ages /\ Period - left' # 0 /\ Period - left' - 1 = Period - left
        /\ Period - left \in Ages
    BY <1>2, <1>9, <2>1 DEF Ages
  <2>3. recent'[Period - left'] = recent[Period - left]
    BY <1>3, <2>2
  <2>4. recent'[Period] <= recent'[Period - left'] + Calls
    <3>1. recent[Period] <= recent[Period - left] + Calls /\ recent[Period - left] \in Nat
      BY <1>2, <1>9, <2>2 DEF BurstInv
    <3> QED
      BY <1>4, <1>6, <2>3, <3>1
  <2>5. SlotsAllUsed'
    BY <1>2, <1>9, <2>3 DEF BurstInv, SlotsAllUsed
  <2> QED
    BY <1>1, <1>5, <2>1, <2>4, <2>5 DEF BurstInv
<1> QED
  BY <1>2, <1>7, <1>8, <1>9

(* Every step of the limiter keeps the invariant.                          *)
LEMMA BurstStep == BurstInv /\ [Next]_vars => BurstInv'
<1> SUFFICES ASSUME BurstInv, [Next]_vars PROVE BurstInv'
  OBVIOUS
<1>1. SleepInv'
  BY SleepStep DEF BurstInv
<1>2. CASE UNCHANGED <<left, count, recent>>
  BY <1>1, <1>2 DEF BurstInv, SlotsAllUsed
<1>3. CASE Tick
  BY <1>3, TickCounts
<1>4. ASSUME NEW c \in Callers, Acquire(c) PROVE BurstInv'
  BY <1>4, AcquireCounts
<1> QED
  BY <1>2, <1>3, <1>4 DEF Next, vars, Wake, Cancel

(* The invariant holds in every reachable state.                           *)
LEMMA BurstInvariant == Spec => []BurstInv
  BY BurstInit, BurstStep, PTL DEF Spec

(* The first `Calls` calls of a window go through at once, whoever makes   *)
(* them: none is refused or delayed while a slot is left, and a slot that  *)
(* a refused or cancelled call has spent was not one of them.              *)
THEOREM WindowIsUsedUp == Spec => []SlotsAllUsed
<1>1. BurstInv => SlotsAllUsed
  BY DEF BurstInv
<1> QED
  BY <1>1, BurstInvariant, PTL

(* ratelimit.py:84: a fixed window cannot do better, and does no worse:    *)
(* at most 2 * Calls calls go through without waiting in any Period.       *)
THEOREM BurstsAreBounded == Spec => []BurstBounded
<1>1. BurstInv => BurstBounded
  <2> SUFFICES ASSUME BurstInv PROVE BurstBounded
    OBVIOUS
  <2>1. /\ left \in 0..Period /\ count \in Nat /\ recent \in [Ages -> Nat]
        /\ {Period - 1, Period} \subseteq Ages /\ (left > 0 => Period - left \in Ages)
    BY RateLimitAssumption DEF BurstInv, SleepInv, TypeOK, Ages
  <2>2. recent[Period - 1] <= recent[Period]
    BY <2>1, RateLimitAssumption DEF BurstInv
  <2>3. recent[Period] <= 2 * Calls
    BY <2>1, RateLimitAssumption DEF BurstInv, SlotsAllUsed
  <2> QED
    BY <2>1, <2>2, <2>3, RateLimitAssumption DEF BurstBounded
<1> QED
  BY <1>1, BurstInvariant, PTL

----------------------------------------------------------------------------
(* The window of the host is the window of RateLimit.                      *)

(* Whatever a call does to the window is a step of RateLimit, or none.     *)
LEMMA WindowStep == [GatesNext]_allVars => [Next]_vars
<1> SUFFICES ASSUME [GatesNext]_allVars PROVE [Next]_vars
  OBVIOUS
<1>1. CASE UNCHANGED allVars
  BY <1>1 DEF allVars, window, vars
<1>2. CASE Tick
  BY <1>2 DEF Next
<1>3. ASSUME NEW c \in Callers, Gate(c) \/ Rouse(c) PROVE [Next]_vars
  BY <1>3 DEF Gate, Rouse, Next
<1>4. ASSUME NEW c \in Callers, EndSleep(c) PROVE [Next]_vars
  BY <1>4 DEF EndSleep, Next, window, vars
<1>5. CASE UNCHANGED window
  BY <1>5 DEF window, vars
<1>6. ASSUME NEW c \in Callers, Step(c) PROVE [Next]_vars
  BY <1>3, <1>4, <1>5, <1>6
  DEF Step, Send, Answer, Split, Lost, CancelSegment, Joined
<1>7. ASSUME NEW c \in Callers, Begin(c) \/ Iterate(c) \/ Grant(c) \/ GiveUp(c) \/ Interrupt(c)
      PROVE [Next]_vars
  BY <1>5, <1>7 DEF Begin, Iterate, Grant, GiveUp, Interrupt
<1>8. ASSUME NEW c \in Callers, Resume(c) \/ Close(c) \/ Drop(c) \/ Collect(c) PROVE [Next]_vars
  BY <1>5, <1>8 DEF Resume, Close, Drop, Collect
<1>9. ASSUME NEW c \in Callers, Raise(c) PROVE [Next]_vars
  BY <1>4, <1>9 DEF Raise
<1> QED
  BY <1>1, <1>2, <1>6, <1>7, <1>8, <1>9 DEF GatesNext

(* Under the calls of a host, whatever their kinds, the window behaves as  *)
(* RateLimit says.                                                         *)
THEOREM GatesImplementRateLimit == GatesSpec => Spec
<1>1. GatesInit => Init
  BY DEF GatesInit
<1>2. [GatesNext]_allVars => [Next]_vars
  BY WindowStep
<1> QED
  BY <1>1, <1>2, PTL DEF GatesSpec, Spec

(* README.md:284: also between streams and downloads, a call that is over  *)
(* the limit sleeps exactly until the window resets.                       *)
THEOREM GatesSleepUntilReset == GatesSpec => []BlocksUntilReset
  BY GatesImplementRateLimit, SleepsEndWithWindow, PTL

(* README.md:284: nor is a call that reaches the rate limit while the      *)
(* window has a slot left ever refused or delayed, whatever sends it.      *)
THEOREM GatesUseUpWindows == GatesSpec => []SlotsAllUsed
  BY GatesImplementRateLimit, WindowIsUsedUp, PTL

(* ratelimit.py:84: all kinds of calls together, and the workers of their  *)
(* downloads, are within the bound of a fixed window.                      *)
THEOREM GatesBurstsAreBounded == GatesSpec => []BurstBounded
  BY GatesImplementRateLimit, BurstsAreBounded, PTL

----------------------------------------------------------------------------
(* What the calls of a host look like.                                     *)

CallRecord ==
  [kind : {"none", "decode", "stream", "single", "multi", "segment"}, pc : Labels,
   inside : Callers \cup {NoCall}, try : Nat, paid : BOOLEAN, owed : Nat]

(* A worker has no slot to wait for, and the download that started it, if  *)
(* it still has one, is split and waits for it.                            *)
SegmentOwned(c) ==
  Is(c, {"segment"}) =>
    /\ At(c, {"gate", "send", "await"})
    /\ call[c].inside # NoCall => At(call[c].inside, {"join", "stop"})

(* Only a call at the rate limit sleeps, and only downloads are split.     *)
Shape ==
  /\ call \in [Callers -> CallRecord] /\ waiting \subseteq Callers
  /\ \A c \in waiting : At(c, {"gate"})
  /\ \A c \in Callers : At(c, {"join", "stop"}) => Is(c, {"multi"})
  /\ \A c \in Callers : SegmentOwned(c)

(* No call is under way at first.                                          *)
LEMMA ShapeInit == GatesInit => Shape
  BY GatesAssumption
  DEF GatesInit, Init, Shape, Idle, CallRecord, Labels, SegmentOwned, At, Is

(* The record of a call that sends.                                        *)
LEMMA RecordSends ==
  ASSUME NEW old \in CallRecord
  PROVE  LET r == [old EXCEPT !.pc = "await", !.paid = FALSE,
                              !.owed = IF old.paid THEN @ ELSE @ + 1]
         IN  r \in CallRecord /\ r.kind = old.kind /\ r.inside = old.inside /\ r.pc = "await"
<1>1. ASSUME NEW n \in Nat
      PROVE  LET r == [old EXCEPT !.pc = "await", !.paid = FALSE, !.owed = n]
             IN  r \in CallRecord /\ r.kind = old.kind /\ r.inside = old.inside /\ r.pc = "await"
  BY DEF CallRecord, Labels
<1>2. old.owed \in Nat /\ old.owed + 1 \in Nat
  BY DEF CallRecord
<1>3. CASE old.paid
  BY <1>1, <1>2, <1>3
<1>4. CASE ~old.paid
  BY <1>1, <1>2, <1>4
<1> QED
  BY <1>3, <1>4

(* The record of a call that retries.                                      *)
LEMMA RecordRetries ==
  ASSUME NEW old \in CallRecord, NEW label \in {"gate", "send"}
  PROVE  LET r == [old EXCEPT !.pc = label, !.try = @ + 1]
         IN  r \in CallRecord /\ r.kind = old.kind /\ r.inside = old.inside /\ r.pc = label
<1>1. old.try + 1 \in Nat
  BY DEF CallRecord
<1> QED
  BY <1>1 DEF CallRecord, Labels

(* A step that changes the record of one call.                             *)
LEMMA OneCallMoves ==
  ASSUME Shape, NEW c \in Callers, NEW r \in CallRecord,
         call' = [call EXCEPT ![c] = r],
         waiting' \subseteq waiting, c \in waiting' => r.pc = "gate",
         At(c, {"join", "stop"}) => r.pc \in {"join", "stop"},
         r.pc \in {"join", "stop"} => r.kind = "multi",
         r.kind = "segment" => /\ r.pc \in {"gate", "send", "await"}
                               /\ Is(c, {"segment"}) /\ r.inside = call[c].inside
  PROVE  Shape'
<1>1. call' \in [Callers -> CallRecord] /\ call'[c] = r
  BY DEF Shape
<1>2. \A d \in Callers \ {c} : call'[d] = call[d]
  BY DEF Shape
<1>3. waiting' \subseteq Callers /\ \A d \in waiting' : call'[d].pc = "gate"
  BY <1>1, <1>2 DEF Shape, At
<1>4. \A d \in Callers : call'[d].pc \in {"join", "stop"} => call'[d].kind = "multi"
  BY <1>1, <1>2 DEF Shape, At, Is
<1>5. \A d \in Callers : At(d, {"join", "stop"}) => call'[d].pc \in {"join", "stop"}
  BY <1>1, <1>2 DEF At
<1>6. \A d \in Callers : call'[d].kind = "segment" =>
        /\ Is(d, {"segment"}) /\ call'[d].inside = call[d].inside
        /\ call'[d].pc \in {"gate", "send", "await"}
  BY <1>1, <1>2 DEF Shape, SegmentOwned, Is, At
<1>7. \A d \in Callers : call[d].inside \in Callers \cup {NoCall}
  BY DEF Shape, CallRecord
<1>8. \A d \in Callers : SegmentOwned(d)'
  BY <1>5, <1>6, <1>7 DEF Shape, SegmentOwned, Is, At
<1> QED
  BY <1>1, <1>3, <1>4, <1>8 DEF Shape, Is, At

(* A call ends, and with it whatever was inside it is inside nothing.      *)
LEMMA CallEnds ==
  ASSUME Shape, NEW c \in Callers, call' = Without(c), waiting' \subseteq waiting \ {c}
  PROVE  Shape'
<1>1. call' \in [Callers -> CallRecord]
  BY DEF Shape, Without, Idle, CallRecord, Labels
<1>2. call'[c] = Idle
  BY DEF Without
<1>3. \A d \in Callers \ {c} :
        /\ call'[d].kind = call[d].kind /\ call'[d].pc = call[d].pc
        /\ call'[d].inside = IF call[d].inside = c THEN NoCall ELSE call[d].inside
  BY DEF Shape, Without, CallRecord
<1>4. waiting' \subseteq Callers /\ \A d \in waiting' : call'[d].pc = "gate"
  BY <1>3 DEF Shape, At
<1>5. \A d \in Callers : call'[d].pc \in {"join", "stop"} => call'[d].kind = "multi"
  BY <1>2, <1>3 DEF Shape, At, Is, Idle
<1>6. \A d \in Callers : call[d].inside \in Callers \cup {NoCall}
  BY DEF Shape, CallRecord
<1>7. \A d \in Callers : SegmentOwned(d)'
  BY <1>2, <1>3, <1>6, GatesAssumption DEF Shape, SegmentOwned, Is, At, Idle
<1> QED
  BY <1>1, <1>4, <1>5, <1>7 DEF Shape, Is, At

(* A worker that cannot go on may stop the download it works for.          *)
LEMMA SegmentFailsShape ==
  ASSUME Shape, NEW c \in Callers, Is(c, {"segment"}), SegmentFails(c),
         waiting' \subseteq waiting \ {c}
  PROVE  Shape'
<1>1. call' \in [Callers -> CallRecord]
  BY DEF Shape, SegmentFails, Idle, CallRecord, Labels
<1>2. call'[c] = Idle
  BY DEF SegmentFails
<1>3. \A d \in Callers \ {c} : call[d] \in CallRecord /\ (call'[d] = call[d] \/
        /\ Tasks /\ d = call[c].inside /\ call'[d] = [call[d] EXCEPT !.pc = "stop"]
        /\ At(d, {"join", "stop"}))
  BY GatesAssumption DEF Shape, SegmentOwned, SegmentFails
<1>4. \A d \in Callers \ {c} :
        /\ call'[d].kind = call[d].kind /\ call'[d].inside = call[d].inside
        /\ call'[d].pc = call[d].pc \/ (At(d, {"join", "stop"}) /\ call'[d].pc = "stop")
  <2> TAKE d \in Callers \ {c}
  <2>1. CASE call'[d] = call[d]
    BY <2>1
  <2>2. CASE call'[d] = [call[d] EXCEPT !.pc = "stop"] /\ At(d, {"join", "stop"})
    <3>1. call[d] \in CallRecord
      BY <1>3
    <3> QED
      BY <2>2, <3>1 DEF CallRecord
  <2> QED
    BY <1>3, <2>1, <2>2
<1>5. waiting' \subseteq Callers /\ \A d \in waiting' : call'[d].pc = "gate"
  BY <1>4 DEF Shape, At
<1>6. \A d \in Callers : call'[d].pc \in {"join", "stop"} => call'[d].kind = "multi"
  BY <1>2, <1>4 DEF Shape, At, Is, Idle
<1>7. ~At(c, {"join", "stop"})
  BY DEF Shape, Is, At
<1>8. \A d \in Callers : SegmentOwned(d)'
  BY <1>2, <1>4, <1>7, GatesAssumption DEF Shape, CallRecord, SegmentOwned, Is, At, Idle
<1> QED
  BY <1>1, <1>5, <1>6, <1>8 DEF Shape, Is, At

(* The workers a download starts are its own.                              *)
LEMMA SplitShape ==
  ASSUME Shape, NEW d \in Callers, Split(d)
  PROVE  Shape'
<1>1. PICK workers \in SUBSET {c \in Callers : At(c, {"idle"})} :
        call' = [c \in Callers |->
          IF c \in workers
          THEN [Idle EXCEPT !.kind = "segment", !.pc = "gate", !.inside = d]
          ELSE IF c = d THEN [call[d] EXCEPT !.pc = "join"] ELSE call[c]]
  BY DEF Split
<1>2. d \notin workers /\ Is(d, {"multi"}) /\ d \notin waiting /\ waiting' = waiting
  BY DEF Split, At, window
<1>3. call' \in [Callers -> CallRecord]
  BY <1>1, <1>2 DEF Shape, Idle, CallRecord, Labels
<1>4. \A c \in workers :
        /\ call'[c].kind = "segment" /\ call'[c].pc = "gate" /\ call'[c].inside = d
        /\ At(c, {"idle"})
  BY <1>1 DEF Idle
<1>5. call'[d].kind = "multi" /\ call'[d].pc = "join"
  BY <1>1, <1>2 DEF Shape, CallRecord, Is
<1>6. \A c \in Callers \ (workers \cup {d}) : call'[c] = call[c]
  BY <1>1
<1>7. waiting' \subseteq Callers /\ \A c \in waiting' : call'[c].pc = "gate"
  BY <1>2, <1>4, <1>6 DEF Shape, At
<1>8. \A c \in Callers : call'[c].pc \in {"join", "stop"} => call'[c].kind = "multi"
  BY <1>4, <1>5, <1>6 DEF Shape, At, Is
<1>9. \A c \in Callers : SegmentOwned(c)'
  BY <1>4, <1>5, <1>6, GatesAssumption DEF Shape, CallRecord, SegmentOwned, Is, At
<1> QED
  BY <1>3, <1>7, <1>8, <1>9 DEF Shape, Is, At

(* Every way to end a call that is not split.                              *)
LEMMA FailShape ==
  ASSUME Shape, NEW c \in Callers, Fail(c), waiting' \subseteq waiting \ {c}
  PROVE  Shape'
  BY CallEnds, SegmentFailsShape DEF Fail, Leave

(* Every step keeps the shape of the calls.                                *)
LEMMA ShapeStep == Shape /\ [GatesNext]_allVars => Shape'
<1> SUFFICES ASSUME Shape, [GatesNext]_allVars PROVE Shape'
  OBVIOUS
<1> USE DEF At, Is
<1>1. CASE UNCHANGED <<gates, waiting>>
  BY <1>1 DEF gates, Shape, SegmentOwned
<1>2. CASE Tick /\ UNCHANGED gates
  BY <1>1, <1>2 DEF Tick
<1>3. ASSUME NEW c \in Callers, Begin(c) PROVE Shape'
  <2>1. PICK kind \in Kinds, s \in Callers \cup {NoCall} :
          call' = [call EXCEPT ![c] =
            [Idle EXCEPT !.kind = kind, !.inside = s,
                         !.pc = IF kind = "stream" THEN "gate" ELSE "wait"]]
    BY <1>3 DEF Begin
  <2> DEFINE r == [Idle EXCEPT !.kind = kind, !.inside = s,
                               !.pc = IF kind = "stream" THEN "gate" ELSE "wait"]
  <2>2. r \in CallRecord /\ r.kind # "segment" /\ r.pc \notin {"join", "stop"}
    BY GatesAssumption DEF Idle, CallRecord, Labels
  <2>3. c \notin waiting' /\ waiting' = waiting /\ ~At(c, {"join", "stop"})
    BY <1>3 DEF Begin, window, Shape
  <2>4. call' = [call EXCEPT ![c] = r]
    BY <2>1
  <2> HIDE DEF r
  <2> QED
    BY <2>2, <2>3, <2>4, OneCallMoves
<1>4. ASSUME NEW c \in Callers, NEW label \in Labels \ {"stop"}, Goto(c, label),
             waiting' \subseteq waiting, c \in waiting' => label = "gate",
             ~At(c, {"join", "stop"}), label # "join",
             Is(c, {"segment"}) => label \in {"gate", "send", "await"}
      PROVE  Shape'
  <2>1. [call[c] EXCEPT !.pc = label] \in CallRecord
    BY DEF Shape, CallRecord
  <2> QED
    BY <1>4, <2>1, OneCallMoves DEF Goto, Shape, CallRecord
<1>5. ASSUME NEW c \in Callers, GiveUp(c) PROVE Shape'
  BY <1>5, OneCallMoves DEF GiveUp, Idle, CallRecord, Labels, window, Shape
<1>6. ASSUME NEW c \in Callers, Iterate(c) \/ Grant(c) \/ Resume(c) \/ Drop(c) PROVE Shape'
  BY <1>4, <1>6 DEF Iterate, Grant, Resume, Drop, Labels, window, Shape, SegmentOwned
<1>7. ASSUME NEW c \in Callers, At(c, {"gate"}), Pass(c), waiting' \subseteq waiting \ {c}
      PROVE  Shape'
  <2> DEFINE r == [call[c] EXCEPT !.paid = TRUE,
                                  !.pc = IF Is(c, {"stream"}) THEN "made" ELSE "send"]
  <2>1. r \in CallRecord /\ r.kind = call[c].kind /\ r.inside = call[c].inside
        /\ r.pc = IF Is(c, {"stream"}) THEN "made" ELSE "send"
    BY DEF Shape, CallRecord, Labels
  <2>2. call' = [call EXCEPT ![c] = r]
    BY <1>7 DEF Pass, Shape
  <2> HIDE DEF r
  <2> QED
    BY <1>7, <2>1, <2>2, OneCallMoves DEF Shape
<1>8. ASSUME NEW c \in Callers, Gate(c) PROVE Shape'
  <2>1. CASE Admit(c) /\ Pass(c)
    BY <1>7, <1>8, <2>1 DEF Gate, Acquire, Admit
  <2>2. CASE Refuse(c) /\ Fail(c)
    BY <1>8, <2>2, FailShape DEF Gate, Acquire, Refuse
  <2>3. CASE SleepFor(c) /\ UNCHANGED gates
    BY <1>8, <2>3 DEF Gate, SleepFor, gates, Shape, SegmentOwned
  <2> QED
    BY <1>8, <2>1, <2>2, <2>3 DEF Gate
<1>9. ASSUME NEW c \in Callers, Rouse(c) PROVE Shape'
  BY <1>7, <1>9 DEF Rouse, Wake, Shape
<1>10. ASSUME NEW c \in Callers, Send(c) PROVE Shape'
  <2> DEFINE r == [call[c] EXCEPT !.pc = "await", !.paid = FALSE,
                                  !.owed = IF call[c].paid THEN @ ELSE @ + 1]
  <2>1. r \in CallRecord /\ r.kind = call[c].kind /\ r.inside = call[c].inside /\ r.pc = "await"
    BY RecordSends DEF Shape
  <2>2. call' = [call EXCEPT ![c] = r]
    BY <1>10 DEF Send, Shape
  <2>3. c \notin waiting /\ waiting' = waiting /\ ~At(c, {"join", "stop"})
    BY <1>10 DEF Send, Shape, window
  <2> HIDE DEF r
  <2> QED
    BY <2>1, <2>2, <2>3, OneCallMoves
<1>11. ASSUME NEW c \in Callers, Leave(c), c \notin waiting, UNCHANGED window PROVE Shape'
  BY <1>11, CallEnds DEF Leave, window
<1>12. ASSUME NEW c \in Callers, Answer(c) PROVE Shape'
  <2>1. CASE Leave(c)
    BY <1>11, <1>12, <2>1 DEF Answer, Shape
  <2>2. CASE Is(c, {"stream"}) /\ Goto(c, "yield")
    BY <1>4, <1>12, <2>2 DEF Answer, Labels, window, Shape
  <2>3. CASE Is(c, {"multi"}) /\
             call' = [call EXCEPT ![c].kind = "single", ![c].pc = "gate", ![c].try = 0]
    <3> DEFINE r == [call[c] EXCEPT !.kind = "single", !.pc = "gate", !.try = 0]
    <3>1. r \in CallRecord /\ r.kind = "single" /\ r.pc = "gate"
      BY DEF Shape, CallRecord, Labels
    <3>2. call' = [call EXCEPT ![c] = r]
      BY <2>3 DEF Shape
    <3> HIDE DEF r
    <3> QED
      BY <1>12, <3>1, <3>2, OneCallMoves DEF Answer, Shape, window
  <2> QED
    BY <1>12, <2>1, <2>2, <2>3 DEF Answer
<1>13. ASSUME NEW c \in Callers, Lost(c) PROVE Shape'
  <2>1. CASE Leave(c)
    BY <1>11, <1>13, <2>1 DEF Lost, Shape
  <2>2. CASE call' = [call EXCEPT ![c].pc = Again(c), ![c].try = @ + 1]
    <3> DEFINE r == [call[c] EXCEPT !.pc = Again(c), !.try = @ + 1]
    <3>1. r \in CallRecord /\ r.kind = call[c].kind /\ r.inside = call[c].inside
          /\ r.pc \in {"gate", "send"}
      <4>1. call[c] \in CallRecord /\ Again(c) \in {"gate", "send"}
        BY DEF Shape, Again
      <4> HIDE DEF Is, At
      <4> QED
        BY <4>1, RecordRetries
    <3>2. call' = [call EXCEPT ![c] = r]
      BY <2>2 DEF Shape
    <3> HIDE DEF r
    <3> QED
      BY <1>13, <3>1, <3>2, OneCallMoves DEF Lost, Shape, window
  <2> QED
    BY <1>13, <2>1, <2>2 DEF Lost
<1>14. ASSUME NEW c \in Callers, EndSleep(c) PROVE waiting' \subseteq waiting \ {c}
  BY <1>14 DEF EndSleep, Cancel, window
<1>15. ASSUME NEW c \in Callers, Raise(c) PROVE Shape'
  BY <1>14, <1>15, FailShape DEF Raise
<1>16. ASSUME NEW d \in Callers, Interrupt(d) PROVE Shape'
  <2>1. CASE Leave(d)
    BY <1>11, <1>16, <2>1 DEF Interrupt, Shape
  <2>2. CASE Goto(d, "stop")
    <3>1. [call[d] EXCEPT !.pc = "stop"] \in CallRecord
      BY DEF Shape, CallRecord, Labels
    <3> QED
      BY <1>16, <2>2, <3>1, OneCallMoves DEF Interrupt, Goto, Shape, CallRecord, window
  <2> QED
    BY <1>16, <2>1, <2>2 DEF Interrupt
<1>17. ASSUME NEW c \in Callers, CancelSegment(c) PROVE Shape'
  BY <1>14, <1>17, CallEnds DEF CancelSegment, Leave
<1>18. ASSUME NEW c \in Callers, Joined(c) \/ Close(c) \/ Collect(c) PROVE Shape'
  BY <1>11, <1>18 DEF Joined, Close, Collect, Shape
<1>19. ASSUME NEW c \in Callers, Step(c) PROVE Shape'
  BY <1>8, <1>9, <1>10, <1>12, <1>13, <1>17, <1>18, <1>19, SplitShape DEF Step
<1> QED
  BY <1>1, <1>2, <1>3, <1>5, <1>6, <1>15, <1>16, <1>18, <1>19 DEF GatesNext, allVars, window

(* What the calls of a host look like, always.                             *)
LEMMA ShapeHolds == GatesSpec => []Shape
  BY ShapeInit, ShapeStep, PTL DEF GatesSpec

----------------------------------------------------------------------------
(* Slots.                                                                  *)

Holders == {c \in Callers : Holds(c)}

SlotInv == Shape /\ free \in Nat /\ SlotsOfHost

(* A step of c alone makes it a holder, or makes it no holder.             *)
LEMMA HoldersMove ==
  ASSUME NEW c \in Callers,
         \A d \in Callers \ {c} : call'[d].kind = call[d].kind /\ call'[d].pc = call[d].pc
  PROVE  Holders' = IF Holds(c)' THEN Holders \cup {c} ELSE Holders \ {c}
<1>1. \A d \in Callers \ {c} : Holds(d)' <=> Holds(d)
  BY DEF Holds, Is, At
<1> QED
  BY <1>1 DEF Holders

(* The sum is kept by a step that moves nobody, by a grant and by an end.  *)
LEMMA SlotsKept ==
  ASSUME SlotInv, NEW c \in Callers,
         \/ Holders' = Holders /\ free' = free
         \/ /\ c \notin Holders /\ Holders' = Holders \cup {c}
            /\ free > 0 /\ free' = free - 1
         \/ c \in Holders /\ Holders' = Holders \ {c} /\ free' = free + 1
  PROVE  free' \in Nat /\ SlotsOfHost'
<1>1. IsFiniteSet(Holders)
  BY GatesAssumption, FS_Subset DEF Holders
<1>2. Cardinality(Holders) \in Nat
  BY <1>1, FS_CardinalityType
<1>3. free + Cardinality(Holders) = Limit /\ free \in Nat
  BY DEF SlotInv, SlotsOfHost, Holders
<1>4. CASE Holders' = Holders /\ free' = free
  BY <1>3, <1>4 DEF SlotsOfHost, Holders
<1>5. CASE /\ c \notin Holders /\ Holders' = Holders \cup {c}
           /\ free > 0 /\ free' = free - 1
  <2>1. Cardinality(Holders') = Cardinality(Holders) + 1
    BY <1>1, <1>5, FS_AddElement
  <2>2. free' \in Nat /\ free' + Cardinality(Holders') = Limit
    BY <1>2, <1>3, <1>5, <2>1
  <2> QED
    BY <2>2 DEF SlotsOfHost, Holders
<1>6. CASE c \in Holders /\ Holders' = Holders \ {c} /\ free' = free + 1
  <2>1. Cardinality(Holders') = Cardinality(Holders) - 1
    BY <1>1, <1>6, FS_RemoveElement
  <2>2. free' \in Nat /\ free' + Cardinality(Holders') = Limit
    BY <1>2, <1>3, <1>6, <2>1
  <2> QED
    BY <2>2 DEF SlotsOfHost, Holders
<1> QED
  BY <1>4, <1>5, <1>6

(* A call of any kind that ends gives back the slot it has, and no other.  *)
LEMMA LeaveSlots ==
  ASSUME SlotInv, NEW c \in Callers, Leave(c)
  PROVE  free' \in Nat /\ SlotsOfHost'
<1>1. \A d \in Callers \ {c} : call'[d].kind = call[d].kind /\ call'[d].pc = call[d].pc
  BY DEF Leave, Without, SlotInv, Shape, CallRecord
<1>2. ~Holds(c)'
  BY DEF Leave, Without, Idle, Holds, At
<1>3. Holders' = Holders \ {c}
  BY <1>1, <1>2, HoldersMove
<1> QED
  BY <1>3, SlotsKept DEF Leave, Holders

(* A worker that fails has no slot, and the download it stops keeps its.   *)
LEMMA SegmentFailsSlots ==
  ASSUME SlotInv, NEW c \in Callers, Is(c, {"segment"}), SegmentFails(c)
  PROVE  free' \in Nat /\ SlotsOfHost'
<1>1. ~Holds(c) /\ ~Holds(c)'
  BY DEF SegmentFails, Idle, Holds, At, Is
<1>2. ASSUME NEW d \in Callers \ {c} PROVE Holds(d)' <=> Holds(d)
  <2>1. CASE call'[d] = call[d]
    BY <2>1 DEF Holds, At, Is
  <2>2. CASE Tasks /\ d = call[c].inside
    <3>1. call[d] \in CallRecord /\ call'[d] = [call[d] EXCEPT !.pc = "stop"]
      BY <2>2 DEF SegmentFails, SlotInv, Shape
    <3>2. call'[d].kind = call[d].kind /\ call'[d].pc = "stop"
      BY <3>1 DEF CallRecord
    <3>3. At(d, {"join", "stop"}) /\ Is(d, {"multi"})
      BY <2>2, GatesAssumption DEF SlotInv, Shape, SegmentOwned
    <3> QED
      BY <3>2, <3>3 DEF Holds, At, Is
  <2> QED
    BY <2>1, <2>2 DEF SegmentFails
<1>3. Holders' = Holders /\ free' = free
  BY <1>1, <1>2 DEF Holders, SegmentFails
<1> QED
  BY <1>3, SlotsKept

(* A download that splits keeps its slot and its workers have none.        *)
LEMMA SplitSlots ==
  ASSUME SlotInv, NEW d \in Callers, Split(d)
  PROVE  free' \in Nat /\ SlotsOfHost'
<1>1. PICK workers \in SUBSET {c \in Callers : At(c, {"idle"})} :
        call' = [c \in Callers |->
          IF c \in workers
          THEN [Idle EXCEPT !.kind = "segment", !.pc = "gate", !.inside = d]
          ELSE IF c = d THEN [call[d] EXCEPT !.pc = "join"] ELSE call[c]]
  BY DEF Split
<1>2. \A c \in workers : ~Holds(c) /\ ~Holds(c)'
  BY <1>1 DEF Idle, Holds, At, Is
<1>3. d \notin workers /\ Holds(d) /\ call[d] \in CallRecord
  BY DEF Split, Holds, At, Is, SlotInv, Shape
<1>4. call'[d] = [call[d] EXCEPT !.pc = "join"]
  BY <1>1, <1>3
<1>5. call'[d].kind = call[d].kind /\ call'[d].pc = "join"
  BY <1>3, <1>4 DEF CallRecord
<1>6. Holds(d)'
  BY <1>3, <1>5 DEF Split, Holds, At, Is
<1>7. \A c \in Callers \ (workers \cup {d}) : Holds(c)' <=> Holds(c)
  BY <1>1 DEF Holds, At, Is
<1>8. Holders' = Holders /\ free' = free
  BY <1>2, <1>3, <1>6, <1>7 DEF Holders, Split
<1> QED
  BY <1>8, SlotsKept

(* The record r is that of a call with a slot.                             *)
Holding(r) ==
  /\ r.kind # "segment" /\ r.pc \notin {"idle", "made", "wait"}
  /\ r.kind = "stream" => r.pc # "gate"

(* A step of one call that is no grant and no end.                         *)
LEMMA StaySlots ==
  ASSUME SlotInv, NEW c \in Callers, NEW r, call' = [call EXCEPT ![c] = r], free' = free,
         Holding(r) <=> Holds(c)
  PROVE  free' \in Nat /\ SlotsOfHost'
<1>1. call'[c] = r /\ \A d \in Callers \ {c} : call'[d] = call[d]
  BY DEF SlotInv, Shape
<1>2. Holds(c)' <=> Holds(c)
  BY <1>1 DEF Holding, Holds, At, Is
<1>3. Holders' = Holders
  BY <1>1, <1>2, HoldersMove DEF Holders
<1> QED
  BY <1>3, SlotsKept

(* The same for a step that only changes the label.                        *)
LEMMA GotoSlots ==
  ASSUME SlotInv, NEW c \in Callers, NEW label, Goto(c, label), free' = free,
         Holding([kind |-> call[c].kind, pc |-> label]) <=> Holds(c)
  PROVE  free' \in Nat /\ SlotsOfHost'
<1>1. call[c] \in CallRecord
  BY DEF SlotInv, Shape
<1> DEFINE r == [call[c] EXCEPT !.pc = label]
<1>2. r.kind = call[c].kind /\ r.pc = label
  BY <1>1 DEF CallRecord
<1>3. call' = [call EXCEPT ![c] = r]
  BY DEF Goto
<1> HIDE DEF r
<1> QED
  BY <1>2, <1>3, StaySlots DEF Holding

(* Past the rate limit a stream has no slot yet, any other call has one.   *)
LEMMA PassSlots ==
  ASSUME SlotInv, NEW c \in Callers, At(c, {"gate"}), Pass(c)
  PROVE  free' \in Nat /\ SlotsOfHost'
<1>1. call[c] \in CallRecord
  BY DEF SlotInv, Shape
<1> DEFINE r == [call[c] EXCEPT !.paid = TRUE,
                                !.pc = IF Is(c, {"stream"}) THEN "made" ELSE "send"]
<1>2. r.kind = call[c].kind /\ r.pc = IF Is(c, {"stream"}) THEN "made" ELSE "send"
  BY <1>1 DEF CallRecord
<1>3. call' = [call EXCEPT ![c] = r] /\ free' = free
  BY DEF Pass, SlotInv, Shape
<1> HIDE DEF r
<1> QED
  BY <1>2, <1>3, StaySlots DEF Holding, Holds, At, Is

(* A failure frees a slot only with the end of a call that has one.        *)
LEMMA FailSlots ==
  ASSUME SlotInv, NEW c \in Callers, Fail(c)
  PROVE  free' \in Nat /\ SlotsOfHost'
  BY LeaveSlots, SegmentFailsSlots DEF Fail

(* A response or its failure frees a slot only with the end of its call.   *)
LEMMA AnswerSlots ==
  ASSUME SlotInv, NEW c \in Callers, Answer(c) \/ Lost(c)
  PROVE  free' \in Nat /\ SlotsOfHost'
<1>1. call[c] \in CallRecord /\ At(c, {"await"})
  BY DEF SlotInv, Shape, Answer, Lost
<1>2. CASE Leave(c)
  BY <1>2, LeaveSlots
<1>3. CASE Is(c, {"stream"}) /\ Goto(c, "yield") /\ free' = free
  BY <1>1, <1>3, GotoSlots DEF Holding, Holds, At, Is
<1>4. CASE /\ Is(c, {"multi"}) /\ free' = free
           /\ call' = [call EXCEPT ![c].kind = "single", ![c].pc = "gate", ![c].try = 0]
  <2> DEFINE r == [call[c] EXCEPT !.kind = "single", !.pc = "gate", !.try = 0]
  <2>1. r.kind = "single" /\ r.pc = "gate"
    BY <1>1 DEF CallRecord
  <2>2. call' = [call EXCEPT ![c] = r]
    BY <1>4 DEF SlotInv, Shape
  <2> HIDE DEF r
  <2> QED
    BY <1>1, <1>4, <2>1, <2>2, StaySlots DEF Holding, Holds, At, Is
<1>5. CASE call' = [call EXCEPT ![c].pc = Again(c), ![c].try = @ + 1] /\ free' = free
  <2> DEFINE r == [call[c] EXCEPT !.pc = Again(c), !.try = @ + 1]
  <2>1. r.kind = call[c].kind /\ r.pc = Again(c)
    BY <1>1 DEF CallRecord
  <2>2. call' = [call EXCEPT ![c] = r]
    BY <1>5 DEF SlotInv, Shape
  <2> HIDE DEF r
  <2> QED
    BY <1>1, <1>5, <2>1, <2>2, StaySlots DEF Holding, Holds, Again, At, Is
<1> QED
  BY <1>2, <1>3, <1>4, <1>5 DEF Answer, Lost

(* Every step keeps the sum of free and held slots.                        *)
LEMMA SlotStep == SlotInv /\ [GatesNext]_allVars => SlotInv'
<1> SUFFICES ASSUME SlotInv, [GatesNext]_allVars PROVE free' \in Nat /\ SlotsOfHost'
  BY ShapeStep DEF SlotInv
<1>1. CASE UNCHANGED gates
  BY <1>1 DEF gates, SlotInv, SlotsOfHost, Holds, At, Is
<1>2. ASSUME NEW c \in Callers, Begin(c) PROVE free' \in Nat /\ SlotsOfHost'
  <2>1. PICK kind \in Kinds, s \in Callers \cup {NoCall} :
          call' = [call EXCEPT ![c] =
            [Idle EXCEPT !.kind = kind, !.inside = s,
                         !.pc = IF kind = "stream" THEN "gate" ELSE "wait"]]
    BY <1>2 DEF Begin
  <2> DEFINE r == [Idle EXCEPT !.kind = kind, !.inside = s,
                               !.pc = IF kind = "stream" THEN "gate" ELSE "wait"]
  <2>2. ~Holding(r)
    BY GatesAssumption DEF Idle, Holding
  <2>3. ~Holds(c) /\ free' = free
    BY <1>2 DEF Begin, Holds, At
  <2>4. call' = [call EXCEPT ![c] = r]
    BY <2>1
  <2> HIDE DEF r
  <2> QED
    BY <2>2, <2>3, <2>4, StaySlots
<1>3. ASSUME NEW c \in Callers, Iterate(c) \/ Resume(c) \/ Drop(c)
      PROVE  free' \in Nat /\ SlotsOfHost'
  BY <1>3, GotoSlots DEF Iterate, Resume, Drop, Holding, Holds, At, Is
<1>4. ASSUME NEW c \in Callers, Grant(c) PROVE free' \in Nat /\ SlotsOfHost'
  <2>1. call[c] \in CallRecord /\ ~Holds(c)
    BY <1>4 DEF SlotInv, Shape, Grant, Holds, At
  <2>2. /\ call'[c] = [call[c] EXCEPT !.pc = IF Is(c, {"stream"}) THEN "send" ELSE "gate"]
        /\ \A d \in Callers \ {c} : call'[d] = call[d]
    BY <1>4 DEF Grant, Goto, SlotInv, Shape
  <2>3. /\ call'[c].kind = call[c].kind
        /\ call'[c].pc = IF Is(c, {"stream"}) THEN "send" ELSE "gate"
    BY <2>1, <2>2 DEF CallRecord
  <2>4. Holds(c)'
    BY <1>4, <2>3 DEF Grant, Holds, At, Is, SlotInv, Shape, SegmentOwned
  <2>5. Holders' = Holders \cup {c}
    BY <2>2, <2>4, HoldersMove
  <2> QED
    BY <1>4, <2>1, <2>5, SlotsKept DEF Grant, SlotFor, Holders
<1>5. ASSUME NEW c \in Callers, GiveUp(c) PROVE free' \in Nat /\ SlotsOfHost'
  BY <1>5, StaySlots DEF GiveUp, Idle, Holding, Holds, At
<1>6. ASSUME NEW c \in Callers, Gate(c) PROVE free' \in Nat /\ SlotsOfHost'
  BY <1>1, <1>6, PassSlots, FailSlots DEF Gate
<1>7. ASSUME NEW c \in Callers, Rouse(c) PROVE free' \in Nat /\ SlotsOfHost'
  BY <1>7, PassSlots DEF Rouse, Wake, SlotInv, Shape
<1>8. ASSUME NEW c \in Callers, Send(c) PROVE free' \in Nat /\ SlotsOfHost'
  <2> DEFINE r == [call[c] EXCEPT !.pc = "await", !.paid = FALSE,
                                  !.owed = IF call[c].paid THEN @ ELSE @ + 1]
  <2>1. r.kind = call[c].kind /\ r.pc = "await"
    BY DEF SlotInv, Shape, CallRecord
  <2>2. call' = [call EXCEPT ![c] = r] /\ free' = free /\ At(c, {"send"})
    BY <1>8 DEF Send, SlotInv, Shape
  <2> HIDE DEF r
  <2> QED
    BY <2>1, <2>2, StaySlots DEF Holding, Holds, At, Is
<1>9. ASSUME NEW c \in Callers, CancelSegment(c) \/ Joined(c) \/ Close(c) \/ Collect(c)
      PROVE  free' \in Nat /\ SlotsOfHost'
  BY <1>9, LeaveSlots DEF CancelSegment, Joined, Close, Collect
<1>10. ASSUME NEW c \in Callers, Raise(c) PROVE free' \in Nat /\ SlotsOfHost'
  BY <1>10, FailSlots DEF Raise
<1>11. ASSUME NEW d \in Callers, Interrupt(d) PROVE free' \in Nat /\ SlotsOfHost'
  <2>1. CASE Leave(d)
    BY <2>1, LeaveSlots
  <2>2. CASE Goto(d, "stop") /\ free' = free
    BY <1>11, <2>2, GotoSlots DEF Interrupt, Holding, Holds, At, Is
  <2> QED
    BY <1>11, <2>1, <2>2 DEF Interrupt
<1>12. ASSUME NEW c \in Callers, Step(c) PROVE free' \in Nat /\ SlotsOfHost'
  BY <1>6, <1>7, <1>8, <1>9, <1>12, AnswerSlots, SplitSlots DEF Step
<1> QED
  BY <1>1, <1>2, <1>3, <1>4, <1>5, <1>9, <1>10, <1>11, <1>12 DEF GatesNext, allVars

(* Between calls of every kind, and however they end, no slot of the host  *)
(* is lost, and none is given back twice.                                  *)
THEOREM SlotsAreKept == GatesSpec => []SlotsOfHost
<1>1. GatesInit => SlotInv
  <2> SUFFICES ASSUME GatesInit PROVE SlotInv
    OBVIOUS
  <2>1. {c \in Callers : Holds(c)} = {}
    BY DEF GatesInit, Idle, Holds, At
  <2>2. Cardinality({c \in Callers : Holds(c)}) = 0
    BY <2>1, FS_EmptySet
  <2> QED
    BY <2>2, ShapeInit, GatesAssumption DEF GatesInit, SlotInv, SlotsOfHost
<1>2. SlotInv /\ [GatesNext]_allVars => SlotInv'
  BY SlotStep
<1>3. SlotInv => SlotsOfHost
  BY DEF SlotInv
<1> QED
  BY <1>1, <1>2, <1>3, PTL DEF GatesSpec

----------------------------------------------------------------------------
(* Requests.                                                               *)

(* Every worker belongs to a download that is still in its with block.     *)
Owned == \A c \in Callers : Is(c, {"segment"}) => call[c].inside # NoCall

TaskInv == Shape /\ Owned

(* Steps that start no worker and let none lose its download.              *)
LEMMA OwnedStays ==
  ASSUME Owned,
         \A d \in Callers : Is(d, {"segment"})' =>
           Is(d, {"segment"}) /\ call'[d].inside = call[d].inside
  PROVE  Owned'
  BY DEF Owned, Is

(* Only a download without workers ends, in a task group.                  *)
LEMMA LeaveOwned ==
  ASSUME TaskInv, NEW c \in Callers, Leave(c),
         At(c, {"join", "stop"}) => Segments(c) = {}
  PROVE  Owned'
<1>1. \A d \in Callers : Is(d, {"segment"}) => call[d].inside # c
  BY GatesAssumption DEF TaskInv, Owned, Shape, SegmentOwned, Segments
<1>2. ASSUME NEW d \in Callers, Is(d, {"segment"})'
      PROVE  Is(d, {"segment"}) /\ call'[d].inside = call[d].inside
  <2>1. d # c
    BY <1>2 DEF Leave, Without, Idle, Is
  <2>2. call[d] \in CallRecord
    BY DEF TaskInv, Shape
  <2>3. CASE call[d].inside = c
    BY <1>1, <1>2, <2>1, <2>2, <2>3 DEF Leave, Without, Is, CallRecord
  <2>4. CASE call[d].inside # c
    BY <1>2, <2>1, <2>4 DEF Leave, Without, Is
  <2> QED
    BY <2>3, <2>4
<1> QED
  BY <1>2, OwnedStays DEF TaskInv

(* A step that changes the record of one call.                             *)
LEMMA MoveOwned ==
  ASSUME TaskInv, NEW c \in Callers, NEW r, call' = [call EXCEPT ![c] = r],
         r.kind = "segment" => Is(c, {"segment"}) /\ r.inside = call[c].inside
  PROVE  Owned'
  BY OwnedStays DEF TaskInv, Shape, Is

(* Every step of tasks keeps the workers with their downloads.             *)
LEMMA TaskStep == ASSUME Tasks PROVE TaskInv /\ [GatesNext]_allVars => TaskInv'
<1> SUFFICES ASSUME TaskInv, [GatesNext]_allVars PROVE Owned'
  BY ShapeStep DEF TaskInv
<1>0. call \in [Callers -> CallRecord] /\ \A c \in Callers : call[c] \in CallRecord
  BY DEF TaskInv, Shape
<1>1. CASE UNCHANGED gates
  BY <1>1, OwnedStays DEF TaskInv, gates, Is
<1>2. ASSUME NEW c \in Callers, Begin(c) PROVE Owned'
  <2>1. PICK kind \in Kinds, s \in Callers \cup {NoCall} :
          call' = [call EXCEPT ![c] =
            [Idle EXCEPT !.kind = kind, !.inside = s,
                         !.pc = IF kind = "stream" THEN "gate" ELSE "wait"]]
    BY <1>2 DEF Begin
  <2> DEFINE r == [Idle EXCEPT !.kind = kind, !.inside = s,
                               !.pc = IF kind = "stream" THEN "gate" ELSE "wait"]
  <2>2. r.kind # "segment" /\ call' = [call EXCEPT ![c] = r]
    BY <2>1, GatesAssumption DEF Idle
  <2> HIDE DEF r
  <2> QED
    BY <2>2, MoveOwned
<1>3. ASSUME NEW c \in Callers, NEW label, Goto(c, label) PROVE Owned'
  <2> DEFINE r == [call[c] EXCEPT !.pc = label]
  <2>1. r.kind = call[c].kind /\ r.inside = call[c].inside /\ call' = [call EXCEPT ![c] = r]
    BY <1>0, <1>3 DEF Goto, CallRecord
  <2> HIDE DEF r
  <2> QED
    BY <2>1, MoveOwned DEF Is
<1>4. ASSUME NEW c \in Callers, GiveUp(c) PROVE Owned'
  BY <1>4, MoveOwned DEF GiveUp, Idle
<1>5. ASSUME NEW c \in Callers, Pass(c) PROVE Owned'
  <2> DEFINE r == [call[c] EXCEPT !.paid = TRUE,
                                  !.pc = IF Is(c, {"stream"}) THEN "made" ELSE "send"]
  <2>1. r.kind = call[c].kind /\ r.inside = call[c].inside
    BY <1>0 DEF CallRecord
  <2>2. call' = [call EXCEPT ![c] = r]
    BY <1>0, <1>5 DEF Pass
  <2> HIDE DEF r
  <2> QED
    BY <2>1, <2>2, MoveOwned DEF Is
<1>6. ASSUME NEW c \in Callers, Is(c, {"segment"}), SegmentFails(c) PROVE Owned'
  <2>1. ASSUME NEW d \in Callers, Is(d, {"segment"})'
        PROVE  Is(d, {"segment"}) /\ call'[d].inside = call[d].inside
    <3>1. call[d] \in CallRecord
      BY <1>0
    <3>2. \/ call'[d] = Idle
          \/ call'[d] = [call[d] EXCEPT !.pc = "stop"]
          \/ call'[d] = call[d]
      BY <1>6 DEF SegmentFails
    <3> QED
      BY <2>1, <3>1, <3>2 DEF Idle, Is, CallRecord
  <2> QED
    BY <2>1, OwnedStays DEF TaskInv
<1>7. ASSUME NEW c \in Callers, ~At(c, {"join", "stop"}), Fail(c) PROVE Owned'
  BY <1>6, <1>7, LeaveOwned DEF Fail
<1>8. ASSUME NEW c \in Callers, Gate(c) \/ Rouse(c) PROVE Owned'
  BY <1>1, <1>5, <1>7, <1>8 DEF Gate, Rouse, At
<1>9. ASSUME NEW c \in Callers, Send(c) PROVE Owned'
  <2> DEFINE r == [call[c] EXCEPT !.pc = "await", !.paid = FALSE,
                                  !.owed = IF call[c].paid THEN @ ELSE @ + 1]
  <2>1. r.kind = call[c].kind /\ r.inside = call[c].inside
    BY <1>0 DEF CallRecord
  <2>2. call' = [call EXCEPT ![c] = r]
    BY <1>0, <1>9 DEF Send
  <2> HIDE DEF r
  <2> QED
    BY <2>1, <2>2, MoveOwned DEF Is
<1>10. ASSUME NEW c \in Callers, Answer(c) PROVE Owned'
  <2>1. CASE call' = [call EXCEPT ![c].kind = "single", ![c].pc = "gate", ![c].try = 0]
    <3> DEFINE r == [call[c] EXCEPT !.kind = "single", !.pc = "gate", !.try = 0]
    <3>1. r.kind # "segment" /\ call' = [call EXCEPT ![c] = r]
      BY <1>0, <2>1 DEF CallRecord
    <3> HIDE DEF r
    <3> QED
      BY <3>1, MoveOwned
  <2> QED
    BY <1>3, <1>10, <2>1, LeaveOwned DEF Answer, At
<1>11. ASSUME NEW c \in Callers, Lost(c) PROVE Owned'
  <2>1. CASE call' = [call EXCEPT ![c].pc = Again(c), ![c].try = @ + 1]
    <3> DEFINE r == [call[c] EXCEPT !.pc = Again(c), !.try = @ + 1]
    <3>1. r.kind = call[c].kind /\ r.inside = call[c].inside
      BY <1>0 DEF CallRecord
    <3>2. call' = [call EXCEPT ![c] = r]
      BY <1>0, <2>1
    <3> HIDE DEF r
    <3> QED
      BY <3>1, <3>2, MoveOwned DEF Is
  <2> QED
    BY <1>11, <2>1, LeaveOwned DEF Lost, At
<1>12. ASSUME NEW d \in Callers, Split(d) PROVE Owned'
  <2>1. ASSUME NEW c \in Callers, Is(c, {"segment"})' PROVE call'[c].inside # NoCall
    <3>1. call[d] \in CallRecord /\ Is(d, {"multi"})
      BY <1>0, <1>12 DEF Split
    <3>2. \/ call'[c] = [Idle EXCEPT !.kind = "segment", !.pc = "gate", !.inside = d]
          \/ c = d /\ call'[c] = [call[d] EXCEPT !.pc = "join"]
          \/ call'[c] = call[c]
      BY <1>12 DEF Split
    <3> QED
      BY <2>1, <3>1, <3>2, GatesAssumption DEF TaskInv, Owned, Idle, Is, CallRecord
  <2> QED
    BY <2>1 DEF Owned, Is
<1>13. ASSUME NEW c \in Callers, Raise(c) PROVE Owned'
  BY <1>7, <1>13 DEF Raise, At
<1>14. ASSUME NEW d \in Callers, Interrupt(d) PROVE Owned'
  BY <1>3, <1>14 DEF Interrupt
<1>15. ASSUME NEW c \in Callers, CancelSegment(c) PROVE Owned'
  <2>1. Is(c, {"segment"}) /\ Leave(c)
    BY <1>15 DEF CancelSegment, Segments
  <2> QED
    BY <2>1, LeaveOwned DEF TaskInv, Shape, SegmentOwned, At
<1>16. ASSUME NEW c \in Callers, Joined(c) PROVE Owned'
  BY <1>16, LeaveOwned DEF Joined
<1>17. ASSUME NEW c \in Callers, Close(c) \/ Collect(c) PROVE Owned'
  BY <1>17, LeaveOwned DEF Close, Collect, At
<1>18. ASSUME NEW c \in Callers, Iterate(c) \/ Grant(c) \/ Resume(c) \/ Drop(c) PROVE Owned'
  BY <1>3, <1>18 DEF Iterate, Grant, Resume, Drop
<1>19. ASSUME NEW c \in Callers, Step(c) PROVE Owned'
  BY <1>8, <1>9, <1>10, <1>11, <1>12, <1>15, <1>16, <1>19 DEF Step
<1> QED
  BY <1>1, <1>2, <1>4, <1>13, <1>14, <1>17, <1>18, <1>19 DEF GatesNext, allVars

(* README.md:290, for calls in one event loop: whatever is cancelled or    *)
(* fails, no request is in flight that no slot stands for.                 *)
THEOREM TaskRequestsUnderSlots == ASSUME Tasks PROVE GatesSpec => []RequestsUnderSlots
<1>1. GatesInit => TaskInv
  BY ShapeInit DEF GatesInit, Idle, TaskInv, Owned, Is
<1>2. TaskInv /\ [GatesNext]_allVars => TaskInv'
  BY TaskStep
<1>3. ASSUME TaskInv PROVE RequestsUnderSlots
  <2>1. ASSUME NEW c \in InFlight
        PROVE  Holds(c) \/ \E d \in Callers : Holds(d) /\ c \in Segments(d)
    <3>1. CASE ~Is(c, {"segment"})
      BY <2>1, <3>1 DEF InFlight, Holds, At, Is
    <3>2. CASE Is(c, {"segment"})
      <4> DEFINE d == call[c].inside
      <4>1. d \in Callers /\ At(d, {"join", "stop"}) /\ Is(d, {"multi"})
        BY <1>3, <2>1, <3>2 DEF InFlight, TaskInv, Owned, Shape, CallRecord, SegmentOwned
      <4>2. Holds(d) /\ c \in Segments(d)
        BY <2>1, <3>2, <4>1 DEF InFlight, Segments, Holds, At, Is
      <4> QED
        BY <4>1, <4>2
    <3> QED
      BY <3>1, <3>2
  <2> QED
    BY <2>1 DEF RequestsUnderSlots
<1> QED
  BY <1>1, <1>2, <1>3, PTL DEF GatesSpec

----------------------------------------------------------------------------
(* The rate limit.                                                         *)

(* What a call that is not gated again owes: at most its failures so far,  *)
(* one less when it is about to send without having passed.  A stream that *)
(* is not iterated yet has passed; whatever is gated again owes nothing.   *)
Credit(r) ==
  IF r.kind \in {"decode", "stream"}
  THEN /\ r.owed <= r.try
       /\ r.pc = "send" /\ ~r.paid => r.owed + 1 <= r.try
       /\ r.kind = "stream" /\ r.pc \in {"made", "wait"} => r.paid
  ELSE r.owed = 0 /\ (r.pc = "send" => r.paid)

CreditInv == Shape /\ \A c \in Callers : Credit(call[c])

(* A call that is over, or not begun, owes nothing.                        *)
LEMMA IdleOwesNothing == Credit(Idle)
  BY DEF Credit, Idle

(* A step that changes the record of one call.                             *)
LEMMA MoveCredit ==
  ASSUME CreditInv, NEW c \in Callers, NEW r, call' = [call EXCEPT ![c] = r], Credit(r)
  PROVE  \A d \in Callers : Credit(call'[d])
  BY DEF CreditInv, Shape

(* The end of a call, or of a worker, leaves what the others owe.          *)
LEMMA EndCredit ==
  ASSUME CreditInv, NEW c \in Callers, Leave(c) \/ (Is(c, {"segment"}) /\ SegmentFails(c))
  PROVE  \A d \in Callers : Credit(call'[d])
<1> TAKE d \in Callers
<1>1. call[d] \in CallRecord /\ Credit(call[d])
  BY DEF CreditInv, Shape
<1>2. CASE call'[d] = Idle
  BY <1>2, IdleOwesNothing
<1>3. CASE call'[d] = call[d]
  BY <1>1, <1>3
<1>4. CASE call'[d] = [call[d] EXCEPT !.inside = NoCall]
  BY <1>1, <1>4 DEF Credit, CallRecord
<1>5. CASE call'[d] = [call[d] EXCEPT !.pc = "stop"]
  BY <1>1, <1>5 DEF Credit, CallRecord
<1> QED
  BY <1>2, <1>3, <1>4, <1>5 DEF Leave, Without, SegmentFails

(* Every step keeps what the calls owe within their failures.              *)
LEMMA CreditStep == CreditInv /\ [GatesNext]_allVars => CreditInv'
<1> SUFFICES ASSUME CreditInv, [GatesNext]_allVars PROVE \A d \in Callers : Credit(call'[d])
  BY ShapeStep DEF CreditInv
<1> DEFINE Goal == \A d \in Callers : Credit(call'[d])
<1> HIDE DEF Goal
<1> SUFFICES Goal
  BY DEF Goal
<1>0. /\ call \in [Callers -> CallRecord]
      /\ \A c \in Callers : call[c] \in CallRecord /\ Credit(call[c])
  BY DEF CreditInv, Shape
<1>1. CASE UNCHANGED gates
  BY <1>0, <1>1 DEF gates, Goal
<1>2. ASSUME NEW c \in Callers, NEW r, call' = [call EXCEPT ![c] = r], Credit(r) PROVE Goal
  BY <1>2, MoveCredit DEF Goal
<1>3. ASSUME NEW c \in Callers, Leave(c) \/ Fail(c) PROVE Goal
  BY <1>3, EndCredit DEF Fail, Goal
<1>4. ASSUME NEW c \in Callers, NEW label, Goto(c, label),
             /\ label = "send" => call[c].paid /\ Is(c, {"stream"})
             /\ label \in {"made", "wait"} => At(c, {"made", "wait"})
      PROVE  Goal
  <2> DEFINE r == [call[c] EXCEPT !.pc = label]
  <2>1. /\ r.kind = call[c].kind /\ r.pc = label /\ r.paid = call[c].paid
        /\ r.owed = call[c].owed /\ r.try = call[c].try
    BY <1>0 DEF CallRecord
  <2>2. call' = [call EXCEPT ![c] = r]
    BY <1>4 DEF Goto
  <2> HIDE DEF r
  <2>3. Credit(r)
    BY <1>0, <1>4, <2>1 DEF Credit, Is, At
  <2> QED
    BY <1>2, <2>2, <2>3
<1>5. ASSUME NEW c \in Callers, Begin(c) PROVE Goal
  <2>1. PICK kind \in Kinds, s \in Callers \cup {NoCall} :
          call' = [call EXCEPT ![c] =
            [Idle EXCEPT !.kind = kind, !.inside = s,
                         !.pc = IF kind = "stream" THEN "gate" ELSE "wait"]]
    BY <1>5 DEF Begin
  <2> DEFINE r == [Idle EXCEPT !.kind = kind, !.inside = s,
                               !.pc = IF kind = "stream" THEN "gate" ELSE "wait"]
  <2>2. Credit(r) /\ call' = [call EXCEPT ![c] = r]
    BY <2>1 DEF Idle, Credit
  <2> HIDE DEF r
  <2> QED
    BY <1>2, <2>2
<1>6. ASSUME NEW c \in Callers, Grant(c) PROVE Goal
  BY <1>0, <1>4, <1>6 DEF Grant, Credit, Is, At
<1>7. ASSUME NEW c \in Callers, Iterate(c) \/ Resume(c) \/ Drop(c) PROVE Goal
  BY <1>4, <1>7 DEF Iterate, Resume, Drop, At
<1>8. ASSUME NEW c \in Callers, GiveUp(c) PROVE Goal
  BY <1>2, <1>8, IdleOwesNothing DEF GiveUp
<1>9. ASSUME NEW c \in Callers, Pass(c) PROVE Goal
  <2> DEFINE r == [call[c] EXCEPT !.paid = TRUE,
                                  !.pc = IF Is(c, {"stream"}) THEN "made" ELSE "send"]
  <2>1. /\ r.kind = call[c].kind /\ r.paid = TRUE
        /\ r.owed = call[c].owed /\ r.try = call[c].try
    BY <1>0 DEF CallRecord
  <2>2. call' = [call EXCEPT ![c] = r]
    BY <1>0, <1>9 DEF Pass
  <2> HIDE DEF r
  <2>3. Credit(r)
    BY <1>0, <2>1 DEF Credit
  <2> QED
    BY <1>2, <2>2, <2>3
<1>10. ASSUME NEW c \in Callers, Gate(c) \/ Rouse(c) PROVE Goal
  BY <1>1, <1>3, <1>9, <1>10 DEF Gate, Rouse
<1>11. ASSUME NEW c \in Callers, Send(c) PROVE Goal
  <2> DEFINE r == [call[c] EXCEPT !.pc = "await", !.paid = FALSE,
                                  !.owed = IF call[c].paid THEN @ ELSE @ + 1]
  <2>1. /\ r.kind = call[c].kind /\ r.pc = "await" /\ r.try = call[c].try
        /\ r.owed = IF call[c].paid THEN call[c].owed ELSE call[c].owed + 1
    BY <1>0 DEF CallRecord
  <2>2. call' = [call EXCEPT ![c] = r] /\ call[c].pc = "send"
    BY <1>0, <1>11 DEF Send, At
  <2> HIDE DEF r
  <2>3. Credit(r)
    <3>1. CASE call[c].paid
      BY <1>0, <2>1, <3>1 DEF Credit
    <3>2. CASE ~call[c].paid
      BY <1>0, <2>1, <2>2, <3>2 DEF Credit
    <3> QED
      BY <3>1, <3>2
  <2> QED
    BY <1>2, <2>2, <2>3
<1>12. ASSUME NEW c \in Callers, Answer(c) PROVE Goal
  <2>1. CASE Leave(c)
    BY <1>3, <2>1
  <2>2. CASE Goto(c, "yield")
    BY <1>4, <2>2
  <2>3. CASE /\ Is(c, {"multi"})
             /\ call' = [call EXCEPT ![c].kind = "single", ![c].pc = "gate", ![c].try = 0]
    <3> DEFINE r == [call[c] EXCEPT !.kind = "single", !.pc = "gate", !.try = 0]
    <3>1. r.kind = "single" /\ r.pc = "gate" /\ r.owed = call[c].owed
      BY <1>0 DEF CallRecord
    <3>2. call' = [call EXCEPT ![c] = r]
      BY <1>0, <2>3
    <3> HIDE DEF r
    <3>3. Credit(r)
      BY <1>0, <2>3, <3>1 DEF Credit, Is
    <3> QED
      BY <1>2, <3>2, <3>3
  <2> QED
    BY <1>12, <2>1, <2>2, <2>3 DEF Answer
<1>13. ASSUME NEW c \in Callers, Lost(c) PROVE Goal
  <2>1. CASE Leave(c)
    BY <1>3, <2>1
  <2>2. CASE call' = [call EXCEPT ![c].pc = Again(c), ![c].try = @ + 1]
    <3> DEFINE r == [call[c] EXCEPT !.pc = Again(c), !.try = @ + 1]
    <3>1. /\ r.kind = call[c].kind /\ r.pc = Again(c) /\ r.paid = call[c].paid
          /\ r.owed = call[c].owed /\ r.try = call[c].try + 1
      BY <1>0 DEF CallRecord
    <3>2. call' = [call EXCEPT ![c] = r]
      BY <1>0, <2>2
    <3> HIDE DEF r
    <3>3. call[c].owed \in Nat /\ call[c].try \in Nat
      BY <1>0 DEF CallRecord
    <3>4. Credit(r)
      BY <1>0, <3>1, <3>3 DEF Credit, Again, Is
    <3> QED
      BY <1>2, <3>2, <3>4
  <2> QED
    BY <1>13, <2>1, <2>2 DEF Lost
<1>14. ASSUME NEW d \in Callers, Split(d) PROVE Goal
  <2>1. ASSUME NEW c \in Callers PROVE Credit(call'[c])
    <3>1. call[d] \in CallRecord /\ Credit(call[d])
      BY <1>0
    <3>2. CASE call'[c] = [Idle EXCEPT !.kind = "segment", !.pc = "gate", !.inside = d]
      BY <3>2 DEF Idle, Credit
    <3>3. CASE call'[c] = [call[d] EXCEPT !.pc = "join"]
      BY <3>1, <3>3 DEF Credit, CallRecord
    <3>4. CASE call'[c] = call[c]
      BY <1>0, <3>4
    <3> QED
      BY <1>14, <3>2, <3>3, <3>4 DEF Split
  <2> QED
    BY <2>1 DEF Goal
<1>15. ASSUME NEW c \in Callers, Raise(c) PROVE Goal
  BY <1>3, <1>15 DEF Raise
<1>16. ASSUME NEW d \in Callers, Interrupt(d) PROVE Goal
  BY <1>3, <1>4, <1>16 DEF Interrupt
<1>17. ASSUME NEW c \in Callers, CancelSegment(c) \/ Joined(c) \/ Close(c) \/ Collect(c) PROVE Goal
  BY <1>3, <1>17 DEF CancelSegment, Joined, Close, Collect
<1>18. ASSUME NEW c \in Callers, Step(c) PROVE Goal
  BY <1>10, <1>11, <1>12, <1>13, <1>14, <1>17, <1>18 DEF Step
<1> QED
  BY <1>1, <1>5, <1>6, <1>7, <1>8, <1>15, <1>16, <1>17, <1>18 DEF GatesNext, allVars

(* A request that did not pass the rate limit is a retry of a decoded call *)
(* or a reconnect of a stream; downloads pass it for every request.        *)
THEOREM RetriesAloneAreUngated == GatesSpec => []OnlyRetriesAreUngated
<1>1. GatesInit => CreditInv
  BY ShapeInit, IdleOwesNothing DEF GatesInit, CreditInv
<1>2. CreditInv /\ [GatesNext]_allVars => CreditInv'
  BY CreditStep
<1>3. CreditInv => OnlyRetriesAreUngated
  BY DEF CreditInv, Shape, CallRecord, Credit, OnlyRetriesAreUngated, Is
<1> QED
  BY <1>1, <1>2, <1>3, PTL DEF GatesSpec
=============================================================================
