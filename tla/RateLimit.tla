----------------------------- MODULE RateLimit -----------------------------
(***************************************************************************)
(* One fixed window of src/mxhttp/ratelimit.py and the threads and tasks   *)
(* that share it.  Time is kept relative to now: `left` is reset_at - now, *)
(* or 0 once reset_at has passed, so the clock itself needs no bound.      *)
(***************************************************************************)
EXTENDS Naturals, FiniteSets

CONSTANTS
  Callers,
  Calls, Period, Block,
  MaxDelay,   \* Period or more stands for max_delay=None
  MaxCount    \* BOUND: counts from here on are one, all being over Calls

ASSUME RateLimitAssumption ==
  /\ Calls \in Nat \ {0} /\ Period \in Nat \ {0}
  /\ Block \in BOOLEAN /\ MaxDelay \in Nat
  /\ MaxCount \in Nat /\ MaxCount > Calls

VARIABLES
  left,     \* time to the reset of the window
  count,    \* Window.count
  waiting,  \* the callers that sleep
  sleep,    \* sleep[c]: what is left of the sleep of c
  recent    \* recent[a]: calls let through without waiting since a ticks ago

vars == <<left, count, waiting, sleep, recent>>

Ages == 0..Period

Init ==
  /\ left = 0 /\ count = 0
  /\ waiting = {} /\ sleep = [c \in Callers |-> 0]
  /\ recent = [a \in Ages |-> 0]

(* What wait_time leaves in the window it reserves a slot of.              *)
KeepCounting ==
  left' = left /\ count' = IF count < MaxCount THEN count + 1 ELSE count

(* Mutant of Reserve: the call that starts a window is counted twice.      *)
ReserveTwice ==
  \/ left = 0 /\ left' = Period /\ count' = 2
  \/ left > 0 /\ KeepCounting

Reserve ==
  \/ left = 0 /\ left' = Period /\ count' = 1
  \/ left > 0 /\ KeepCounting

(* Mutant of Admit: one call too many goes through at once.                *)
AdmitOneMore(c) ==
  /\ count' <= Calls + 1
  /\ recent' = [a \in Ages |-> recent[a] + 1]
  /\ UNCHANGED <<waiting, sleep>>

(* acquire_sync and acquire_async up to the sleep: the call goes on, is    *)
(* refused with RateLimitExceededError, or sleeps until the reset.  The    *)
(* slot is counted in each of the cases.                                   *)
Admit(c) ==
  /\ count' <= Calls
  /\ recent' = [a \in Ages |-> recent[a] + 1]
  /\ UNCHANGED <<waiting, sleep>>

Refuse(c) ==
  /\ count' > Calls /\ (~Block \/ left' > MaxDelay)
  /\ UNCHANGED <<waiting, sleep, recent>>

(* Mutant of SleepFor: a full period, where the rest of the window is due. *)
SleepPeriod(c) ==
  /\ count' > Calls /\ Block /\ left' <= MaxDelay
  /\ waiting' = waiting \cup {c} /\ sleep' = [sleep EXCEPT ![c] = Period]
  /\ UNCHANGED recent

SleepFor(c) ==
  /\ count' > Calls /\ Block /\ left' <= MaxDelay
  /\ waiting' = waiting \cup {c} /\ sleep' = [sleep EXCEPT ![c] = left']
  /\ UNCHANGED recent

Acquire(c) ==
  /\ c \notin waiting
  /\ Reserve
  /\ Admit(c) \/ Refuse(c) \/ SleepFor(c)

(* The sleep is over: the call goes on, whatever the window says now.      *)
Wake(c) ==
  /\ c \in waiting /\ sleep[c] = 0
  /\ waiting' = waiting \ {c}
  /\ UNCHANGED <<left, count, sleep, recent>>

(* A KeyboardInterrupt or a cancellation ends the sleep; the slot is spent. *)
Cancel(c) ==
  /\ c \in waiting
  /\ waiting' = waiting \ {c} /\ sleep' = [sleep EXCEPT ![c] = 0]
  /\ UNCHANGED <<left, count, recent>>

Sooner(t) == IF t > 0 THEN t - 1 ELSE 0

Tick ==
  /\ left' = Sooner(left)
  /\ sleep' = [c \in Callers |-> Sooner(sleep[c])]
  /\ recent' = [a \in Ages |-> IF a = 0 THEN 0 ELSE recent[a - 1]]
  /\ UNCHANGED <<count, waiting>>

Next ==
  \/ \E c \in Callers : Acquire(c) \/ Wake(c) \/ Cancel(c)
  \/ Tick

Spec == Init /\ [][Next]_vars

(* Time passes, and a sleep that is over ends.                             *)
FairSpec == Spec /\ WF_vars(Tick) /\ \A c \in Callers : WF_vars(Wake(c))

----------------------------------------------------------------------------
TypeOK ==
  /\ left \in 0..Period /\ count \in Nat
  /\ waiting \subseteq Callers /\ sleep \in [Callers -> 0..Period]
  /\ recent \in [Ages -> Nat]

(* The window lets through exactly its first `Calls` calls without delay:  *)
(* none is refused or delayed while a slot of the window is unused.        *)
SlotsAllUsed ==
  left > 0 =>
    recent[Period - left] = IF count <= Calls THEN count ELSE Calls

(* Windows start with the first call after the last one ended, so calls    *)
(* that do not wait are at most two windows' worth in any period.          *)
BurstBounded == recent[Period - 1] <= 2 * Calls

(* README.md:284 "a call over the limit blocks until the current window    *)
(* resets": not longer and not shorter, whoever started the window.        *)
BlocksUntilReset ==
  \A c \in Callers : sleep[c] > 0 => c \in waiting /\ sleep[c] = left

(* README.md:284: max_delay is never slept past, and nothing sleeps under  *)
(* block=False.                                                            *)
DelayBounded == \A c \in waiting : Block /\ sleep[c] <= MaxDelay

(* What the proofs show to be inductive.                                   *)
SleepInv == TypeOK /\ BlocksUntilReset /\ DelayBounded

(* Any Period reaches into at most two windows: the last, and, while it is *)
(* under way, the one before, which began a Period before it or earlier.   *)
BurstInv ==
  /\ SleepInv /\ SlotsAllUsed
  /\ \A a, b \in Ages : a <= b => recent[a] <= recent[b]
  /\ left = 0 => recent[0] = 0 /\ recent[Period] <= Calls
  /\ left > 0 => recent[Period] <= recent[Period - left] + Calls

(* A call that blocks gets through: it needs no luck in later windows.     *)
BlockedCallEnds == \A c \in Callers : c \in waiting ~> c \notin waiting

(* ratelimit.py:84 "limits outbound requests to `config.calls` per         *)
(* `config.period`": so no more than that at one instant.                  *)
AtMostCallsAtOnce == Cardinality({c \in waiting : sleep[c] = 0}) <= Calls
=============================================================================
