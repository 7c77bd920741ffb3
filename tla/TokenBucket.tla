------------------------------ MODULE TokenBucket ------------------------------
(***************************************************************************)
(* The token bucket that paces one external service within one process     *)
(* (helpers/rateLimiter.ts).                                               *)
(*                                                                         *)
(* Time is counted in ticks, and tokens in the ticks it takes to refill    *)
(* them: one token is Refill units, a tick refills one unit, and the       *)
(* bucket holds Capacity units.  So `tokens + elapsed * refillPerSecond`   *)
(* and `deficit / refillPerSecond` are exact here.  Callers are served in  *)
(* arrival order and only their number matters.  An observer may start     *)
(* counting the granted requests at any one moment.                        *)
(***************************************************************************)
EXTENDS Integers

CONSTANTS
  Refill,    \* ticks to refill one token: 1 / refillPerSecond
  Capacity,  \* what the bucket holds, in units; whole tokens by config.ts
  MaxTime,   \* bound on the clock
  MaxWaiting \* bound on the callers that wait at once

ASSUME RefillAssumption == Refill \in Nat \ {0}
ASSUME CapacityAssumption == Capacity \in Nat /\ Capacity >= Refill
ASSUME BoundAssumption == MaxTime \in Nat /\ MaxWaiting \in Nat \ {0}

VARIABLES
  now,         \* Date.now()
  tokens,      \* as of the last refill
  lastRefillAt,
  waiting,     \* length of the queue of waiters
  draining,    \* a drain loop owns the queue
  wakeAt,      \* when that loop's timer is due
  counting,    \* the observer has started
  mark,        \* when it did
  granted      \* requests let through since then

vars == <<now, tokens, lastRefillAt, waiting, draining, wakeAt, counting, mark, granted>>

Smaller(a, b) == IF a <= b THEN a ELSE b

\* A refill that forgets the capacity.
RefilledUncapped == tokens + (now - lastRefillAt)

\* What refill() leaves in the bucket now.
Refilled == Smaller(Capacity, tokens + (now - lastRefillAt))

TypeOK ==
  /\ now \in Nat /\ lastRefillAt \in 0..now /\ mark \in 0..now
  /\ tokens \in 0..Capacity
  /\ waiting \in Nat /\ granted \in Nat /\ wakeAt \in Nat
  /\ draining \in BOOLEAN /\ counting \in BOOLEAN

Init ==
  /\ now = 0 /\ lastRefillAt = 0 /\ mark = 0
  /\ tokens = Capacity
  /\ waiting = 0 /\ granted = 0 /\ wakeAt = 0
  /\ draining = FALSE /\ counting = FALSE

\* The sleep computed before the tokens are taken.
GrantWithShortSleep(queue, n) ==
  /\ tokens' = Refilled - n * Refill
  /\ lastRefillAt' = now
  /\ waiting' = queue - n
  /\ granted' = IF counting THEN granted + n ELSE granted
  /\ draining' = (queue > n)
  /\ wakeAt' = IF queue > n /\ Refilled < Refill THEN now + (Refill - Refilled) ELSE now
  /\ UNCHANGED <<now, counting, mark>>

\* n callers get a token, and the loop sleeps or ends.
Grant(queue, n) ==
  /\ tokens' = Refilled - n * Refill
  /\ lastRefillAt' = now
  /\ waiting' = queue - n
  /\ granted' = IF counting THEN granted + n ELSE granted
  /\ draining' = (queue > n)
  /\ wakeAt' = IF queue > n THEN now + (Refill - (Refilled - n * Refill)) ELSE wakeAt
  /\ UNCHANGED <<now, counting, mark>>

\* The loop of drain(), from one await to the next: grants until the queue is
\* empty or less than a token is left.
Drain(queue) ==
  \E n \in 0..queue :
    /\ n * Refill <= Refilled
    /\ n = queue \/ (n + 1) * Refill > Refilled
    /\ Grant(queue, n)

\* A caller joins the queue; if a loop sleeps, that loop will serve it.
Acquire ==
  /\ waiting < MaxWaiting
  /\ IF draining
     THEN /\ waiting' = waiting + 1
          /\ UNCHANGED <<now, tokens, lastRefillAt, draining, wakeAt, counting,
                         mark, granted>>
     ELSE Drain(waiting + 1)

\* The loop stops after one caller, whoever else joined meanwhile.
WakeForOne ==
  /\ draining /\ now >= wakeAt
  /\ tokens' = Refilled - Refill /\ lastRefillAt' = now
  /\ waiting' = waiting - 1
  /\ granted' = IF counting THEN granted + 1 ELSE granted
  /\ draining' = FALSE
  /\ UNCHANGED <<now, wakeAt, counting, mark>>

\* The timer fires when it is due or later, and the loop goes on.
Wake ==
  /\ draining /\ now >= wakeAt
  /\ Drain(waiting)

Tick ==
  /\ now < MaxTime
  /\ now' = now + 1
  /\ UNCHANGED <<tokens, lastRefillAt, waiting, draining, wakeAt, counting, mark, granted>>

\* The observer starts counting.
Mark ==
  /\ ~counting
  /\ counting' = TRUE /\ mark' = now /\ granted' = 0
  /\ UNCHANGED <<now, tokens, lastRefillAt, waiting, draining, wakeAt>>

Next == Acquire \/ Wake \/ Tick \/ Mark

Spec == Init /\ [][Next]_vars

(***************************************************************************)
(* Properties                                                              *)
(***************************************************************************)

\* In no window of time, wherever it starts, are more requests let through than
\* the burst and what the sustained rate refills in it (rateLimiter.ts:4-13).
WindowBound ==
  counting => granted * Refill <= Capacity + (now - mark)

\* A caller that waits has a drain loop that will wake up for it: no wake-up is
\* lost between the loop's end and the next caller (rateLimiter.ts:66-88).
NoLostWakeup == waiting > 0 <=> draining

\* The sleep is long enough: when the timer fires there is a token, so the loop
\* always serves someone and never spins (rateLimiter.ts:82-83).
WakeFindsToken == draining /\ now >= wakeAt => Refilled >= Refill
=============================================================================
