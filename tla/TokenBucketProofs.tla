--------------------------- MODULE TokenBucketProofs ---------------------------
(***************************************************************************)
(* The token bucket keeps its rate, loses no wake-up and never spins, for  *)
(* every rate, capacity and number of callers, and for ever.               *)
(***************************************************************************)
EXTENDS TokenBucket, TLAPS

\* What was granted and what is in the bucket came from the first fill or from
\* the time since the mark.
Budget == counting => granted * Refill + Refilled <= Capacity + (now - mark)

\* The timer of a sleeping loop is due when the bucket has a token.
SleepIsEnough == draining => tokens + (wakeAt - lastRefillAt) = Refill

Inv == TypeOK /\ Budget /\ NoLostWakeup /\ SleepIsEnough

LEMMA ConstantsTyped ==
  /\ Refill \in Nat /\ Refill > 0
  /\ Capacity \in Nat /\ Capacity >= Refill
BY RefillAssumption, CapacityAssumption

LEMMA RefilledBounds ==
  ASSUME TypeOK
  PROVE  /\ Refilled \in 0..Capacity
         /\ Refilled <= tokens + (now - lastRefillAt)
         /\ Refilled = Capacity \/ Refilled = tokens + (now - lastRefillAt)
BY ConstantsTyped DEF TypeOK, Refilled, Smaller

LEMMA InitInv == Init => Inv
<1> SUFFICES ASSUME Init PROVE Inv
  OBVIOUS
<1>1. TypeOK
  <2>1. draining \in BOOLEAN /\ counting \in BOOLEAN
    BY DEF Init
  <2>2. QED
    BY <2>1, ConstantsTyped DEF Init, TypeOK
<1>2. Budget /\ SleepIsEnough
  BY DEF Init, Budget, SleepIsEnough
<1>3. NoLostWakeup
  <2>1. ~draining /\ ~(waiting > 0)
    BY DEF Init
  <2>2. QED
    BY <2>1 DEF NoLostWakeup
<1>4. QED
  BY <1>1, <1>2, <1>3 DEF Inv

\* A drain loop keeps the invariant whatever the queue it starts from.
LEMMA DrainInv ==
  ASSUME Inv, NEW queue \in Nat, Drain(queue)
  PROVE  Inv'
<1>1. PICK n \in 0..queue : /\ n * Refill <= Refilled
                            /\ n = queue \/ (n + 1) * Refill > Refilled
                            /\ Grant(queue, n)
  BY DEF Drain
<1> DEFINE spent == n * Refill
<1>2. /\ Refilled \in 0..Capacity /\ spent \in 0..Refilled
      /\ n \in Nat /\ granted \in Nat
  BY <1>1, RefilledBounds, ConstantsTyped DEF Inv, TypeOK
<1>3. (n + 1) * Refill = spent + Refill /\ (granted + n) * Refill = granted * Refill + spent
  BY <1>2, ConstantsTyped
<1>4. granted * Refill \in Int
  BY <1>2, ConstantsTyped
<1> HIDE DEF spent
<1>5. /\ tokens' = Refilled - spent
      /\ lastRefillAt' = now /\ now' = now /\ counting' = counting /\ mark' = mark
      /\ waiting' = queue - n
      /\ granted' = IF counting THEN granted + n ELSE granted
      /\ draining' = (queue > n)
      /\ wakeAt' = IF queue > n THEN now + (Refill - (Refilled - spent)) ELSE wakeAt
  BY <1>1 DEF Grant, spent
<1>6. queue > n => Refill - (Refilled - spent) > 0
  <2> SUFFICES ASSUME queue > n PROVE Refill - (Refilled - spent) > 0
    OBVIOUS
  <2>1. n # queue
    BY <1>2
  <2>2. spent + Refill > Refilled
    BY <1>1, <1>3, <2>1
  <2>3. QED
    BY <1>2, <2>2, ConstantsTyped
<1>7. TypeOK'
  BY <1>2, <1>5, <1>6, ConstantsTyped DEF Inv, TypeOK
<1>8. Refilled' = Refilled - spent
  <2>1. Refilled' = Smaller(Capacity, Refilled - spent + (now - now))
    BY <1>5 DEF Refilled
  <2>2. QED
    BY <1>2, <2>1, ConstantsTyped DEF Inv, TypeOK, Smaller
<1>9. Budget'
  <2> SUFFICES ASSUME counting PROVE granted' * Refill + Refilled' <= Capacity + (now - mark)
    BY <1>5 DEF Budget
  <2>1. granted' * Refill = granted * Refill + spent
    BY <1>3, <1>5
  <2>2. granted * Refill + Refilled <= Capacity + (now - mark)
    BY DEF Inv, Budget
  <2>3. QED
    BY <1>2, <1>4, <1>8, <2>1, <2>2, ConstantsTyped DEF Inv, TypeOK
<1>10. NoLostWakeup'
  <2>1. waiting' > 0 <=> queue > n
    BY <1>2, <1>5
  <2>2. draining' <=> queue > n
    BY <1>5
  <2>3. QED
    BY <2>1, <2>2 DEF NoLostWakeup
<1>11. SleepIsEnough'
  <2> SUFFICES ASSUME queue > n PROVE tokens' + (wakeAt' - lastRefillAt') = Refill
    BY <1>5 DEF SleepIsEnough
  <2>1. /\ tokens' = Refilled - spent /\ lastRefillAt' = now
        /\ wakeAt' = now + (Refill - (Refilled - spent))
    BY <1>5
  <2>2. QED
    BY <1>2, <2>1, ConstantsTyped DEF Inv, TypeOK
<1>12. QED
  BY <1>7, <1>9, <1>10, <1>11 DEF Inv

\* What time adds to the bucket, the window it is measured by gains as well.
LEMMA OneTickMore ==
  ASSUME NEW spent \in Int, NEW held \in Nat, NEW heldNext \in Nat,
         NEW capacity \in Int, NEW time \in Int, NEW start \in Int,
         spent + held <= capacity + (time - start), heldNext <= held + 1
  PROVE  spent + heldNext <= capacity + (time + 1 - start)
OBVIOUS

LEMMA StepInv == Inv /\ [Next]_vars => Inv'
<1> SUFFICES ASSUME Inv, [Next]_vars PROVE Inv'
  OBVIOUS
<1>1. CASE Acquire
  <2>1. CASE draining
    BY <1>1, <2>1 DEF Acquire, Inv, TypeOK, Budget, NoLostWakeup, SleepIsEnough, Refilled
  <2>2. CASE ~draining
    <3>1. waiting + 1 \in Nat /\ Drain(waiting + 1)
      BY <1>1, <2>2 DEF Acquire, Inv, TypeOK
    <3>2. QED
      BY <3>1, DrainInv
  <2>3. QED
    BY <2>1, <2>2
<1>2. CASE Wake
  <2>1. waiting \in Nat /\ Drain(waiting)
    BY <1>2 DEF Wake, Inv, TypeOK
  <2>2. QED
    BY <2>1, DrainInv
<1>3. CASE Tick
  <2>1. TypeOK'
    BY <1>3 DEF Tick, Inv, TypeOK
  <2>2. Refilled' <= Refilled + 1 /\ Refilled' \in Nat /\ Refilled \in Nat
    BY <1>3, <2>1, ConstantsTyped DEF Tick, Inv, TypeOK, Refilled, Smaller
  <2>3. Budget'
    <3>1. granted' = granted /\ now' = now + 1 /\ mark' = mark
      BY <1>3 DEF Tick
    <3> SUFFICES ASSUME counting'
                 PROVE  granted' * Refill + Refilled' <= Capacity + (now' - mark')
      BY DEF Budget
    <3> counting
      BY <1>3 DEF Tick
    <3>2. granted * Refill + Refilled <= Capacity + (now - mark)
      BY DEF Inv, Budget
    <3>3. granted * Refill \in Int /\ now \in Int /\ mark \in Int /\ Capacity \in Int
      BY ConstantsTyped DEF Inv, TypeOK
    <3>4. granted * Refill + Refilled' <= Capacity + ((now + 1) - mark)
      BY <2>2, <3>2, <3>3, OneTickMore
    <3>5. QED
      BY <2>2, <3>1, <3>3, <3>4
  <2>4. QED
    BY <1>3, <2>1, <2>3 DEF Tick, Inv, NoLostWakeup, SleepIsEnough
<1>4. CASE Mark
  <2>1. TypeOK' /\ NoLostWakeup' /\ SleepIsEnough'
    BY <1>4 DEF Mark, Inv, TypeOK, NoLostWakeup, SleepIsEnough
  <2>2. Refilled' = Refilled /\ now' - mark' = 0 /\ granted' * Refill = 0
    BY <1>4, ConstantsTyped DEF Mark, Refilled, Inv, TypeOK
  <2>3. Budget'
    BY <2>2, RefilledBounds, ConstantsTyped DEF Budget, Inv
  <2>4. QED
    BY <2>1, <2>3 DEF Inv
<1>5. CASE UNCHANGED vars
  BY <1>5 DEF vars, Inv, TypeOK, Budget, NoLostWakeup, SleepIsEnough, Refilled
<1>6. QED
  BY <1>1, <1>2, <1>3, <1>4, <1>5 DEF Next

LEMMA InvHolds == Spec => []Inv
BY InitInv, StepInv, PTL DEF Spec

\* Every variable keeps its type; the bucket never holds less than nothing nor
\* more than its capacity.
THEOREM BucketTypeCorrect == Spec => []TypeOK
<1>1. Inv => TypeOK
  BY DEF Inv
<1>2. QED
  BY <1>1, InvHolds, PTL

\* In no window of time are more requests let through than the burst plus what
\* the sustained rate allows (rateLimiter.ts:4-13).
THEOREM RateTheorem == Spec => []WindowBound
<1>1. Inv => WindowBound
  <2> SUFFICES ASSUME Inv, counting
               PROVE  granted * Refill <= Capacity + (now - mark)
    BY DEF WindowBound
  <2>1. granted * Refill + Refilled <= Capacity + (now - mark)
    BY DEF Inv, Budget
  <2>2. Refilled \in Nat /\ granted * Refill \in Int
    BY RefilledBounds, ConstantsTyped DEF Inv, TypeOK
  <2>3. QED
    BY <2>1, <2>2, ConstantsTyped DEF Inv, TypeOK
<1>2. QED
  BY <1>1, InvHolds, PTL

\* Whoever waits is waited for by a loop with a timer (rateLimiter.ts:66-88).
THEOREM WakeupTheorem == Spec => []NoLostWakeup
<1>1. Inv => NoLostWakeup
  BY DEF Inv
<1>2. QED
  BY <1>1, InvHolds, PTL

\* When that timer fires there is a token to give (rateLimiter.ts:82-83).
THEOREM TokenTheorem == Spec => []WakeFindsToken
<1>1. Inv => WakeFindsToken
  BY ConstantsTyped DEF Inv, TypeOK, SleepIsEnough, WakeFindsToken, Refilled, Smaller
<1>2. QED
  BY <1>1, InvHolds, PTL
=============================================================================
