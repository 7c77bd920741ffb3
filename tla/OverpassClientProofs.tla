-------------------------- MODULE OverpassClientProofs --------------------------
(***************************************************************************)
(* However Overpass answers and whatever waits it names, its requests keep *)
(* the pace and honour those waits, a tile is given up after all its       *)
(* attempts only, and it holds the market up for a bounded time: for every *)
(* rate, number of attempts, timeout, delay and cap.                       *)
(***************************************************************************)
EXTENDS OverpassClient, TLAPS

(***************************************************************************)
(* The inductive invariant                                                 *)
(***************************************************************************)

\* What one attempt takes, with the sleep and the queue after it.
Stretch == Timeout + Late + Larger(MaxBackoff, Refill) + Late

\* The k-th request for a tile leaves so long after its fetch began, at the latest.
SendBy(k) == Refill + Late + (k - 1) * Stretch

\* One caller, and a timer due when the bucket has a token for it.
BucketInv ==
  /\ now \in Nat /\ lastRefillAt \in 0..now /\ tokens \in 0..Capacity
  /\ waiting \in 0..1 /\ draining \in BOOLEAN /\ wakeAt \in Nat
  /\ draining <=> waiting = 1
  /\ draining => tokens + (wakeAt - lastRefillAt) = Refill

FetchTypes ==
  /\ call \in {"idle", "queued", "asking", "sleeping"}
  /\ attempt \in 1..Attempts /\ sent \in Nat /\ sentAt \in Int
  /\ retryAt \in Nat /\ startedAt \in Nat /\ failedAt \in Nat
  /\ named \in Nat \union {NotNamed}

\* With a burst of 1 the bucket holds what was refilled since the last request.
PaceInv ==
  /\ draining <=> call = "queued"
  /\ sentAt <= lastRefillAt
  /\ call \in {"asking", "sleeping"} => lastRefillAt = sentAt
  /\ Capacity = Refill => tokens <= lastRefillAt - sentAt

CountInv ==
  /\ call \in {"asking", "sleeping"} => sent = attempt
  /\ call = "queued" => sent = attempt - 1
  /\ call = "sleeping" => attempt < Attempts

Allowed(t) == named # NotNamed => t >= failedAt + Bucket!Smaller(named, MaxBackoff)

HonourInv ==
  /\ call = "sleeping" => Allowed(retryAt)
  /\ call = "queued" /\ attempt > 1 => Allowed(now)
  /\ call = "asking" /\ attempt > 1 => Allowed(sentAt)

StallInv ==
  /\ call = "queued" =>
       now <= wakeAt + Late /\ wakeAt + Late <= startedAt + SendBy(attempt)
  /\ call = "asking" =>
       now <= sentAt + Timeout + Late /\ sentAt <= startedAt + SendBy(attempt)
  /\ call = "sleeping" =>
       /\ sentAt <= failedAt /\ now <= retryAt + Late
       /\ retryAt \in failedAt..(failedAt + MaxBackoff)
       /\ failedAt <= startedAt + SendBy(attempt) + Timeout + Late

Inv == BucketInv /\ FetchTypes /\ PaceInv /\ CountInv /\ HonourInv /\ StallInv

(***************************************************************************)
(* Arithmetic                                                              *)
(***************************************************************************)

LEMMA ConstantsTyped ==
  /\ Refill \in Nat /\ Refill > 0 /\ Capacity \in Nat /\ Capacity >= Refill
  /\ Attempts \in Nat /\ Attempts > 0 /\ Timeout \in Nat /\ Late \in Nat
  /\ RetryDelay \in Nat /\ MaxBackoff \in Nat
  /\ Headers \subseteq Int /\ NotNamed \notin Int
BY ClientAssumption

LEMMA LargerOf ==
  ASSUME NEW a \in Int, NEW b \in Int
  PROVE  Larger(a, b) \in Int /\ Larger(a, b) >= a /\ Larger(a, b) >= b
BY DEF Larger

LEMMA StretchTyped ==
  /\ Stretch \in Nat
  /\ Stretch >= Timeout + Late + MaxBackoff + Late
  /\ Stretch >= Timeout + Late + Refill + Late
<1>1. MaxBackoff \in Int /\ Refill \in Int
  BY ConstantsTyped
<1>2. /\ Larger(MaxBackoff, Refill) \in Int
      /\ Larger(MaxBackoff, Refill) >= MaxBackoff /\ Larger(MaxBackoff, Refill) >= Refill
  BY <1>1, LargerOf
<1>3. QED
  BY <1>2, ConstantsTyped DEF Stretch

LEMMA SendByFirst == SendBy(1) = Refill + Late
BY ConstantsTyped, StretchTyped DEF SendBy

LEMMA SendByNext ==
  ASSUME NEW k \in Nat
  PROVE  SendBy(k) \in Int /\ SendBy(k + 1) = SendBy(k) + Stretch
<1>1. Stretch \in Int /\ (k - 1) * Stretch \in Int
  BY StretchTyped
<1>2. ((k + 1) - 1) * Stretch = (k - 1) * Stretch + Stretch
  BY <1>1
<1>3. QED
  BY <1>1, <1>2, ConstantsTyped DEF SendBy

LEMMA TimesGrows ==
  ASSUME NEW c \in Nat, NEW i \in Nat, NEW j \in Nat, i <= j
  PROVE  i * c <= j * c
<1> DEFINE d == j - i
<1>1. d \in Nat /\ j = i + d
  OBVIOUS
<1>2. (i + d) * c = i * c + d * c /\ d * c >= 0
  BY <1>1
<1>3. QED
  BY <1>1, <1>2

LEMMA LastAnswerBy ==
  ASSUME NEW k \in 1..Attempts
  PROVE  SendBy(k) + Timeout + Late <= StallBound
<1> DEFINE a == Timeout + Late
           s == Larger(MaxBackoff, Refill) + Late
<1>1. a \in Nat /\ s \in Nat /\ Stretch = a + s
  <2>1. MaxBackoff \in Int /\ Refill \in Int
    BY ConstantsTyped
  <2>2. Larger(MaxBackoff, Refill) \in Int /\ Larger(MaxBackoff, Refill) >= Refill
    BY <2>1, LargerOf
  <2>3. QED
    BY <2>2, ConstantsTyped DEF Stretch
<1>2. SendBy(k) = Refill + Late + (k - 1) * (a + s)
  BY <1>1 DEF SendBy
<1>3. StallBound = Refill + Late + Attempts * a + (Attempts - 1) * s
  BY ConstantsTyped DEF StallBound
<1> HIDE DEF a, s
<1>4. (k - 1) * (a + s) + a = k * a + (k - 1) * s
  BY <1>1
<1>5. k * a <= Attempts * a
  BY <1>1, TimesGrows, ConstantsTyped
<1>6. (k - 1) * s <= (Attempts - 1) * s
  BY <1>1, TimesGrows, ConstantsTyped
<1>7. /\ k * a \in Int /\ Attempts * a \in Int
      /\ (k - 1) * s \in Int /\ (Attempts - 1) * s \in Int
      /\ (k - 1) * (a + s) \in Int
  BY <1>1, ConstantsTyped
<1>8. SendBy(k) + a <= StallBound
  BY <1>1, <1>2, <1>3, <1>4, <1>5, <1>6, <1>7, ConstantsTyped
<1>9. QED
  BY <1>1, <1>2, <1>7, <1>8, ConstantsTyped DEF a

(***************************************************************************)
(* The bucket                                                              *)
(***************************************************************************)

Refilled == Bucket!Refilled

LEMMA RefilledIs ==
  ASSUME BucketInv
  PROVE  /\ Refilled \in 0..Capacity
         /\ Refilled <= tokens + (now - lastRefillAt)
         /\ Refilled < Capacity => Refilled = tokens + (now - lastRefillAt)
BY ConstantsTyped DEF BucketInv, Refilled, Bucket!Refilled, Bucket!Smaller

\* A drain loop with one caller gives it a token, or sleeps until there is one.
LEMMA DrainOne ==
  ASSUME BucketInv, Bucket!Drain(1)
  PROVE  /\ BucketInv' /\ now' = now /\ lastRefillAt' = now
         /\ \/ /\ Refilled >= Refill
               /\ waiting' = 0 /\ ~draining' /\ tokens' = Refilled - Refill
            \/ /\ Refilled < Refill
               /\ waiting' = 1 /\ draining' /\ tokens' = Refilled
               /\ wakeAt' = now + (Refill - Refilled)
<1>1. PICK n \in 0..1 : /\ n * Refill <= Refilled
                        /\ n = 1 \/ (n + 1) * Refill > Refilled
                        /\ Bucket!Grant(1, n)
  BY DEF Bucket!Drain, Refilled
<1>2. /\ now' = now /\ lastRefillAt' = now /\ waiting' = 1 - n
      /\ tokens' = Refilled - n * Refill
      /\ draining' = (1 > n)
      /\ wakeAt' = IF 1 > n THEN now + (Refill - (Refilled - n * Refill)) ELSE wakeAt
  BY <1>1 DEF Bucket!Grant, Refilled
<1> Refilled \in Int
  BY RefilledIs
<1> draining' \in BOOLEAN
  BY <1>2
<1> draining' <=> 1 > n
  BY <1>2, Zenon
<1>3. CASE n = 1
  <2>1. /\ tokens' = Refilled - Refill /\ waiting' = 0
        /\ wakeAt' = wakeAt /\ Refilled >= Refill
    BY <1>1, <1>2, <1>3, ConstantsTyped
  <2> ~draining'
    BY <1>3
  <2>2. BucketInv'
    BY <1>2, <2>1, RefilledIs, ConstantsTyped DEF BucketInv
  <2>3. QED
    BY <1>2, <2>1, <2>2
<1>4. CASE n = 0
  <2>1. /\ tokens' = Refilled /\ waiting' = 1
        /\ wakeAt' = now + (Refill - Refilled) /\ Refilled < Refill
    BY <1>1, <1>2, <1>4, ConstantsTyped
  <2> draining'
    BY <1>4
  <2>2. BucketInv'
    BY <1>2, <2>1, RefilledIs, ConstantsTyped DEF BucketInv
  <2>3. QED
    BY <1>2, <2>1, <2>2
<1>5. QED
  BY <1>3, <1>4

\* A scheduled request leaves at once or waits for the timer.
LEMMA ScheduleOne ==
  ASSUME BucketInv, ~draining, NEW before \in Nat, Schedule(before)
  PROVE  /\ BucketInv' /\ now' = now /\ lastRefillAt' = now
         /\ \/ /\ Refilled >= Refill /\ ~draining' /\ tokens' = Refilled - Refill
               /\ call' = "asking" /\ sentAt' = now /\ sent' = before + 1
            \/ /\ Refilled < Refill /\ draining' /\ tokens' = Refilled
               /\ wakeAt' = now + (Refill - Refilled)
               /\ call' = "queued" /\ sentAt' = sentAt /\ sent' = before
<1>1. waiting = 0
  BY DEF BucketInv
<1>2. Bucket!Drain(1)
  BY <1>1 DEF Schedule, Bucket!Acquire
<1>3. CASE waiting' = 0
  BY <1>2, <1>3, DrainOne DEF Schedule, Send
<1>4. CASE waiting' # 0
  BY <1>2, <1>4, DrainOne DEF Schedule, Send
<1>5. QED
  BY <1>3, <1>4

\* The timer of a queued request finds its token.
LEMMA GrantedOne ==
  ASSUME Inv, Granted
  PROVE  /\ BucketInv' /\ now' = now /\ lastRefillAt' = now /\ ~draining'
         /\ Refilled >= Refill /\ tokens' = Refilled - Refill
<1>1. draining /\ waiting = 1 /\ now >= wakeAt /\ Bucket!Drain(1)
  BY DEF Granted, Bucket!Wake, Inv, PaceInv, BucketInv
<1>2. Refilled >= Refill
  <2>1. tokens + (now - lastRefillAt) >= Refill
    BY <1>1, ConstantsTyped DEF Inv, BucketInv
  <2>2. QED
    BY <2>1, RefilledIs, ConstantsTyped DEF Inv, BucketInv
<1>3. QED
  BY <1>1, <1>2, DrainOne, RefilledIs, ConstantsTyped DEF Inv

(***************************************************************************)
(* Every step keeps the invariant                                          *)
(***************************************************************************)

LEMMA InitInv == Init => Inv
<1> SUFFICES ASSUME Init PROVE Inv
  OBVIOUS
<1>1. /\ now = 0 /\ lastRefillAt = 0 /\ tokens = Capacity /\ waiting = 0 /\ wakeAt = 0
      /\ draining = FALSE
  BY DEF Init, Bucket!Init
<1>2. BucketInv
  <2>1. draining \in BOOLEAN /\ ~draining
    BY <1>1
  <2>2. waiting # 1
    BY <1>1
  <2>3. QED
    BY <1>1, <2>1, <2>2, ConstantsTyped DEF BucketInv
<1>3. FetchTypes
  BY ConstantsTyped DEF Init, FetchTypes
<1>4. PaceInv
  BY <1>1, ConstantsTyped DEF Init, PaceInv
<1>5. CountInv /\ HonourInv /\ StallInv
  BY DEF Init, CountInv, HonourInv, StallInv
<1>6. QED
  BY <1>2, <1>3, <1>4, <1>5 DEF Inv

LEMMA StartTileInv ==
  ASSUME Inv, NEW t \in Tiles, StartTile(t)
  PROVE  Inv'
<1>1. /\ call = "idle" /\ attempt' = 1 /\ startedAt' = now /\ Schedule(0)
      /\ retryAt' = retryAt /\ failedAt' = failedAt /\ named' = named
  BY DEF StartTile
<1>2. ~draining
  BY <1>1 DEF Inv, PaceInv
<1>3. /\ BucketInv' /\ now' = now /\ lastRefillAt' = now
      /\ \/ /\ Refilled >= Refill /\ ~draining' /\ tokens' = Refilled - Refill
            /\ call' = "asking" /\ sentAt' = now /\ sent' = 1
         \/ /\ Refilled < Refill /\ draining' /\ tokens' = Refilled
            /\ wakeAt' = now + (Refill - Refilled)
            /\ call' = "queued" /\ sentAt' = sentAt /\ sent' = 0
  BY <1>1, <1>2, ScheduleOne DEF Inv
<1>4. /\ Refilled \in 0..Capacity /\ Refilled <= tokens + (now - lastRefillAt)
      /\ now \in Nat
  BY RefilledIs DEF Inv, BucketInv
<1>5. FetchTypes'
  BY <1>1, <1>3, <1>4, ConstantsTyped DEF Inv, FetchTypes
<1>6. PaceInv'
  BY <1>3, <1>4, ConstantsTyped DEF Inv, BucketInv, FetchTypes, PaceInv
<1>7. CountInv' /\ HonourInv'
  BY <1>1, <1>3 DEF CountInv, HonourInv
<1>8. StallInv'
  BY <1>1, <1>3, <1>4, SendByFirst, ConstantsTyped DEF StallInv
<1>9. QED
  BY <1>3, <1>5, <1>6, <1>7, <1>8 DEF Inv

LEMMA GrantedInv ==
  ASSUME Inv, Granted
  PROVE  Inv'
<1>1. /\ call = "queued" /\ call' = "asking" /\ sentAt' = now /\ sent' = sent + 1
      /\ attempt' = attempt /\ retryAt' = retryAt /\ startedAt' = startedAt
      /\ failedAt' = failedAt /\ named' = named
  BY DEF Granted, Send
<1>2. /\ BucketInv' /\ now' = now /\ lastRefillAt' = now /\ ~draining'
      /\ Refilled >= Refill /\ tokens' = Refilled - Refill
  BY GrantedOne
<1>3. Refilled \in 0..Capacity
  BY RefilledIs DEF Inv
<1>4. FetchTypes'
  BY <1>1 DEF Inv, FetchTypes, BucketInv
<1>5. PaceInv'
  BY <1>1, <1>2, <1>3, ConstantsTyped DEF PaceInv, Inv, BucketInv
<1>6. CountInv'
  BY <1>1 DEF Inv, FetchTypes, CountInv
<1>7. HonourInv'
  BY <1>1 DEF Inv, HonourInv, Allowed
<1>8. StallInv'
  <2>1. now <= startedAt + SendBy(attempt)
    BY <1>1, SendByNext, ConstantsTyped DEF Inv, StallInv, FetchTypes, BucketInv
  <2>2. QED
    BY <1>1, <1>2, <2>1, ConstantsTyped DEF Inv, StallInv, BucketInv
<1>9. QED
  BY <1>2, <1>4, <1>5, <1>6, <1>7, <1>8 DEF Inv

\* An answer, a refusal, or a last failure: the bucket has no caller.
LEMMA LeaveInv ==
  ASSUME Inv, call = "asking", Leave, UNCHANGED <<bucketVars, attempt, sentAt, sent>>
  PROVE  Inv'
<1>1. BucketInv'
  BY DEF Inv, BucketInv, bucketVars
<1>2. FetchTypes'
  BY DEF Inv, FetchTypes, Leave
<1>3. PaceInv'
  BY DEF Inv, PaceInv, Leave, bucketVars
<1>4. CountInv' /\ HonourInv' /\ StallInv'
  BY DEF CountInv, HonourInv, StallInv, Leave
<1>5. QED
  BY <1>1, <1>2, <1>3, <1>4 DEF Inv

LEMMA BackoffIs ==
  ASSUME FetchTypes, NEW wait \in Nat \union {NotNamed}, NEW w \in Backoff(wait)
  PROVE  /\ w \in 0..MaxBackoff
         /\ wait # NotNamed => w = Bucket!Smaller(wait, MaxBackoff)
<1>1. CASE wait # NotNamed
  BY <1>1, ConstantsTyped DEF Backoff, Bucket!Smaller
<1>2. CASE wait = NotNamed
  <2> DEFINE doubled == RetryDelay * 2 ^ (attempt - 1)
             capped == Bucket!Smaller(doubled, MaxBackoff)
  <2>1. attempt - 1 \in Nat
    BY ConstantsTyped DEF FetchTypes
  <2>2. doubled \in Int
    BY <2>1, ConstantsTyped
  <2>3. w \in 0..capped
    BY <1>2 DEF Backoff
  <2> HIDE DEF doubled
  <2>4. capped \in Int /\ capped <= MaxBackoff
    BY <2>2, ConstantsTyped DEF Bucket!Smaller
  <2>5. QED
    BY <1>2, <2>3, <2>4, ConstantsTyped
<1>3. QED
  BY <1>1, <1>2

LEMMA FailAttemptInv ==
  ASSUME Inv, NEW wait \in Nat \union {NotNamed}, FailAttempt(wait)
  PROVE  Inv'
<1>1. call = "asking" /\ UNCHANGED <<bucketVars, attempt, sentAt, sent>>
  BY DEF FailAttempt
<1>2. CASE LastAttempt
  BY <1>1, <1>2, LeaveInv DEF FailAttempt
<1>3. CASE ~LastAttempt
  <2>1. PICK w \in Backoff(wait) : retryAt' = now + w
    BY <1>3 DEF FailAttempt
  <2>2. /\ call' = "sleeping" /\ failedAt' = now /\ named' = wait
        /\ startedAt' = startedAt /\ attempt < Attempts
    BY <1>3, ConstantsTyped DEF FailAttempt, LastAttempt, Inv, FetchTypes
  <2>3. /\ w \in 0..MaxBackoff
        /\ wait # NotNamed => w = Bucket!Smaller(wait, MaxBackoff)
    BY <2>1, BackoffIs DEF Inv
  <2>4. now' = now /\ now \in Nat /\ BucketInv'
    BY <1>1 DEF Inv, BucketInv, bucketVars
  <2>5. FetchTypes'
    BY <1>1, <2>1, <2>2, <2>3, <2>4, ConstantsTyped DEF Inv, FetchTypes
  <2>6. PaceInv'
    BY <1>1, <2>2 DEF Inv, PaceInv, bucketVars
  <2>7. CountInv'
    BY <1>1, <2>2 DEF Inv, CountInv
  <2>8. HonourInv'
    BY <2>1, <2>2, <2>3 DEF HonourInv, Allowed
  <2>9. StallInv'
    <3>1. sentAt' = sentAt /\ attempt' = attempt /\ sentAt <= now
      BY <1>1 DEF Inv, PaceInv, BucketInv, FetchTypes
    <3>2. now <= startedAt + SendBy(attempt) + Timeout + Late
      BY <1>1, SendByNext, ConstantsTyped DEF Inv, StallInv, FetchTypes, BucketInv
    <3>3. QED
      BY <2>1, <2>2, <2>3, <2>4, <3>1, <3>2, ConstantsTyped DEF StallInv
  <2>10. QED
    BY <2>4, <2>5, <2>6, <2>7, <2>8, <2>9 DEF Inv
<1>4. QED
  BY <1>2, <1>3

LEMMA RetryInv ==
  ASSUME Inv, Retry
  PROVE  Inv'
<1>1. /\ call = "sleeping" /\ now >= retryAt /\ attempt' = attempt + 1
      /\ startedAt' = startedAt /\ retryAt' = retryAt /\ failedAt' = failedAt
      /\ named' = named /\ Schedule(sent)
  BY DEF Retry
<1>2. ~draining /\ lastRefillAt = sentAt /\ sent = attempt /\ attempt < Attempts
  BY <1>1 DEF Inv, PaceInv, CountInv
<1>3. /\ BucketInv' /\ now' = now /\ lastRefillAt' = now
      /\ \/ /\ Refilled >= Refill /\ ~draining' /\ tokens' = Refilled - Refill
            /\ call' = "asking" /\ sentAt' = now /\ sent' = sent + 1
         \/ /\ Refilled < Refill /\ draining' /\ tokens' = Refilled
            /\ wakeAt' = now + (Refill - Refilled)
            /\ call' = "queued" /\ sentAt' = sentAt /\ sent' = sent
  BY <1>1, <1>2, ScheduleOne DEF Inv, FetchTypes
<1>4. /\ Refilled \in 0..Capacity /\ Refilled <= tokens + (now - lastRefillAt)
      /\ Refilled < Capacity => Refilled = tokens + (now - lastRefillAt)
  BY RefilledIs DEF Inv
<1>5. FetchTypes'
  BY <1>1, <1>2, <1>3, ConstantsTyped DEF Inv, FetchTypes, BucketInv
<1>6. PaceInv'
  BY <1>3, <1>4, ConstantsTyped DEF Inv, BucketInv, FetchTypes, PaceInv
<1>7. CountInv'
  BY <1>1, <1>2, <1>3, ConstantsTyped DEF CountInv, Inv, FetchTypes
<1>8. HonourInv'
  <2>1. Allowed(now)
    <3> SUFFICES ASSUME named # NotNamed
                 PROVE  now >= failedAt + Bucket!Smaller(named, MaxBackoff)
      BY DEF Allowed
    <3>1. Bucket!Smaller(named, MaxBackoff) \in Nat
      BY ConstantsTyped DEF Inv, FetchTypes, Bucket!Smaller
    <3>2. retryAt >= failedAt + Bucket!Smaller(named, MaxBackoff)
      BY <1>1 DEF Inv, HonourInv, Allowed
    <3>3. QED
      BY <1>1, <3>1, <3>2 DEF Inv, FetchTypes, BucketInv
  <2>2. QED
    BY <1>1, <1>3, <2>1 DEF HonourInv, Allowed
<1>9. StallInv'
  <2>1. /\ SendBy(attempt) \in Int /\ SendBy(attempt + 1) = SendBy(attempt) + Stretch
    BY SendByNext, ConstantsTyped DEF Inv, FetchTypes
  <2>2. /\ sentAt <= failedAt /\ now <= retryAt + Late /\ retryAt <= failedAt + MaxBackoff
        /\ failedAt <= startedAt + SendBy(attempt) + Timeout + Late
    BY <1>1, ConstantsTyped DEF Inv, StallInv, FetchTypes
  <2>3. now <= startedAt + SendBy(attempt + 1)
    BY <2>1, <2>2, StretchTyped, ConstantsTyped DEF Inv, FetchTypes, BucketInv
  <2>4. CASE call' = "asking"
    BY <1>1, <1>3, <2>3, <2>4, ConstantsTyped DEF StallInv, Inv, BucketInv
  <2>5. CASE call' = "queued"
    <3>1. wakeAt' <= failedAt + Refill
      BY <1>2, <1>3, <1>4, <2>2, <2>5, ConstantsTyped DEF Inv, FetchTypes, BucketInv
    <3> wakeAt' \in Nat
      BY <1>3 DEF BucketInv
    <3>2. wakeAt' + Late <= startedAt + SendBy(attempt + 1)
      BY <2>1, <2>2, <3>1, StretchTyped, ConstantsTyped DEF Inv, FetchTypes, BucketInv
    <3>3. now <= wakeAt' + Late
      <4>1. Refilled < Refill /\ wakeAt' = now + (Refill - Refilled)
        BY <1>3, <2>5
      <4>2. now \in Nat
        BY DEF Inv, BucketInv
      <4>3. QED
        BY <1>4, <4>1, <4>2, ConstantsTyped
    <3>4. QED
      BY <1>1, <1>3, <2>5, <3>2, <3>3 DEF StallInv
  <2>6. QED
    BY <1>3, <2>4, <2>5
<1>10. QED
  BY <1>3, <1>5, <1>6, <1>7, <1>8, <1>9 DEF Inv

LEMMA TickInv ==
  ASSUME Inv, Tick
  PROVE  Inv'
<1>1. /\ now' = now + 1 /\ tokens' = tokens /\ lastRefillAt' = lastRefillAt
      /\ waiting' = waiting /\ draining' = draining /\ wakeAt' = wakeAt
  BY DEF Tick, Bucket!Tick
<1>2. /\ call' = call /\ attempt' = attempt /\ sentAt' = sentAt /\ retryAt' = retryAt
      /\ startedAt' = startedAt /\ sent' = sent /\ failedAt' = failedAt
      /\ named' = named
  BY DEF Tick, fetchVars
<1>3. BucketInv'
  BY <1>1 DEF Inv, BucketInv
<1>4. FetchTypes' /\ PaceInv' /\ CountInv'
  BY <1>1, <1>2 DEF Inv, FetchTypes, PaceInv, CountInv
<1>5. HonourInv'
  <2>1. Allowed(now) => Allowed(now + 1)
    <3>1. named # NotNamed => Bucket!Smaller(named, MaxBackoff) \in Nat
      BY ConstantsTyped DEF Inv, FetchTypes, Bucket!Smaller
    <3>2. QED
      BY <3>1 DEF Allowed, Inv, FetchTypes, BucketInv
  <2>2. QED
    BY <1>1, <1>2, <2>1 DEF Inv, HonourInv, Allowed
<1>6. StallInv'
  <2>1. /\ call = "asking" => now < sentAt + Timeout + Late
        /\ call = "sleeping" => now < retryAt + Late
        /\ call = "queued" => now < wakeAt + Late
    BY DEF Tick, Inv, PaceInv
  <2>2. QED
    BY <1>1, <1>2, <2>1, ConstantsTyped DEF Inv, StallInv, FetchTypes, BucketInv
<1>7. QED
  BY <1>3, <1>4, <1>5, <1>6 DEF Inv

LEMMA StepInv == Inv /\ [Next]_vars => Inv'
<1> SUFFICES ASSUME Inv, [Next]_vars PROVE Inv'
  OBVIOUS
<1>1. ASSUME NEW t \in Tiles, StartTile(t) PROVE Inv'
  BY <1>1, StartTileInv
<1>2. CASE Granted
  BY <1>2, GrantedInv
<1>3. CASE Answer
  BY <1>3, LeaveInv DEF Answer
<1>4. CASE Refuse
  BY <1>4, LeaveInv DEF Refuse
<1>5. CASE Busy
  <2>1. CASE FailAttempt(NotNamed)
    BY <2>1, FailAttemptInv
  <2>2. ASSUME NEW h \in Headers, FailAttempt(Larger(0, h)) PROVE Inv'
    <3>1. Larger(0, h) \in Nat
      BY ConstantsTyped DEF Larger
    <3>2. QED
      BY <2>2, <3>1, FailAttemptInv
  <2>3. QED
    BY <1>5, <2>1, <2>2 DEF Busy
<1>6. CASE Unreachable
  BY <1>6, FailAttemptInv DEF Unreachable
<1>7. CASE Retry
  BY <1>7, RetryInv
<1>8. CASE Tick
  BY <1>8, TickInv
<1>9. CASE UNCHANGED vars
  <2>1. BucketInv'
    BY <1>9 DEF vars, bucketVars, Inv, BucketInv
  <2>2. FetchTypes' /\ PaceInv' /\ CountInv'
    BY <1>9 DEF vars, bucketVars, fetchVars, Inv, FetchTypes, PaceInv, CountInv
  <2>3. HonourInv' /\ StallInv'
    BY <1>9 DEF vars, bucketVars, fetchVars, Inv, HonourInv, Allowed, StallInv
  <2>4. QED
    BY <2>1, <2>2, <2>3 DEF Inv
<1>10. QED
  BY <1>1, <1>2, <1>3, <1>4, <1>5, <1>6, <1>7, <1>8, <1>9 DEF Next

LEMMA InvHolds == Spec => []Inv
BY InitInv, StepInv, PTL DEF Spec

(***************************************************************************)
(* Theorems                                                                *)
(***************************************************************************)

\* No retry leaves before the wait the server named is over, or before the cap on
\* such waits (overpass.ts:76-87).
THEOREM HonourTheorem == Spec => []RetryAfterHonoured
<1>1. Inv => RetryAfterHonoured
  BY DEF Inv, HonourInv, Allowed, RetryAfterHonoured
<1>2. QED
  BY <1>1, InvHolds, PTL

\* One tile holds up its market for StallBound at most, whatever waits the server
\* names and however late its answers and the timers are (overpass.ts:48-92).
THEOREM StallTheorem == Spec => []StallBounded
<1>1. Inv => StallBounded
  <2> SUFFICES ASSUME Inv, call # "idle" PROVE now - startedAt <= StallBound
    BY DEF StallBounded
  <2>1. /\ SendBy(attempt) + Timeout + Late <= StallBound
        /\ SendBy(attempt) \in Int /\ SendBy(attempt + 1) = SendBy(attempt) + Stretch
    BY LastAnswerBy, SendByNext, ConstantsTyped DEF Inv, FetchTypes
  <2>2. StallBound \in Int
    <3>1. MaxBackoff \in Int /\ Refill \in Int
      BY ConstantsTyped
    <3>2. Larger(MaxBackoff, Refill) \in Int
      BY <3>1, LargerOf
    <3>3. /\ Attempts * (Timeout + Late) \in Int
          /\ (Attempts - 1) * (Larger(MaxBackoff, Refill) + Late) \in Int
      BY <3>2, ConstantsTyped
    <3>4. QED
      BY <3>3, ConstantsTyped DEF StallBound
  <2>3. CASE call \in {"queued", "asking"}
    BY <2>1, <2>2, <2>3, ConstantsTyped DEF Inv, StallInv, FetchTypes, BucketInv
  <2>4. CASE call = "sleeping"
    <3>1. attempt + 1 \in 1..Attempts
      BY <2>4, ConstantsTyped DEF Inv, CountInv, FetchTypes
    <3>2. SendBy(attempt + 1) + Timeout + Late <= StallBound
      BY <3>1, LastAnswerBy
    <3>3. now <= startedAt + SendBy(attempt) + Stretch
      BY <2>1, <2>4, StretchTyped, ConstantsTyped
         DEF Inv, StallInv, FetchTypes, BucketInv
    <3>4. QED
      BY <2>1, <2>2, <3>2, <3>3, StretchTyped, ConstantsTyped
         DEF Inv, FetchTypes, BucketInv
  <2>5. QED
    BY <2>3, <2>4 DEF Inv, FetchTypes
<1>2. QED
  BY <1>1, InvHolds, PTL

\* A tile is given up after every attempt it is due, never sooner
\* (overpass.ts:38-44).
THEOREM AttemptsTheorem == Spec => HolesTookEveryAttempt
<1>1. Inv /\ [Next]_vars => [exhausted' # exhausted => sent = Attempts]_vars
  <2> SUFFICES ASSUME Inv, Next, exhausted' # exhausted PROVE sent = Attempts
    BY DEF vars, fetchVars, outcomes
  <2>1. \E wait : FailAttempt(wait)
    BY DEF Next, StartTile, Granted, Answer, Refuse, Retry, Tick, fetchVars, outcomes,
           Busy, Unreachable
  <2>2. call = "asking" /\ LastAttempt
    BY <2>1 DEF FailAttempt
  <2>3. QED
    BY <2>2 DEF LastAttempt, Inv, CountInv
<1>2. QED
  BY <1>1, InvHolds, PTL DEF Spec, HolesTookEveryAttempt

\* With a burst of 1 two requests are never closer than the rate allows, retries
\* included (overpass.ts:13-21, 66).
THEOREM PaceTheorem == Spec => RequestsPaced
<1>1. Inv /\ [Next]_vars
        => [Capacity = Refill /\ call # "asking" /\ call' = "asking"
              => sentAt' >= sentAt + Refill]_vars
  <2> SUFFICES ASSUME Inv, Next, Capacity = Refill, call # "asking", call' = "asking"
               PROVE  sentAt' >= sentAt + Refill
    BY DEF vars, fetchVars
  <2>1. Refilled >= Refill /\ sentAt' = now
    <3>1. ASSUME NEW t \in Tiles, StartTile(t) PROVE Refilled >= Refill /\ sentAt' = now
      <4>1. ~draining /\ Schedule(0)
        BY <3>1 DEF StartTile, Inv, PaceInv
      <4>2. QED
        BY <4>1, ScheduleOne DEF Inv
    <3>2. CASE Granted
      BY <3>2, GrantedOne DEF Granted, Send
    <3>3. CASE Retry
      <4>1. ~draining /\ sent \in Nat /\ Schedule(sent)
        BY <3>3 DEF Retry, Inv, PaceInv, FetchTypes
      <4>2. QED
        BY <4>1, ScheduleOne DEF Inv
    <3>4. QED
      BY <3>1, <3>2, <3>3 DEF Next, Answer, Refuse, Busy, Unreachable, FailAttempt, Tick,
                              fetchVars
  <2>2. now - sentAt >= Refill
    BY <2>1, RefilledIs, ConstantsTyped DEF Inv, PaceInv, FetchTypes, BucketInv
  <2>3. QED
    BY <2>1, <2>2, ConstantsTyped DEF Inv, FetchTypes, BucketInv
<1>2. QED
  BY <1>1, InvHolds, PTL DEF Spec, RequestsPaced
=============================================================================
