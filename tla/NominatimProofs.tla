---------------------------- MODULE NominatimProofs ----------------------------
(***************************************************************************)
(* Two processes on one clock: each bucket is still a token bucket, so     *)
(* that together no second sees more than two requests; a caller of the    *)
(* API waits for those before it and no longer; and rows with one address  *)
(* get one point, whatever Nominatim answers and what fails.               *)
(***************************************************************************)
EXTENDS Nominatim, TokenBucketProofs, SequenceTheorems

WorkerProofs == INSTANCE TokenBucketProofs WITH
  MaxWaiting <- 1, tokens <- wTokens, lastRefillAt <- wLastRefillAt, waiting <- wWaiting,
  draining <- wDraining, wakeAt <- wWakeAt, granted <- wGranted

(***************************************************************************)
(* The buckets                                                             *)
(***************************************************************************)

LEMMA ApiBucketStep == [NominatimNext]_allVars => [Next]_vars
<1> SUFFICES ASSUME [NominatimNext]_allVars PROVE [Next]_vars
  OBVIOUS
<1>1. CASE UNCHANGED <<clockVars, apiBucket>>
  BY <1>1 DEF vars, clockVars, apiBucket
<1>2. ASSUME NEW r \in Requests, ScheduleCity(r) PROVE Acquire
  BY <1>2 DEF ScheduleCity
<1>3. ASSUME WakeApi PROVE Wake
  BY <1>3 DEF WakeApi
<1>4. ASSUME PassTime PROVE Tick
  BY <1>4 DEF PassTime
<1>5. ASSUME Observe PROVE Mark
  BY <1>5 DEF Observe
<1>6. ASSUME NEW r \in Rows, ScheduleAddress(r) PROVE UNCHANGED <<clockVars, apiBucket>>
  BY <1>6 DEF ScheduleAddress, Worker!Acquire, Worker!Drain, Worker!Grant, apiVars, clockVars
<1>7. ASSUME WakeWorker PROVE UNCHANGED <<clockVars, apiBucket>>
  BY <1>7 DEF WakeWorker, Worker!Wake, Worker!Drain, Worker!Grant, apiVars, clockVars
<1>8. QED
  BY <1>1, <1>2, <1>3, <1>4, <1>5, <1>6, <1>7
     DEF Next, NominatimNext, allVars, apiVars, FindCity, SaveCityBbox, FailCity, StartRun,
         EndRun, SkipRow, FindCached, AnswerAddress, SaveGeocode, SetLocation,
         LeaveUnlocated, LeaveRow

LEMMA WorkerBucketStep == [NominatimNext]_allVars => [Worker!Next]_(Worker!vars)
<1> SUFFICES ASSUME [NominatimNext]_allVars PROVE [Worker!Next]_(Worker!vars)
  OBVIOUS
<1>1. CASE UNCHANGED <<clockVars, workerBucket>>
  BY <1>1 DEF Worker!vars, clockVars, workerBucket
<1>2. ASSUME NEW r \in Rows, ScheduleAddress(r) PROVE Worker!Acquire
  BY <1>2 DEF ScheduleAddress
<1>3. ASSUME WakeWorker PROVE Worker!Wake
  BY <1>3 DEF WakeWorker
<1>4. ASSUME PassTime PROVE Worker!Tick
  BY <1>4 DEF PassTime, Tick, Worker!Tick, workerBucket
<1>5. ASSUME Observe PROVE Worker!Mark
  BY <1>5 DEF Observe, Mark, Worker!Mark
<1>6. ASSUME NEW r \in Requests, ScheduleCity(r) PROVE UNCHANGED <<clockVars, workerBucket>>
  BY <1>6 DEF ScheduleCity, Acquire, Drain, Grant, clockVars
<1>7. ASSUME WakeApi PROVE UNCHANGED <<clockVars, workerBucket>>
  BY <1>7 DEF WakeApi, Wake, Drain, Grant, clockVars
<1>8. QED
  BY <1>1, <1>2, <1>3, <1>4, <1>5, <1>6, <1>7
     DEF Worker!Next, NominatimNext, allVars, FindCity, SaveCityBbox, FailCity, StartRun,
         EndRun, SkipRow, FindCached, AnswerAddress, SaveGeocode, SetLocation,
         LeaveUnlocated, LeaveRow

LEMMA ApiIsBucket == NominatimSpec => Spec
<1>1. NominatimInit => Init
  BY DEF NominatimInit
<1>2. QED
  BY <1>1, ApiBucketStep, PTL DEF NominatimSpec, Spec

\* The bucket of the module and the one of its proofs are the same.
LEMMA WorkerSame ==
  /\ Worker!Init => WorkerProofs!Init
  /\ [Worker!Next]_(Worker!vars) => [WorkerProofs!Next]_(WorkerProofs!vars)
<1>1. Worker!Init => WorkerProofs!Init
  BY DEF Worker!Init, WorkerProofs!Init
<1>2. Worker!Next <=> WorkerProofs!Next
  BY DEF Worker!Next, Worker!Acquire, Worker!Wake, Worker!Drain, Worker!Grant,
         Worker!Refilled, Worker!Smaller, Worker!Tick, Worker!Mark,
         WorkerProofs!Next, WorkerProofs!Acquire, WorkerProofs!Wake, WorkerProofs!Drain,
         WorkerProofs!Grant, WorkerProofs!Refilled, WorkerProofs!Smaller,
         WorkerProofs!Tick, WorkerProofs!Mark
<1>3. UNCHANGED Worker!vars => UNCHANGED WorkerProofs!vars
  BY DEF Worker!vars, WorkerProofs!vars
<1>4. ASSUME [Worker!Next]_(Worker!vars) PROVE [WorkerProofs!Next]_(WorkerProofs!vars)
  <2>1. CASE Worker!Next
    BY <2>1, <1>2
  <2>2. CASE UNCHANGED Worker!vars
    BY <2>2, <1>3
  <2>3. QED
    BY <1>4, <2>1, <2>2
<1>5. QED
  BY <1>1, <1>4

LEMMA WorkerInvHolds == NominatimSpec => []WorkerProofs!Inv
<1>1. NominatimInit => WorkerProofs!Inv
  <2>1. NominatimInit => WorkerProofs!Init
    BY WorkerSame DEF NominatimInit
  <2>2. WorkerProofs!Init => WorkerProofs!Inv
    BY WorkerProofs!InitInv, RefillAssumption, CapacityAssumption, BoundAssumption
  <2>3. QED
    BY <2>1, <2>2
<1>2. WorkerProofs!Inv /\ [NominatimNext]_allVars => WorkerProofs!Inv'
  <2>1. [NominatimNext]_allVars => [WorkerProofs!Next]_(WorkerProofs!vars)
    BY WorkerBucketStep, WorkerSame
  <2>2. WorkerProofs!Inv /\ [WorkerProofs!Next]_(WorkerProofs!vars) => WorkerProofs!Inv'
    BY WorkerProofs!StepInv, RefillAssumption, CapacityAssumption, BoundAssumption
  <2>3. QED
    BY <2>1, <2>2
<1>3. QED
  BY <1>1, <1>2, PTL DEF NominatimSpec

LEMMA ApiInvHolds == NominatimSpec => []Inv
BY ApiIsBucket, InvHolds, PTL

(***************************************************************************)
(* The geocode cache                                                       *)
(***************************************************************************)

\* Nothing changes an entry of the cache, the worker saves where there is none,
\* and a row is located by what the cache holds.
CacheInv ==
  /\ cache \in [Keys -> Points \union {NoPoint}]
  /\ location \in [Rows -> Points \union {NoPoint}]
  /\ todo \subseteq Rows
  /\ step \in {"queued", "asking", "saving", "locating"} =>
       row \in Rows /\ KeyOf[row] \in Keys
  /\ step \in {"queued", "asking", "saving"} => cache[KeyOf[row]] = NoPoint
  /\ step \in {"saving", "locating"} => point \in Points
  /\ step = "locating" => point = cache[KeyOf[row]]
  /\ \A r \in Rows : location[r] # NoPoint =>
       KeyOf[r] \in Keys /\ location[r] = cache[KeyOf[r]]

\* The worker waits at its bucket alone.
QueueInv ==
  /\ wWaiting \in 0..1
  /\ wWaiting = 1 <=> step = "queued"

cacheVars == <<step, todo, row, point, cache, location>>

LEMMA CacheInit == NominatimInit => QueueInv /\ CacheInv
BY DEF NominatimInit, Worker!Init, QueueInv, CacheInv

\* Its timer finds the token.
LEMMA WakeServes ==
  ASSUME WorkerProofs!Inv, QueueInv, WakeWorker
  PROVE  step = "queued" /\ wWaiting' = 0
<1>1. Worker!Wake
  BY DEF WakeWorker
<1>2. wWaiting = 1 /\ wDraining /\ now >= wWakeAt
  BY <1>1 DEF Worker!Wake, QueueInv, WorkerProofs!Inv, WorkerProofs!NoLostWakeup
<1>3. Worker!Refilled >= Refill
  BY <1>2, ConstantsTyped
     DEF WorkerProofs!Inv, WorkerProofs!TypeOK, WorkerProofs!SleepIsEnough, Worker!Refilled,
         Worker!Smaller
<1>4. PICK n \in 0..1 : (n = 1 \/ (n + 1) * Refill > Worker!Refilled) /\ wWaiting' = 1 - n
  BY <1>1, <1>2 DEF Worker!Wake, Worker!Drain, Worker!Grant
<1>5. Worker!Refilled \in Int
  BY ConstantsTyped DEF WorkerProofs!Inv, WorkerProofs!TypeOK, Worker!Refilled, Worker!Smaller
<1>6. n = 1
  BY <1>3, <1>4, <1>5, ConstantsTyped
<1>7. QED
  BY <1>2, <1>4, <1>6 DEF QueueInv

LEMMA QueueStep ==
  ASSUME WorkerProofs!Inv, QueueInv, [NominatimNext]_allVars
  PROVE  QueueInv'
<1>1. CASE UNCHANGED <<wWaiting, step>>
  BY <1>1 DEF QueueInv
<1>2. CASE WakeWorker
  BY <1>2, WakeServes DEF WakeWorker, QueueInv
<1>3. ASSUME NEW r \in Rows, ScheduleAddress(r) PROVE QueueInv'
  <2>1. /\ Worker!Acquire /\ step = "looking"
        /\ step' = IF wWaiting' = 0 THEN "asking" ELSE "queued"
    BY <1>3 DEF ScheduleAddress, NextRow
  <2>2. wWaiting = 0 /\ ~wDraining
    BY <2>1 DEF QueueInv, WorkerProofs!Inv, WorkerProofs!NoLostWakeup
  <2>3. PICK n \in 0..1 : wWaiting' = 1 - n
    BY <2>1, <2>2 DEF Worker!Acquire, Worker!Drain, Worker!Grant
  <2>4. QED
    BY <2>1, <2>3 DEF QueueInv
<1>4. ASSUME wWaiting' = wWaiting, step # "queued", step' # "queued" PROVE QueueInv'
  BY <1>4 DEF QueueInv
<1>5. QED
  BY <1>1, <1>2, <1>3, <1>4
     DEF NominatimNext, allVars, workerBucket, runVars, FindCity, ScheduleCity, SaveCityBbox,
         FailCity, WakeApi, StartRun, EndRun, SkipRow, FindCached, NextRow, AnswerAddress,
         SaveGeocode, SetLocation, LeaveUnlocated, LeaveRow, PassTime, Observe

\* The worker looks a row up, with one result or the other.
LEMMA LookUpInv ==
  ASSUME CacheInv, NEW r \in Rows, SkipRow(r) \/ FindCached(r) \/ ScheduleAddress(r)
  PROVE  CacheInv'
<1>1. todo' = todo \ {r} /\ cache' = cache /\ location' = location
  BY DEF SkipRow, FindCached, ScheduleAddress, NextRow
<1>2. CASE SkipRow(r)
  BY <1>1, <1>2 DEF SkipRow, CacheInv
<1>3. KeyOf[r] # NoKey => KeyOf[r] \in Keys
  BY RowAssumption
<1>4. CASE FindCached(r)
  <2>1. /\ row' = r /\ step' = "locating" /\ KeyOf[r] \in Keys
        /\ point' = cache[KeyOf[r]] /\ cache[KeyOf[r]] # NoPoint
    BY <1>3, <1>4 DEF FindCached
  <2>2. QED
    BY <1>1, <2>1 DEF CacheInv
<1>5. CASE ScheduleAddress(r)
  <2>1. /\ row' = r /\ step' \in {"asking", "queued"} /\ KeyOf[r] \in Keys
        /\ point' = point /\ cache[KeyOf[r]] = NoPoint
    BY <1>3, <1>5 DEF ScheduleAddress
  <2>2. QED
    BY <1>1, <2>1 DEF CacheInv
<1>6. QED
  BY <1>2, <1>4, <1>5

\* The only step that writes the cache: no row is located by the entry it fills.
LEMMA SaveInv ==
  ASSUME CacheInv, SaveGeocode
  PROVE  CacheInv'
<1> DEFINE key == KeyOf[row]
<1>1. /\ step = "saving" /\ step' = "locating" /\ row' = row /\ point' = point
      /\ todo' = todo /\ location' = location
  BY DEF SaveGeocode
<1>2. row \in Rows /\ key \in Keys /\ cache[key] = NoPoint /\ point \in Points
  BY <1>1 DEF CacheInv
<1>3. cache' = [cache EXCEPT ![key] = point]
  BY <1>2 DEF SaveGeocode
<1>4. /\ cache' \in [Keys -> Points \union {NoPoint}] /\ cache'[key] = point
      /\ \A k \in Keys \ {key} : cache'[k] = cache[k]
  BY <1>2, <1>3 DEF CacheInv
<1>5. ASSUME NEW r \in Rows, location[r] # NoPoint
      PROVE  KeyOf[r] \in Keys /\ location[r] = cache'[KeyOf[r]]
  <2>1. KeyOf[r] \in Keys /\ location[r] = cache[KeyOf[r]]
    BY <1>5 DEF CacheInv
  <2>2. KeyOf[r] # key
    BY <1>2, <1>5, <2>1
  <2>3. QED
    BY <1>4, <2>1, <2>2
<1>6. QED
  BY <1>1, <1>2, <1>4, <1>5 DEF CacheInv

LEMMA SetLocationInv ==
  ASSUME CacheInv, SetLocation
  PROVE  CacheInv'
<1>1. /\ step = "locating" /\ step' = "looking" /\ todo' = todo /\ cache' = cache
      /\ location' = [location EXCEPT ![row] = point]
  BY DEF SetLocation, LeaveRow
<1>2. /\ row \in Rows /\ KeyOf[row] \in Keys /\ point \in Points
      /\ point = cache[KeyOf[row]]
  BY <1>1 DEF CacheInv
<1>3. QED
  BY <1>1, <1>2 DEF CacheInv

LEMMA CacheStep ==
  ASSUME WorkerProofs!Inv, QueueInv, CacheInv, [NominatimNext]_allVars
  PROVE  CacheInv'
<1>1. CASE UNCHANGED cacheVars
  BY <1>1 DEF cacheVars, CacheInv
<1>2. CASE StartRun
  <2>1. /\ step' = "looking" /\ todo' = {r \in Rows : location[r] = NoPoint}
        /\ cache' = cache /\ location' = location
    BY <1>2 DEF StartRun
  <2>2. QED
    BY <2>1 DEF CacheInv
<1>3. CASE EndRun
  BY <1>3 DEF EndRun, CacheInv
<1>4. ASSUME NEW r \in Rows, SkipRow(r) \/ FindCached(r) \/ ScheduleAddress(r)
      PROVE  CacheInv'
  BY <1>4, LookUpInv
<1>5. CASE WakeWorker
  <2>1. /\ step = "queued" /\ step' = "asking" /\ todo' = todo /\ row' = row
        /\ cache' = cache /\ location' = location
    BY <1>5, WakeServes DEF WakeWorker
  <2>2. QED
    BY <2>1 DEF CacheInv
<1>6. ASSUME NEW p \in Points, AnswerAddress(p) PROVE CacheInv'
  BY <1>6 DEF AnswerAddress, CacheInv
<1>7. CASE SaveGeocode
  BY <1>7, SaveInv
<1>8. CASE SetLocation
  BY <1>8, SetLocationInv
<1>9. CASE LeaveUnlocated
  <2>1. step' = "looking" /\ todo' = todo /\ cache' = cache /\ location' = location
    BY <1>9 DEF LeaveUnlocated, LeaveRow
  <2>2. QED
    BY <2>1 DEF CacheInv
<1>10. QED
  BY <1>1, <1>2, <1>3, <1>4, <1>5, <1>6, <1>7, <1>8, <1>9
     DEF NominatimNext, allVars, runVars, cacheVars, FindCity, ScheduleCity, SaveCityBbox,
         FailCity, WakeApi, PassTime, Observe

LEMMA CacheInvHolds == NominatimSpec => []CacheInv
<1>1. WorkerProofs!Inv /\ QueueInv /\ CacheInv /\ [NominatimNext]_allVars
        => QueueInv' /\ CacheInv'
  BY QueueStep, CacheStep
<1>2. QED
  BY <1>1, CacheInit, WorkerInvHolds, PTL DEF NominatimSpec

(***************************************************************************)
(* Theorems                                                                *)
(***************************************************************************)

\* Rows with one normalised address are at one point (geocode.ts:74-101,
\* discovery.ts:173-208).
THEOREM SamePointTheorem == NominatimSpec => []SameKeySamePoint
<1>1. CacheInv => SameKeySamePoint
  BY DEF CacheInv, SameKeySamePoint
<1>2. QED
  BY <1>1, CacheInvHolds, PTL

\* The API's bucket keeps its rate among the requests of browsers, whatever the
\* worker does (rateLimiter.ts:4-13, geocode.ts:16-21).
THEOREM ApiRateTheorem == NominatimSpec => []WindowBound
BY ApiIsBucket, RateTheorem, PTL

\* And no wake-up of its callers is lost (rateLimiter.ts:66-88).
THEOREM ApiWakeupTheorem == NominatimSpec => []NoLostWakeup
BY ApiIsBucket, WakeupTheorem, PTL

\* And its timers find a token (rateLimiter.ts:82-83).
THEOREM ApiTokenTheorem == NominatimSpec => []WakeFindsToken
BY ApiIsBucket, TokenTheorem, PTL

\* What each process keeps to by itself, for every rate under one request per second
\* (config.ts:81-90).
THEOREM EachOneTheorem == NominatimSpec => []EachOnePerSecond
<1>1. Inv /\ WorkerProofs!Inv => EachOnePerSecond
  <2> SUFFICES ASSUME Inv, WorkerProofs!Inv, Capacity = Refill, counting, now - mark < Second
               PROVE  granted <= 1 /\ wGranted <= 1
    BY DEF EachOnePerSecond
  <2>1. now - mark < Refill /\ now \in Int /\ mark \in Int
    BY PaceAssumption, ConstantsTyped DEF Inv, TypeOK
  <2>2. granted \in Nat /\ granted * Refill < 2 * Refill
    <3>1. granted * Refill + Refilled <= Capacity + (now - mark)
      BY DEF Inv, Budget
    <3>2. Refilled \in Nat /\ granted \in Nat /\ granted * Refill \in Int
      BY RefilledBounds, ConstantsTyped DEF Inv, TypeOK
    <3>3. QED
      BY <2>1, <3>1, <3>2, ConstantsTyped
  <2>3. wGranted \in Nat /\ wGranted * Refill < 2 * Refill
    <3>1. wGranted * Refill + WorkerProofs!Refilled <= Capacity + (now - mark)
      BY DEF WorkerProofs!Inv, WorkerProofs!Budget
    <3>2. /\ WorkerProofs!Refilled \in Nat /\ wGranted \in Nat
          /\ wGranted * Refill \in Int
      BY ConstantsTyped DEF WorkerProofs!Inv, WorkerProofs!TypeOK, WorkerProofs!Refilled,
                            WorkerProofs!Smaller
    <3>3. QED
      BY <2>1, <3>1, <3>2, ConstantsTyped
  <2>4. \A n \in Nat : n * Refill < 2 * Refill => n <= 1
    <3> SUFFICES ASSUME NEW n \in Nat, n * Refill < 2 * Refill, n > 1 PROVE FALSE
      OBVIOUS
    <3>1. (n - 2) * Refill >= 0 /\ n * Refill = (n - 2) * Refill + 2 * Refill
      BY ConstantsTyped
    <3>2. QED
      BY <3>1, ConstantsTyped
  <2>5. QED
    BY <2>2, <2>3, <2>4
<1>2. QED
  BY <1>1, ApiInvHolds, WorkerInvHolds, PTL

(***************************************************************************)
(* The queue                                                               *)
(***************************************************************************)

\* What one place in the queue adds to a wait.
Gap == Refill + Late

LEMMA GapLemma ==
  /\ Gap \in Nat
  /\ \A i \in Nat : i * Gap \in Nat
  /\ \A i, j \in Nat : (i + j) * Gap = i * Gap + j * Gap
BY ConstantsTyped, PaceAssumption DEF Gap

\* A queue of callers, each in one place of it and each with a deadline that leaves
\* room for the timer and for those before it.
Placed(waiters, states, deadlines, timer) ==
  /\ waiters \in Seq(Requests)
  /\ states \in [Requests -> {"none", "missed", "queued", "asking", "over"}]
  /\ deadlines \in [Requests -> Nat]
  /\ \A i, j \in 1..Len(waiters) : waiters[i] = waiters[j] => i = j
  /\ \A i \in 1..Len(waiters) : states[waiters[i]] = "queued"
  /\ \A r \in Requests : states[r] = "queued" => \E i \in 1..Len(waiters) : waiters[i] = r
  /\ \A i \in 1..Len(waiters) :
       deadlines[waiters[i]] >= timer + Late + (i - 1) * Gap

\* And the timer is neither far off nor long overdue.
PlaceInv ==
  /\ Len(queue) = waiting
  /\ Placed(queue, request, due, wakeAt)
  /\ draining => now <= wakeAt + Late

\* n of these callers are served, and the timer is set anew: those that are left move
\* up by n places.
LEMMA ServeLemma ==
  ASSUME NEW waiters \in Seq(Requests), NEW states, NEW deadlines, NEW n \in 0..Len(waiters),
         NEW timer \in Int, NEW later \in Int,
         Placed(waiters, states, deadlines, timer),
         waiting' = Len(waiters) - n,
         n < Len(waiters) => later <= timer + n * Gap,
         Serve(waiters, states, deadlines)
  PROVE  Len(queue') = waiting' /\ Placed(queue', request', due', later)
<1> DEFINE m == Len(waiters)
           served == Range(SubSeq(waiters, 1, n))
<1>1. m \in Nat /\ n \in Nat /\ n <= m /\ m - waiting' = n
  BY LenProperties
<1>2. /\ queue' = SubSeq(waiters, n + 1, m)
      /\ request' = [r \in Requests |-> IF r \in served THEN "asking" ELSE states[r]]
      /\ due' = [r \in Requests |-> IF r \in served THEN 0 ELSE deadlines[r]]
  BY <1>1 DEF Serve, Answered
<1>3. \A i \in 1..m : waiters[i] \in Requests
  BY ElementOfSeq
<1>4. /\ queue' \in Seq(Requests) /\ Len(queue') = m - n
      /\ \A i \in 1..(m - n) : queue'[i] = waiters[n + i]
  <2>1. \A i \in (n + 1)..m : waiters[i] \in Requests
    BY <1>1, <1>3
  <2>2. /\ queue' \in Seq(Requests)
        /\ Len(queue') = IF n + 1 <= m THEN m - (n + 1) + 1 ELSE 0
        /\ \A i \in 1..(m - (n + 1) + 1) : queue'[i] = waiters[n + 1 + i - 1]
    BY <1>1, <1>2, <2>1, SubSeqProperties
  <2>3. ASSUME NEW i \in 1..(m - n) PROVE queue'[i] = waiters[n + i]
    <3>1. i \in 1..(m - (n + 1) + 1) /\ n + 1 + i - 1 = n + i
      BY <1>1
    <3>2. QED
      BY <2>2, <3>1
  <2>4. QED
    BY <1>1, <2>2, <2>3
<1>5. served = {waiters[i] : i \in 1..n}
  <2>1. \A i \in 1..n : waiters[i] \in Requests
    BY <1>1, <1>3
  <2>2. /\ SubSeq(waiters, 1, n) \in Seq(Requests)
        /\ Len(SubSeq(waiters, 1, n)) = n
        /\ \A i \in 1..n : SubSeq(waiters, 1, n)[i] = waiters[i]
    <3>1. /\ SubSeq(waiters, 1, n) \in Seq(Requests)
          /\ Len(SubSeq(waiters, 1, n)) = IF 1 <= n THEN n - 1 + 1 ELSE 0
          /\ \A i \in 1..(n - 1 + 1) : SubSeq(waiters, 1, n)[i] = waiters[1 + i - 1]
      BY <1>1, <2>1, SubSeqProperties
    <3>2. \A i \in 1..n : SubSeq(waiters, 1, n)[i] = waiters[i]
      BY <1>1, <3>1
    <3>3. QED
      BY <1>1, <3>1, <3>2
  <2>3. DOMAIN SubSeq(waiters, 1, n) = 1..n
    BY <2>2, LenProperties
  <2>4. QED
    BY <2>2, <2>3 DEF Range
<1>6. ASSUME NEW i \in 1..(m - n)
      PROVE  /\ n + i \in 1..m /\ waiters[n + i] \in Requests
             /\ waiters[n + i] \notin served
             /\ queue'[i] = waiters[n + i]
  <2>1. n + i \in 1..m /\ i \in 1..(m - n)
    BY <1>1
  <2>2. waiters[n + i] \notin served
    <3> SUFFICES ASSUME NEW j \in 1..n, waiters[j] = waiters[n + i] PROVE FALSE
      BY <1>5
    <3>1. j \in 1..m /\ j # n + i
      BY <1>1
    <3>2. QED
      BY <2>1, <3>1 DEF Placed
  <2>3. QED
    BY <1>3, <1>4, <2>1, <2>2
<1>7. \A i, j \in 1..Len(queue') : queue'[i] = queue'[j] => i = j
  <2> SUFFICES ASSUME NEW i \in 1..(m - n), NEW j \in 1..(m - n), queue'[i] = queue'[j]
               PROVE  i = j
    BY <1>4
  <2>1. n + i = n + j
    BY <1>6 DEF Placed
  <2>2. QED
    BY <1>1, <2>1
<1>8. \A i \in 1..Len(queue') : request'[queue'[i]] = "queued"
  BY <1>2, <1>4, <1>6 DEF Placed
<1>9. ASSUME NEW r \in Requests, request'[r] = "queued"
      PROVE  \E i \in 1..Len(queue') : queue'[i] = r
  <2>1. r \notin served /\ states[r] = "queued"
    BY <1>2, <1>9
  <2>2. PICK k \in 1..m : waiters[k] = r
    BY <2>1 DEF Placed
  <2>3. k \notin 1..n
    BY <1>5, <2>1, <2>2
  <2>4. k - n \in 1..(m - n) /\ n + (k - n) = k
    BY <1>1, <2>3
  <2>5. QED
    BY <1>4, <2>2, <2>4
<1>10. ASSUME NEW i \in 1..Len(queue')
       PROVE  due'[queue'[i]] >= later + Late + (i - 1) * Gap
  <2>1. i \in 1..(m - n) /\ i \in Nat
    BY <1>4, <1>10, <1>1
  <2>2. due'[queue'[i]] = deadlines[waiters[n + i]]
    BY <1>2, <1>6, <2>1
  <2>3. /\ deadlines[waiters[n + i]] \in Nat
        /\ deadlines[waiters[n + i]] >= timer + Late + (n + i - 1) * Gap
    BY <1>6, <2>1 DEF Placed
  <2>4. /\ (n + i - 1) * Gap = n * Gap + (i - 1) * Gap
        /\ n * Gap \in Nat /\ (i - 1) * Gap \in Nat
    <3>1. n \in Nat /\ i - 1 \in Nat /\ n + i - 1 = n + (i - 1)
      BY <1>1, <2>1
    <3>2. QED
      BY <3>1, GapLemma
  <2>5. later <= timer + n * Gap
    BY <1>1, <2>1
  <2> DEFINE above == n * Gap
             ahead == (i - 1) * Gap
  <2>6. /\ above \in Nat /\ ahead \in Nat /\ later <= timer + above
        /\ due'[queue'[i]] \in Nat
        /\ due'[queue'[i]] >= timer + Late + (above + ahead)
    BY <2>2, <2>3, <2>4, <2>5
  <2> HIDE DEF above, ahead
  <2>7. due'[queue'[i]] >= later + Late + ahead
    BY <2>6, PaceAssumption
  <2>8. QED
    BY <2>7 DEF ahead
<1>11. /\ request' \in [Requests -> {"none", "missed", "queued", "asking", "over"}]
       /\ due' \in [Requests -> Nat]
  BY <1>2 DEF Placed
<1>12. QED
  BY <1>1, <1>4, <1>7, <1>8, <1>9, <1>10, <1>11 DEF Placed

\* A caller that arrives takes the last place.
LEMMA ArriveLemma ==
  ASSUME TypeOK, PlaceInv, NEW r \in Requests, request[r] = "missed",
         NEW timer \in Int, waiting > 0 => timer = wakeAt, timer <= now + Refill
  PROVE  /\ Append(queue, r) \in Seq(Requests) /\ Len(Append(queue, r)) = waiting + 1
         /\ Placed(Append(queue, r), [request EXCEPT ![r] = "queued"],
                   [due EXCEPT ![r] = now + (Len(queue) + 1) * (Refill + Late)], timer)
<1> DEFINE waiters == Append(queue, r)
           states == [request EXCEPT ![r] = "queued"]
           deadlines == [due EXCEPT ![r] = now + (Len(queue) + 1) * (Refill + Late)]
<1>1. /\ queue \in Seq(Requests) /\ Len(queue) = waiting /\ waiting \in Nat /\ now \in Nat
      /\ request \in [Requests -> {"none", "missed", "queued", "asking", "over"}]
      /\ due \in [Requests -> Nat]
  BY DEF PlaceInv, Placed, TypeOK
<1>2. /\ waiters \in Seq(Requests) /\ Len(waiters) = waiting + 1
      /\ \A i \in 1..waiting : waiters[i] = queue[i] /\ queue[i] \in Requests
      /\ waiters[waiting + 1] = r
  BY <1>1, AppendProperties, ElementOfSeq
<1>3. \A i \in 1..(waiting + 1) : i = waiting + 1 \/ i \in 1..waiting
  BY <1>1
<1>4. \A i \in 1..waiting : waiters[i] # r
  BY <1>1, <1>2 DEF PlaceInv, Placed
<1>5. \A i, j \in 1..Len(waiters) : waiters[i] = waiters[j] => i = j
  <2> SUFFICES ASSUME NEW i \in 1..(waiting + 1), NEW j \in 1..(waiting + 1),
                      waiters[i] = waiters[j]
               PROVE  i = j
    BY <1>2
  <2>1. CASE i \in 1..waiting /\ j \in 1..waiting
    BY <1>1, <1>2, <2>1 DEF PlaceInv, Placed
  <2>2. QED
    BY <1>2, <1>3, <1>4, <2>1
<1>6. \A i \in 1..Len(waiters) : states[waiters[i]] = "queued"
  BY <1>1, <1>2, <1>3 DEF PlaceInv, Placed
<1>7. ASSUME NEW q \in Requests, states[q] = "queued"
      PROVE  \E i \in 1..Len(waiters) : waiters[i] = q
  <2>1. CASE q = r
    <3>1. waiting + 1 \in 1..Len(waiters)
      BY <1>1, <1>2
    <3>2. QED
      BY <1>2, <2>1, <3>1
  <2>2. CASE q # r
    <3>1. PICK i \in 1..waiting : queue[i] = q
      BY <1>1, <1>7, <2>2 DEF PlaceInv, Placed
    <3>2. i \in 1..Len(waiters)
      BY <1>1, <1>2
    <3>3. QED
      BY <1>2, <3>1, <3>2
  <2>3. QED
    BY <2>1, <2>2
<1>8. now + (Len(queue) + 1) * (Refill + Late) = now + waiting * Gap + Gap
      /\ waiting * Gap \in Nat
  <2>1. (waiting + 1) * Gap = waiting * Gap + 1 * Gap /\ waiting * Gap \in Nat /\ Gap \in Nat
    BY <1>1, GapLemma
  <2>2. Gap = Refill + Late /\ Len(queue) = waiting
    BY <1>1 DEF Gap
  <2>3. QED
    BY <1>1, <2>1, <2>2
<1>9. deadlines \in [Requests -> Nat]
  <2>1. now + (Len(queue) + 1) * (Refill + Late) \in Nat
    <3> DEFINE ahead == waiting * Gap
    <3>1. ahead \in Nat /\ now + (Len(queue) + 1) * (Refill + Late) = now + ahead + Gap
      BY <1>8
    <3> HIDE DEF ahead
    <3>2. QED
      BY <1>1, <3>1, GapLemma
  <2>2. QED
    BY <1>1, <2>1
<1>10. ASSUME NEW i \in 1..Len(waiters)
       PROVE  deadlines[waiters[i]] >= timer + Late + (i - 1) * Gap
  <2>1. CASE i = waiting + 1
    <3>1. deadlines[waiters[i]] = now + waiting * Gap + Gap
      BY <1>1, <1>2, <1>8, <2>1
    <3>2. (i - 1) * Gap = waiting * Gap
      BY <1>1, <2>1
    <3>3. Gap = Refill + Late
      BY DEF Gap
    <3>4. QED
      BY <1>1, <1>8, <3>1, <3>2, <3>3, ConstantsTyped, PaceAssumption
  <2>2. CASE i \in 1..waiting
    <3>1. deadlines[waiters[i]] = due[queue[i]]
      BY <1>1, <1>2, <1>4, <2>2
    <3>2. timer = wakeAt
      BY <1>1, <2>2
    <3>3. QED
      BY <1>1, <2>2, <3>1, <3>2 DEF PlaceInv, Placed
  <2>3. QED
    BY <1>2, <1>3, <2>1, <2>2
<1>11. states \in [Requests -> {"none", "missed", "queued", "asking", "over"}]
  BY <1>1
<1>12. QED
  BY <1>2, <1>5, <1>6, <1>7, <1>9, <1>10, <1>11 DEF Placed

\* The drain loop goes through a queue and sleeps, if any are left, for what a token
\* lacks.
LEMMA DrainLemma ==
  ASSUME TypeOK, NEW size \in Nat, Drain(size)
  PROVE  \E n \in 0..size :
           /\ waiting' = size - n /\ (draining' => size > n)
           /\ n = 0 => Refilled < Refill \/ size = 0
           /\ size > n => wakeAt' \in Nat /\ now < wakeAt' /\ wakeAt' <= now + Refill
<1>1. PICK n \in 0..size :
        /\ n * Refill <= Refilled
        /\ n = size \/ (n + 1) * Refill > Refilled
        /\ Grant(size, n)
  BY DEF Drain
<1>2. Refilled \in Nat /\ now \in Nat
  BY RefilledBounds, ConstantsTyped DEF TypeOK
<1>3. n * Refill \in Nat /\ (n + 1) * Refill = n * Refill + Refill
  BY ConstantsTyped
<1>4. size > n => wakeAt' = now + (Refill - (Refilled - n * Refill))
  BY <1>1 DEF Grant
<1>5. size > n => n # size
  OBVIOUS
<1>6. size > n => wakeAt' \in Nat /\ now < wakeAt' /\ wakeAt' <= now + Refill
  BY <1>1, <1>2, <1>3, <1>4, <1>5, ConstantsTyped
<1>7. n = 0 => Refilled < Refill \/ size = 0
  BY <1>1, <1>2, ConstantsTyped
<1>8. waiting' = size - n /\ (draining' => size > n)
  BY <1>1 DEF Grant
<1>9. QED
  BY <1>6, <1>7, <1>8

\* A timer that is not due yet is not overdue.
LEMMA OnTime == \A m, n \in Nat : m < n => m <= n + Late
BY PaceAssumption

LEMMA ScheduleStep ==
  ASSUME Inv, PlaceInv, NEW r \in Requests, ScheduleCity(r)
  PROVE  PlaceInv'
<1> DEFINE waiters == Append(queue, r)
           states == [request EXCEPT ![r] = "queued"]
           deadlines == [due EXCEPT ![r] = now + (Len(queue) + 1) * (Refill + Late)]
<1>1. TypeOK /\ NoLostWakeup /\ SleepIsEnough
  BY DEF Inv
<1>2. /\ Acquire /\ Serve(waiters, states, deadlines) /\ request[r] = "missed"
      /\ Len(queue) = waiting /\ waiting \in Nat /\ now \in Nat /\ wakeAt \in Nat
  BY <1>1 DEF ScheduleCity, PlaceInv, TypeOK
<1>3. CASE draining
  <2>1. waiting' = waiting + 1 /\ UNCHANGED <<now, draining, wakeAt>>
    BY <1>2, <1>3 DEF Acquire
  <2>2. wakeAt <= now + Refill
    BY <1>1, <1>3, ConstantsTyped DEF TypeOK, SleepIsEnough
  <2>3. /\ waiters \in Seq(Requests) /\ Len(waiters) = waiting + 1
        /\ Placed(waiters, states, deadlines, wakeAt)
    BY <1>1, <1>2, <2>2, ArriveLemma
  <2>4. PICK n \in 0..Len(waiters) :
          waiting' = Len(waiters) - n /\ n * Gap = 0 /\ wakeAt <= wakeAt + n * Gap
    <3>1. 0 \in 0..Len(waiters) /\ 0 * Gap = 0
      BY <1>2, <2>3, GapLemma
    <3>2. QED
      BY <1>2, <2>1, <2>3, <3>1
  <2>5. /\ waiters \in Seq(Requests) /\ Placed(waiters, states, deadlines, wakeAt)
        /\ Serve(waiters, states, deadlines)
        /\ n \in 0..Len(waiters) /\ waiting' = Len(waiters) - n /\ wakeAt \in Int
        /\ n < Len(waiters) => wakeAt <= wakeAt + n * Gap
    BY <1>2, <2>3, <2>4
  <2> HIDE DEF waiters, states, deadlines
  <2>6. Len(queue') = waiting' /\ Placed(queue', request', due', wakeAt)
    BY <2>5, ServeLemma
  <2>7. wakeAt' = wakeAt /\ now' = now /\ (draining' => draining)
    BY <2>1
  <2>8. draining' => now' <= wakeAt' + Late
    BY <2>7 DEF PlaceInv
  <2>9. QED
    BY <2>6, <2>7, <2>8 DEF PlaceInv
<1>4. CASE ~draining
  <2>1. waiting = 0 /\ Drain(1)
    BY <1>1, <1>2, <1>3, <1>4 DEF Acquire, NoLostWakeup
  <2>2. PICK n \in 0..1 :
          /\ waiting' = 1 - n /\ (draining' => 1 > n)
          /\ 1 > n => wakeAt' \in Nat /\ now < wakeAt' /\ wakeAt' <= now + Refill
    BY <1>1, <2>1, DrainLemma
  <2>3. now' = now /\ wakeAt' \in Int
    BY <1>2, <2>1 , <2>2 DEF Drain, Grant
  <2> DEFINE timer == IF 1 > n THEN wakeAt' ELSE now
  <2>4. /\ waiters \in Seq(Requests) /\ Len(waiters) = 1
        /\ Placed(waiters, states, deadlines, timer)
    <3>1. timer \in Int /\ timer <= now + Refill /\ ~(waiting > 0)
      BY <1>2, <2>1, <2>2, ConstantsTyped
    <3>2. QED
      BY <1>1, <1>2, <2>1, <3>1, ArriveLemma
  <2>5. /\ n \in 0..Len(waiters) /\ waiting' = Len(waiters) - n /\ timer \in Int
        /\ n < Len(waiters) => wakeAt' <= timer + n * Gap
    BY <1>2, <2>2, <2>4, GapLemma
  <2>6. Len(queue') = waiting' /\ Placed(queue', request', due', wakeAt')
    BY <1>2, <2>3, <2>4, <2>5, ServeLemma
  <2>7. ASSUME draining' PROVE now' <= wakeAt' + Late
    <3>1. 1 > n
      BY <2>2, <2>7
    <3>2. wakeAt' \in Nat /\ now < wakeAt'
      BY <2>2, <3>1
    <3>3. now \in Nat /\ now' = now
      BY <1>2, <2>3
    <3>4. QED
      BY <3>2, <3>3, OnTime
  <2>8. QED
    BY <2>6, <2>7 DEF PlaceInv
<1>5. QED
  BY <1>3, <1>4

LEMMA WakeStep ==
  ASSUME Inv, PlaceInv, WakeApi
  PROVE  PlaceInv'
<1>1. TypeOK /\ NoLostWakeup /\ SleepIsEnough
  BY DEF Inv
<1>2. /\ draining /\ now >= wakeAt /\ Drain(waiting) /\ Serve(queue, request, due)
      /\ Len(queue) = waiting /\ waiting \in Nat /\ now \in Nat /\ wakeAt \in Nat
      /\ queue \in Seq(Requests) /\ Placed(queue, request, due, wakeAt)
      /\ now <= wakeAt + Late
  BY <1>1 DEF WakeApi, Wake, PlaceInv, Placed, TypeOK
<1>3. waiting > 0
  BY <1>1, <1>2 DEF NoLostWakeup
<1>4. Refilled >= Refill /\ Refilled \in Nat
  BY <1>1, <1>2, RefilledBounds, ConstantsTyped DEF TypeOK, SleepIsEnough
<1>5. PICK n \in 0..waiting :
        /\ waiting' = waiting - n /\ (draining' => waiting > n)
        /\ n = 0 => Refilled < Refill \/ waiting = 0
        /\ waiting > n => wakeAt' \in Nat /\ now < wakeAt' /\ wakeAt' <= now + Refill
  BY <1>1, <1>2, DrainLemma
<1>6. n # 0 /\ n \in Nat /\ n <= waiting
  BY <1>2, <1>3, <1>4, <1>5, ConstantsTyped
<1>7. n * Gap \in Nat /\ n * Gap >= Gap
  <2>1. n - 1 \in Nat /\ n = (n - 1) + 1
    BY <1>6
  <2>2. n * Gap = (n - 1) * Gap + 1 * Gap /\ (n - 1) * Gap \in Nat /\ Gap \in Nat
    BY <2>1, GapLemma
  <2>3. QED
    BY <2>2
<1>8. now' = now /\ wakeAt' \in Int
  BY <1>2, <1>5 DEF Drain, Grant
<1>9. n < Len(queue) => wakeAt' <= wakeAt + n * Gap
  <2>1. Gap = Refill + Late
    BY DEF Gap
  <2>2. QED
    BY <1>2, <1>5, <1>6, <1>7, <2>1, ConstantsTyped, PaceAssumption
<1>10. Len(queue') = waiting' /\ Placed(queue', request', due', wakeAt')
  <2>1. n \in 0..Len(queue) /\ waiting' = Len(queue) - n /\ wakeAt \in Int
    BY <1>2, <1>5
  <2>2. QED
    BY <1>2, <1>8, <1>9, <2>1, ServeLemma
<1>11. ASSUME draining' PROVE now' <= wakeAt' + Late
  <2>1. waiting > n
    BY <1>5, <1>11
  <2>2. wakeAt' \in Nat /\ now < wakeAt'
    BY <1>5, <2>1
  <2>3. now \in Nat /\ now' = now
    BY <1>2, <1>8
  <2>4. QED
    BY <2>2, <2>3, OnTime
<1>12. QED
  BY <1>10, <1>11 DEF PlaceInv

\* A request that is not in the queue and does not come to it moves on.
LEMMA MoveStep ==
  ASSUME PlaceInv, NEW r \in Requests, NEW from, NEW to \in {"missed", "asking", "over"},
         from # "queued", Moves(r, from, to),
         UNCHANGED <<now, waiting, draining, wakeAt, queue, due>>
  PROVE  PlaceInv'
<1>1. \A i \in 1..Len(queue) : queue[i] # r /\ queue[i] \in Requests
  <2>1. queue \in Seq(Requests)
    BY DEF PlaceInv, Placed
  <2>2. QED
    BY <2>1, ElementOfSeq DEF PlaceInv, Placed, Moves
<1>2. request' = [request EXCEPT ![r] = to] /\ Placed(queue, request, due, wakeAt)
  BY DEF Moves, PlaceInv
<1>3. Placed(queue, request', due, wakeAt)
  BY <1>1, <1>2 DEF Placed
<1>4. QED
  BY <1>3 DEF PlaceInv

LEMMA PlaceStep ==
  ASSUME Inv, PlaceInv, [NominatimNext]_allVars
  PROVE  PlaceInv'
<1>1. CASE UNCHANGED <<now, waiting, draining, wakeAt, queue, request, due>>
  BY <1>1 DEF PlaceInv
<1>2. ASSUME NEW r \in Requests, FindCity(r) PROVE PlaceInv'
  <2>1. \E to \in {"missed", "over"} : Moves(r, "none", to)
    BY <1>2 DEF FindCity
  <2>2. QED
    BY <1>2, <2>1, MoveStep DEF FindCity, clockVars, apiBucket
<1>3. ASSUME NEW r \in Requests, SaveCityBbox(r) \/ FailCity(r) PROVE PlaceInv'
  BY <1>3, MoveStep DEF SaveCityBbox, FailCity, clockVars, apiBucket
<1>4. ASSUME NEW r \in Requests, ScheduleCity(r) PROVE PlaceInv'
  BY <1>4, ScheduleStep
<1>5. CASE WakeApi
  BY <1>5, WakeStep
<1>6. CASE PassTime
  <2>1. /\ draining => now < wakeAt + Late
        /\ now' = now + 1
        /\ UNCHANGED <<waiting, draining, wakeAt, queue, request, due>>
    BY <1>6 DEF PassTime, Tick
  <2>2. now \in Nat /\ wakeAt \in Nat
    BY DEF Inv, TypeOK
  <2>3. draining' => now' <= wakeAt' + Late
    BY <2>1, <2>2, PaceAssumption
  <2>4. QED
    BY <2>1, <2>3 DEF PlaceInv
<1>7. CASE Observe
  BY <1>1, <1>7 DEF Observe, Mark
<1>8. QED
  BY <1>1, <1>2, <1>3, <1>4, <1>5, <1>6, <1>7
     DEF NominatimNext, allVars, apiVars, clockVars, apiBucket, StartRun, EndRun, SkipRow,
         FindCached, ScheduleAddress, WakeWorker, AnswerAddress, SaveGeocode, SetLocation,
         LeaveUnlocated, LeaveRow, Worker!Acquire, Worker!Wake, Worker!Drain, Worker!Grant

LEMMA PlaceInit == NominatimInit => PlaceInv
<1> SUFFICES ASSUME NominatimInit PROVE PlaceInv
  OBVIOUS
<1>1. queue = <<>> /\ waiting = 0 /\ ~draining
  BY DEF NominatimInit, Init
<1>2. <<>> \in Seq(Requests) /\ Len(<<>>) = 0 /\ 1..0 = {}
  BY EmptySeq
<1>3. /\ request = [r \in Requests |-> "none"]
      /\ due = [r \in Requests |-> 0]
  BY DEF NominatimInit
<1>4. QED
  BY <1>1, <1>2, <1>3 DEF PlaceInv, Placed

\* No caller of the API waits longer than the rate needs for those before it, with its
\* timers on time (rateLimiter.ts:15-17, 66-88).
THEOREM WaitTheorem == NominatimSpec => []WaitBounded
<1>1. Inv /\ PlaceInv => WaitBounded
  <2> SUFFICES ASSUME Inv, PlaceInv, NEW r \in Requests, request[r] = "queued"
               PROVE  now <= due[r]
    BY DEF WaitBounded
  <2>1. PICK i \in 1..Len(queue) : queue[i] = r
    BY DEF PlaceInv, Placed
  <2>2. /\ Len(queue) = waiting /\ waiting \in Nat /\ now \in Nat /\ wakeAt \in Nat
    BY DEF Inv, TypeOK, PlaceInv
  <2>3. draining
    BY <2>1, <2>2 DEF Inv, NoLostWakeup
  <2>4. now <= wakeAt + Late
    BY <2>3 DEF PlaceInv
  <2>5. due[r] >= wakeAt + Late + (i - 1) * Gap /\ due[r] \in Nat
    BY <2>1 DEF PlaceInv, Placed
  <2>6. (i - 1) * Gap \in Nat
    BY <2>1, <2>2, GapLemma
  <2>7. QED
    BY <2>2, <2>4, <2>5, <2>6, PaceAssumption
<1>2. Inv /\ PlaceInv /\ [NominatimNext]_allVars => PlaceInv'
  BY PlaceStep
<1>3. QED
  BY <1>1, <1>2, PlaceInit, ApiInvHolds, PTL DEF NominatimSpec
=============================================================================
