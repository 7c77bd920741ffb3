----------------------------- MODULE OverpassClient -----------------------------
(***************************************************************************)
(* The worker's fetches of one tile after the other from Overpass          *)
(* (controllers/overpass.ts, http.ts), through its token bucket: attempts, *)
(* timeouts, Retry-After and backoff, on the bucket's clock.               *)
(*                                                                         *)
(* The worker runs one job, and a job one fetch, at a time, so one caller  *)
(* uses the bucket.  A timer fires at most Late ticks after it is due.     *)
(***************************************************************************)
EXTENDS Integers, FiniteSets

CONSTANTS
  Refill, Capacity, MaxTime,  \* the bucket's
  Attempts,    \* config.overpassTileAttempts, at least 1
  Timeout,     \* (config.overpassTimeoutSeconds + 15) s
  RetryDelay,  \* config.overpassTileRetryDelayMs
  MaxBackoff,  \* config.overpassMaxBackoffMs
  Headers,     \* bound: the waits a Retry-After header can name, in ticks
  NotNamed,    \* no Retry-After header, or one that is neither number nor date
  Late,        \* bound: how late a timer fires
  Tiles,
  NoTile

ASSUME ClientAssumption ==
  /\ Refill \in Nat \ {0} /\ Capacity \in Nat /\ Capacity >= Refill /\ MaxTime \in Nat
  /\ Attempts \in Nat \ {0} /\ Timeout \in Nat \ {0}
  /\ RetryDelay \in Nat /\ MaxBackoff \in Nat /\ Late \in Nat
  /\ Headers \subseteq Int /\ NotNamed \notin Int /\ NoTile \notin Tiles

VARIABLES
  now, tokens, lastRefillAt, waiting, draining, wakeAt, counting, mark, granted,
  todo,       \* the tiles still to fetch
  tile,       \* the one being fetched
  call,       \* idle, queued at the bucket, asking, or sleeping
  attempt,
  sentAt,     \* when the last request left
  retryAt,    \* when the backoff is over
  startedAt,  \* when the fetch of this tile began
  sent,       \* requests sent for it
  failedAt,   \* when its last attempt failed
  named,      \* the wait the server named then
  fetched,    \* tiles answered
  refused,    \* tiles whose request is wrong, or whose answer is
  exhausted   \* tiles given up after passing failures

bucketVars == <<now, tokens, lastRefillAt, waiting, draining, wakeAt, counting, mark, granted>>
outcomes == <<fetched, refused, exhausted>>
fetchVars == <<todo, tile, call, attempt, sentAt, retryAt, startedAt, sent, failedAt,
               named, outcomes>>
vars == <<bucketVars, fetchVars>>

Bucket == INSTANCE TokenBucket WITH MaxWaiting <- 1

Larger(a, b) == IF a >= b THEN a ELSE b

TypeOK ==
  /\ Bucket!TypeOK
  /\ todo \subseteq Tiles /\ tile \in Tiles \union {NoTile}
  /\ call \in {"idle", "queued", "asking", "sleeping"}
  /\ attempt \in 1..Attempts /\ sent \in 0..attempt
  /\ sentAt \in Int /\ {retryAt, startedAt, failedAt} \subseteq Nat
  /\ named \in {Larger(0, h) : h \in Headers} \union {NotNamed}
  /\ UNION {fetched, refused, exhausted} \subseteq Tiles \ todo

Init ==
  /\ Bucket!Init
  /\ todo = Tiles /\ tile = NoTile /\ call = "idle"
  /\ attempt = 1 /\ sent = 0 /\ sentAt = -Refill
  /\ retryAt = 0 /\ startedAt = 0 /\ failedAt = 0 /\ named = NotNamed
  /\ fetched = {} /\ refused = {} /\ exhausted = {}

Send(before) == call' = "asking" /\ sentAt' = now /\ sent' = before + 1

\* limiter.schedule: the request leaves when the bucket lets it.
Schedule(before) ==
  /\ Bucket!Acquire
  /\ IF waiting' = 0
     THEN Send(before)
     ELSE call' = "queued" /\ sent' = before /\ UNCHANGED sentAt

Granted ==
  /\ call = "queued"
  /\ Bucket!Wake
  /\ Send(sent)
  /\ UNCHANGED <<todo, tile, attempt, retryAt, startedAt, failedAt, named, outcomes>>

\* The attempts of the tile before counted against this one.
StartTileWithOldCount(t) ==
  /\ call = "idle" /\ t \in todo
  /\ todo' = todo \ {t} /\ tile' = t
  /\ startedAt' = now
  /\ Schedule(0)
  /\ UNCHANGED <<attempt, retryAt, failedAt, named, outcomes>>

\* fetchStoresInBbox is called with the next tile.
StartTile(t) ==
  /\ call = "idle" /\ t \in todo
  /\ todo' = todo \ {t} /\ tile' = t
  /\ attempt' = 1 /\ startedAt' = now
  /\ Schedule(0)
  /\ UNCHANGED <<retryAt, failedAt, named, outcomes>>

\* fetchStoresInBbox returns or throws; what it threw is a failed tile.
Leave ==
  /\ call' = "idle" /\ tile' = NoTile
  /\ startedAt' = 0 /\ retryAt' = 0 /\ failedAt' = 0 /\ named' = NotNamed

Answer ==
  /\ call = "asking"
  /\ Leave
  /\ fetched' = fetched \union {tile}
  /\ UNCHANGED <<bucketVars, todo, attempt, sentAt, sent, refused, exhausted>>

\* A 4xx other than 429, or an answer that cannot be read: not retryable.
Refuse ==
  /\ call = "asking"
  /\ Leave
  /\ refused' = refused \union {tile}
  /\ UNCHANGED <<bucketVars, todo, attempt, sentAt, sent, fetched, exhausted>>

LastAttempt == attempt = Attempts

\* The waits backoffMs can return, were a Retry-After taken as it is.
BackoffUncapped(wait) ==
  IF wait # NotNamed
  THEN {wait}
  ELSE LET capped == Bucket!Smaller(RetryDelay * 2 ^ (attempt - 1), MaxBackoff)
       IN {w \in 0..capped : 2 * w >= capped}

\* And were the local delay used whatever the server said.
BackoffLocal(wait) ==
  LET capped == Bucket!Smaller(RetryDelay * 2 ^ (attempt - 1), MaxBackoff)
  IN {w \in 0..capped : 2 * w >= capped}

\* backoffMs: the server's wait, capped; else the doubled delay, capped, times a
\* factor between a half and one.
Backoff(wait) ==
  IF wait # NotNamed
  THEN {Bucket!Smaller(wait, MaxBackoff)}
  ELSE LET capped == Bucket!Smaller(RetryDelay * 2 ^ (attempt - 1), MaxBackoff)
       IN {w \in 0..capped : 2 * w >= capped}

\* A retryable failure: the next attempt follows a sleep, if there is one.
FailAttempt(wait) ==
  /\ call = "asking"
  /\ IF LastAttempt
     THEN Leave /\ exhausted' = exhausted \union {tile}
     ELSE /\ call' = "sleeping" /\ failedAt' = now /\ named' = wait
          /\ \E w \in Backoff(wait) : retryAt' = now + w
          /\ UNCHANGED <<tile, startedAt, exhausted>>
  /\ UNCHANGED <<bucketVars, todo, attempt, sentAt, sent, fetched, refused>>

\* 429 or 5xx.  A negative wait, or a date gone by, is a wait of 0.
Busy ==
  \/ FailAttempt(NotNamed)
  \/ \E h \in Headers : FailAttempt(Larger(0, h))

\* The connection fails or the timeout strikes: there is no header to read.
Unreachable == FailAttempt(NotNamed)

\* A retry that does not go through the bucket.
RetryAtOnce ==
  /\ call = "sleeping" /\ now >= retryAt
  /\ attempt' = attempt + 1
  /\ Send(sent)
  /\ UNCHANGED <<bucketVars, todo, tile, retryAt, startedAt, failedAt, named, outcomes>>

Retry ==
  /\ call = "sleeping" /\ now >= retryAt
  /\ attempt' = attempt + 1
  /\ Schedule(sent)
  /\ UNCHANGED <<todo, tile, retryAt, startedAt, failedAt, named, outcomes>>

\* Bound: no timer is more than Late ticks overdue.  Between two tiles,
\* while the worker writes what it got, time passes freely.
Tick ==
  /\ call = "asking" => now < sentAt + Timeout + Late
  /\ call = "sleeping" => now < retryAt + Late
  /\ draining => now < wakeAt + Late
  /\ Bucket!Tick
  /\ UNCHANGED fetchVars

Next ==
  \/ \E t \in Tiles : StartTile(t)
  \/ Granted \/ Answer \/ Refuse \/ Busy \/ Unreachable \/ Retry \/ Tick

Spec == Init /\ [][Next]_vars

(***************************************************************************)
(* Properties                                                              *)
(***************************************************************************)

\* No request of a retry leaves before the server said it may, or before the cap
\* the code puts on that wait (overpass.ts:76-87, config.ts:102-105).
RetryAfterHonoured ==
  call = "asking" /\ attempt > 1 /\ named # NotNamed =>
    sentAt >= failedAt + Bucket!Smaller(named, MaxBackoff)

\* One tile holds up the market for a bounded time, whatever waits the server
\* names and however late its answers are (config.ts:102-105).
StallBound ==
  (Refill + Late) + Attempts * (Timeout + Late)
    + (Attempts - 1) * (Larger(MaxBackoff, Refill) + Late)
StallBounded == call # "idle" => now - startedAt <= StallBound

\* A tile that met passing failures only is given up after Attempts requests, not
\* one less: no hole is left by a single 503 (overpass.ts:38-44).
HolesTookEveryAttempt ==
  [][exhausted' # exhausted => sent = Attempts]_vars

\* However requests fail and are repeated, each of them leaves the bucket's interval
\* after the one before, with the burst of 1 that is configured (config.ts:93-94).
RequestsPaced ==
  [][Capacity = Refill /\ call # "asking" /\ call' = "asking"
       => sentAt' >= sentAt + Refill]_vars
=============================================================================
