------------------------------- MODULE Nominatim -------------------------------
(***************************************************************************)
(* Two processes ask Nominatim (controllers/geocode.ts), each through a    *)
(* token bucket of its own: the API for the boxes of cities, at the        *)
(* requests of browsers, several at once, and the worker for the points of *)
(* addresses, row after row.  Both look in a table first and save what     *)
(* they learn.                                                             *)
(*                                                                         *)
(* TokenBucket is the API's bucket; Worker is the worker's, on the same    *)
(* clock.  A timer fires at most Late ticks after it is due.  The observer *)
(* counts the requests of both.                                            *)
(***************************************************************************)
EXTENDS TokenBucket, Sequences, Functions

CONSTANTS
  Second,    \* ticks in a second
  Late,      \* bound: how late a timer fires
  Cities,
  Requests,  \* bound: GET /cities/:cityId/bbox
  CityOf,    \* the city of each
  Rows,      \* portfolio rows with an address
  Keys,      \* normalised addresses
  KeyOf,     \* normalizeAddress of each row's address, NoKey if nothing is left
  NoKey,
  Points,
  NoPoint,
  Runs       \* bound: markets whose discovery gets to the geocoding

ASSUME PaceAssumption == Second \in Nat \ {0} /\ Second < Refill /\ Late \in Nat
ASSUME CityOfAssumption == CityOf \in [Requests -> Cities]
ASSUME RowAssumption ==
  /\ NoKey \notin Keys /\ NoPoint \notin Points /\ Runs \in Nat
  /\ KeyOf \in [Rows -> Keys \union {NoKey}]

VARIABLES
  queue,     \* the API's waiters, in arrival order
  request,   \* how far each request for a box is
  boxed,     \* the cities whose row has a box
  due,       \* when a waiter is served at the latest, by its place in the queue, or 0
  wTokens, wLastRefillAt, wWaiting, wDraining, wWakeAt, wGranted,
  step,      \* what the worker awaits: idle, looking, queued, asking, saving, locating
  todo,      \* the rows its run has left
  row,       \* the row at hand, or NoKey
  point,     \* its point
  cache,     \* geocode_cache
  location,  \* portfolio_store.location
  runs       \* runs begun

clockVars == <<now, counting, mark>>
apiBucket == <<tokens, lastRefillAt, waiting, draining, wakeAt, granted>>
apiVars == <<apiBucket, queue, request, boxed, due>>
workerBucket == <<wTokens, wLastRefillAt, wWaiting, wDraining, wWakeAt, wGranted>>
runVars == <<step, todo, row, point, cache, location, runs>>
allVars == <<clockVars, apiVars, workerBucket, runVars>>

Worker == INSTANCE TokenBucket WITH
  MaxWaiting <- 1, tokens <- wTokens, lastRefillAt <- wLastRefillAt, waiting <- wWaiting,
  draining <- wDraining, wakeAt <- wWakeAt, granted <- wGranted

NominatimInit ==
  /\ Init /\ Worker!Init
  /\ queue = <<>> /\ request = [r \in Requests |-> "none"]
  /\ due = [r \in Requests |-> 0]
  /\ boxed \in SUBSET Cities
  /\ step = "idle" /\ todo = {} /\ row = NoKey /\ point = NoPoint
  /\ cache = [k \in Keys |-> NoPoint] /\ location = [r \in Rows |-> NoPoint]
  /\ runs = 0

(***************************************************************************)
(* The API                                                                 *)
(***************************************************************************)

Moves(r, from, to) == request[r] = from /\ request' = [request EXCEPT ![r] = to]

\* findCityForGeocoding: a box in the row is the answer.
FindCity(r) ==
  /\ Moves(r, "none", IF CityOf[r] \in boxed THEN "over" ELSE "missed")
  /\ UNCHANGED <<clockVars, apiBucket, queue, boxed, due, workerBucket, runVars>>

\* These are served, those wait on.
Answered(served, states, deadlines) ==
  /\ request' = [r \in Requests |-> IF r \in served THEN "asking" ELSE states[r]]
  /\ due' = [r \in Requests |-> IF r \in served THEN 0 ELSE deadlines[r]]

\* The newest waiter first.
ServeNewest(waiters, states, deadlines) ==
  /\ queue' = SubSeq(waiters, 1, waiting')
  /\ Answered(Range(SubSeq(waiters, waiting' + 1, Len(waiters))), states, deadlines)

\* waiters.shift(), until waiting' of these callers are left.
Serve(waiters, states, deadlines) ==
  LET n == Len(waiters) - waiting'
  IN /\ queue' = SubSeq(waiters, n + 1, Len(waiters))
     /\ Answered(Range(SubSeq(waiters, 1, n)), states, deadlines)

\* limiter.schedule, once the row had no box.
ScheduleCity(r) ==
  /\ request[r] = "missed"
  /\ Acquire
  /\ Serve(Append(queue, r), [request EXCEPT ![r] = "queued"],
           [due EXCEPT ![r] = now + (Len(queue) + 1) * (Refill + Late)])
  /\ UNCHANGED <<boxed, workerBucket, runVars>>

WakeApi ==
  /\ Wake
  /\ Serve(queue, request, due)
  /\ UNCHANGED <<boxed, workerBucket, runVars>>

\* Nominatim names a box and it is saved, over what another request has saved.
SaveCityBbox(r) ==
  /\ Moves(r, "asking", "over")
  /\ boxed' = boxed \union {CityOf[r]}
  /\ UNCHANGED <<clockVars, apiBucket, queue, due, workerBucket, runVars>>

\* It knows no such city or names no box, it fails, or the UPDATE does.
FailCity(r) ==
  /\ Moves(r, "asking", "over")
  /\ UNCHANGED <<clockVars, apiBucket, queue, boxed, due, workerBucket, runVars>>

(***************************************************************************)
(* The worker                                                              *)
(***************************************************************************)

\* findUnlocatedStoresNear.
StartRun ==
  /\ step = "idle" /\ runs < Runs
  /\ runs' = runs + 1 /\ step' = "looking"
  /\ todo' = {r \in Rows : location[r] = NoPoint}
  /\ UNCHANGED <<clockVars, apiVars, workerBucket, row, point, cache, location>>

EndRun ==
  /\ step = "looking" /\ todo = {}
  /\ step' = "idle"
  /\ UNCHANGED <<clockVars, apiVars, workerBucket, todo, row, point, cache, location, runs>>

NextRow(r) == step = "looking" /\ r \in todo /\ todo' = todo \ {r}

\* An address of which normalizing leaves nothing has no point.
SkipRow(r) ==
  /\ NextRow(r) /\ KeyOf[r] = NoKey
  /\ UNCHANGED <<clockVars, apiVars, workerBucket, step, row, point, cache, location, runs>>

\* findCachedGeocode has it.
FindCached(r) ==
  /\ NextRow(r) /\ KeyOf[r] # NoKey /\ cache[KeyOf[r]] # NoPoint
  /\ row' = r /\ point' = cache[KeyOf[r]] /\ step' = "locating"
  /\ UNCHANGED <<clockVars, apiVars, workerBucket, cache, location, runs>>

\* Or not.
ScheduleAddress(r) ==
  /\ NextRow(r) /\ KeyOf[r] # NoKey /\ cache[KeyOf[r]] = NoPoint
  /\ Worker!Acquire
  /\ row' = r /\ step' = IF wWaiting' = 0 THEN "asking" ELSE "queued"
  /\ UNCHANGED <<apiVars, point, cache, location, runs>>

WakeWorker ==
  /\ Worker!Wake
  /\ step' = "asking"
  /\ UNCHANGED <<apiVars, todo, row, point, cache, location, runs>>

AnswerAddress(p) ==
  /\ step = "asking"
  /\ point' = p /\ step' = "saving"
  /\ UNCHANGED <<clockVars, apiVars, workerBucket, todo, row, cache, location, runs>>

\* saveGeocode: ON CONFLICT DO NOTHING.
SaveGeocode ==
  /\ step = "saving"
  /\ cache' = [cache EXCEPT ![KeyOf[row]] = IF @ = NoPoint THEN point ELSE @]
  /\ step' = "locating"
  /\ UNCHANGED <<clockVars, apiVars, workerBucket, todo, row, point, location, runs>>

LeaveRow ==
  /\ step' = "looking" /\ row' = NoKey /\ point' = NoPoint
  /\ UNCHANGED <<clockVars, apiVars, workerBucket, todo, cache, runs>>

SetLocation ==
  /\ step = "locating"
  /\ location' = [location EXCEPT ![row] = point]
  /\ LeaveRow

\* A save whose failure does not keep the row from its point.
GoOnUnsaved ==
  \/ step \in {"asking", "locating"} /\ UNCHANGED location /\ LeaveRow
  \/ /\ step = "saving" /\ step' = "locating"
     /\ UNCHANGED <<clockVars, apiVars, workerBucket, todo, row, point, cache, location, runs>>

\* Nominatim has no match or fails, or a statement does: the row stays as it is.
LeaveUnlocated ==
  /\ step \in {"asking", "saving", "locating"}
  /\ UNCHANGED location
  /\ LeaveRow

(***************************************************************************)
(* The clock                                                               *)
(***************************************************************************)

PassTime ==
  /\ draining => now < wakeAt + Late
  /\ wDraining => now < wWakeAt + Late
  /\ Tick
  /\ UNCHANGED <<queue, request, boxed, due, workerBucket, runVars>>

Observe ==
  /\ Mark /\ wGranted' = 0
  /\ UNCHANGED <<wTokens, wLastRefillAt, wWaiting, wDraining, wWakeAt,
                 queue, request, boxed, due, runVars>>

NominatimNext ==
  \/ \E r \in Requests :
       \/ FindCity(r) \/ ScheduleCity(r) \/ SaveCityBbox(r) \/ FailCity(r)
  \/ WakeApi
  \/ StartRun \/ EndRun
  \/ \E r \in Rows : SkipRow(r) \/ FindCached(r) \/ ScheduleAddress(r)
  \/ WakeWorker \/ \E p \in Points : AnswerAddress(p)
  \/ SaveGeocode \/ SetLocation \/ LeaveUnlocated
  \/ PassTime \/ Observe

NominatimSpec == NominatimInit /\ [][NominatimNext]_allVars

(***************************************************************************)
(* Properties                                                              *)
(***************************************************************************)

\* A caller waits no longer than the rate needs for those before it: later ones
\* never overtake it, and no wake-up comes too late ("a FIFO queue so nothing
\* starves", docs/architecture.md:140; rateLimiter.ts:15-17).
WaitBounded ==
  \A r \in Requests : request[r] = "queued" => now <= due[r]

\* Rows with one normalised address are at one point, in whichever runs they were
\* located and however often Nominatim's answer changes or a save fails: nothing
\* is located by a point that was not saved (geocode.ts:74-101).
SameKeySamePoint ==
  \A r, s \in Rows :
    KeyOf[r] = KeyOf[s] /\ NoPoint \notin {location[r], location[s]}
      => location[r] = location[s]

\* With the burst of 1 that is configured and a rate under one per second, each of the
\* two processes by itself keeps to one request in any second, however late its timers
\* fire (config.ts:81-90).  The two together do not.
EachOnePerSecond ==
  Capacity = Refill /\ counting /\ now - mark < Second => granted <= 1 /\ wGranted <= 1
=============================================================================
