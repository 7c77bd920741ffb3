--------------------------- MODULE MarketLifecycle ---------------------------
(***************************************************************************)
(* The life of a market: POST /markets inserts the row and enqueues a job, *)
(* BullMQ delivers the job to a worker process, runDiscovery writes        *)
(* `processing` and then a terminal status, and the worker's 'failed'      *)
(* listener writes `failed` when the attempts are used up.                 *)
(*                                                                         *)
(* The stages of one run (tiles, geocoding, classification) are left to    *)
(* DiscoveryRun: here a run either writes one of the outcomes it can write *)
(* or throws.  BullMQ (job states, locks, stalled jobs, backoff) is not    *)
(* under src/ and is modelled from how queue.ts and worker.ts use it.      *)
(***************************************************************************)
EXTENDS Naturals

CONSTANTS
  Markets,         \* ids of the market rows, one per POST /markets
  Workers,         \* worker processes (npm run worker), concurrency 1 each
  NoMarket,        \* what a worker that holds no job is working on
  NoWorker,        \* the holder of a job lock nobody holds
  MaxAttempts,     \* config.discoveryJobAttempts
  MaxStalledCount, \* BullMQ's maxStalledCount: stalls forgiven per job
  MaxFaults        \* bound on the faults of each kind, per behaviour

FaultKinds == {"apiDies", "workerDies", "shutdown", "lockLost", "dbError"}

ASSUME NoMarketAssumption == NoMarket \notin Markets
ASSUME NoWorkerAssumption == NoWorker \notin Workers
ASSUME AttemptsAssumption == MaxAttempts \in Nat \ {0} /\ MaxStalledCount \in Nat
ASSUME FaultsAssumption == MaxFaults \in [FaultKinds -> Nat]

VARIABLES
  status,       \* market.status, "none" before the row exists
  error,        \* market.error: null, a run's shortfall, or the listener's text
  post,         \* how far the POST /markets handler of this market is
  job,          \* the state of BullMQ job market-<id>
  attemptsMade, \* job.attemptsMade
  starts,       \* how often the job was delivered to a processor
  stalls,       \* how often the job was found active with no lock
  lock,         \* the worker that holds the job's lock
  process,      \* the worker process: up, closing (SIGTERM) or down
  phase,        \* how far the worker is with its job
  current,      \* the market of that job
  failing,      \* markets whose 'failed' listener awaits setMarketStatus
  faults        \* faults so far, by kind

vars == <<status, error, post, job, attemptsMade, starts, stalls, lock,
          process, phase, current, failing, faults>>
rowVars == <<status, error>>
jobVars == <<job, attemptsMade, starts, stalls, lock>>
workerVars == <<process, phase, current, failing>>

Terminal == {"completed", "failed"}
MarketStatus == {"none", "queued", "processing"} \union Terminal
MarketError == {"null", "shortfall", "unavailable"}
JobState == {"none", "wait", "active", "delayed", "completed", "failed"}

\* What a run that does not throw writes (discovery.ts:75-95): completed with
\* or without a shortfall, or failed with one when it produced nothing.
Outcomes == {<<"completed", "null">>, <<"completed", "shortfall">>,
             <<"failed", "shortfall">>}

TypeOK ==
  /\ status \in [Markets -> MarketStatus]
  /\ error \in [Markets -> MarketError]
  /\ post \in [Markets -> {"idle", "inserted", "accepted", "died"}]
  /\ job \in [Markets -> JobState]
  /\ attemptsMade \in [Markets -> Nat]
  /\ starts \in [Markets -> Nat]
  /\ stalls \in [Markets -> Nat]
  /\ lock \in [Markets -> Workers \union {NoWorker}]
  /\ process \in [Workers -> {"up", "closing", "down"}]
  /\ phase \in [Workers -> {"idle", "claimed", "processing", "returned", "threw"}]
  /\ current \in [Workers -> Markets \union {NoMarket}]
  /\ failing \in [Workers -> SUBSET Markets]
  /\ faults \in [FaultKinds -> Nat]

Init ==
  /\ status = [m \in Markets |-> "none"]
  /\ error = [m \in Markets |-> "null"]
  /\ post = [m \in Markets |-> "idle"]
  /\ job = [m \in Markets |-> "none"]
  /\ attemptsMade = [m \in Markets |-> 0]
  /\ starts = [m \in Markets |-> 0]
  /\ stalls = [m \in Markets |-> 0]
  /\ lock = [m \in Markets |-> NoWorker]
  /\ process = [w \in Workers |-> "up"]
  /\ phase = [w \in Workers |-> "idle"]
  /\ current = [w \in Workers |-> NoMarket]
  /\ failing = [w \in Workers |-> {}]
  /\ faults = [k \in FaultKinds |-> 0]

(***************************************************************************)
(* Shared steps                                                            *)
(***************************************************************************)

\* A fault of kind k happens, within its bound.
Fault(k) ==
  /\ faults[k] < MaxFaults[k]
  /\ faults' = [faults EXCEPT ![k] = @ + 1]

\* One UPDATE that sets status and error together; error defaults to null.
SetMarketStatus(m, s, e) ==
  /\ status' = [status EXCEPT ![m] = s]
  /\ error' = [error EXCEPT ![m] = e]

\* Worker w is at phase p of the job of market m.
Work(w, p, m) ==
  /\ phase' = [phase EXCEPT ![w] = p]
  /\ current' = [current EXCEPT ![w] = m]

\* The worker lets go of its job and may take another.
Release(w) == Work(w, "idle", NoMarket)

\* Slips in the comparison below: one attempt early, one attempt late.
AttemptsExhaustedEarly(made) == made + 1 >= MaxAttempts
AttemptsExhaustedLate(made) == made > MaxAttempts

\* The listener looks at the job it was handed; with attempts left it returns.
AttemptsExhausted(made) == made >= MaxAttempts

\* The 'failed' event of job m reaches worker w with this attemptsMade.
OnFailed(w, m, made) ==
  failing' = [failing EXCEPT ![w] =
                IF AttemptsExhausted(made) THEN @ \union {m} ELSE @]

(***************************************************************************)
(* POST /markets                                                           *)
(***************************************************************************)

\* createMarket's transaction commits: the row is `queued`, no job exists yet.
CreateMarket(m) ==
  /\ post[m] = "idle"
  /\ post' = [post EXCEPT ![m] = "inserted"]
  /\ SetMarketStatus(m, "queued", "null")
  /\ UNCHANGED <<jobVars, workerVars, faults>>

\* enqueueDiscovery: add() with a job id BullMQ already has changes nothing.
EnqueueDiscovery(m) ==
  /\ post[m] = "inserted"
  /\ post' = [post EXCEPT ![m] = "accepted"]
  /\ job' = [job EXCEPT ![m] = IF @ = "none" THEN "wait" ELSE @]
  /\ UNCHANGED <<rowVars, attemptsMade, starts, stalls, lock, workerVars, faults>>

\* The API process dies, or gives up on Redis, between the two calls.
RequestDies(m) ==
  /\ post[m] = "inserted"
  /\ Fault("apiDies")
  /\ post' = [post EXCEPT ![m] = "died"]
  /\ UNCHANGED <<rowVars, jobVars, workerVars>>

(***************************************************************************)
(* BullMQ hands out jobs                                                   *)
(***************************************************************************)

\* An idle worker that is not closing takes a waiting job and its lock.
TakeJob(w, m) ==
  /\ process[w] = "up" /\ phase[w] = "idle" /\ job[m] = "wait"
  /\ job' = [job EXCEPT ![m] = "active"]
  /\ starts' = [starts EXCEPT ![m] = @ + 1]
  /\ lock' = [lock EXCEPT ![m] = w]
  /\ Work(w, "claimed", m)
  /\ UNCHANGED <<rowVars, post, attemptsMade, stalls, process, failing, faults>>

\* The exponential backoff of a failed attempt is over.
BackoffElapses(m) ==
  /\ job[m] = "delayed"
  /\ job' = [job EXCEPT ![m] = "wait"]
  /\ UNCHANGED <<rowVars, post, attemptsMade, starts, stalls, lock, workerVars, faults>>

(***************************************************************************)
(* runDiscovery                                                            *)
(***************************************************************************)

\* The first await of the run: status `processing`, error cleared.
StartProcessing(w) ==
  /\ phase[w] = "claimed"
  /\ SetMarketStatus(current[w], "processing", "null")
  /\ Work(w, "processing", current[w])
  /\ UNCHANGED <<post, jobVars, process, failing, faults>>

\* A run that catches and marks its market failed on the way out.
RunThrowsAfterWritingFailed(w) ==
  /\ phase[w] \in {"claimed", "processing"}
  /\ SetMarketStatus(current[w], "failed", "unavailable")
  /\ Work(w, "threw", current[w])
  /\ UNCHANGED <<post, jobVars, process, failing, faults>>

\* Any await of the run rejects: no terminal status is written.
RunThrows(w) ==
  /\ phase[w] \in {"claimed", "processing"}
  /\ Work(w, "threw", current[w])
  /\ UNCHANGED <<rowVars, post, jobVars, process, failing, faults>>

\* The terminal write left out.
FinishRunSilently(w, o) ==
  /\ phase[w] = "processing"
  /\ Work(w, "returned", current[w])
  /\ UNCHANGED <<rowVars, post, jobVars, process, failing, faults>>

\* The last write of a run: setMarketCompleted or setMarketStatus(failed).
FinishRun(w, o) ==
  /\ phase[w] = "processing"
  /\ SetMarketStatus(current[w], o[1], o[2])
  /\ Work(w, "returned", current[w])
  /\ UNCHANGED <<post, jobVars, process, failing, faults>>

\* The last write commits but its reply is lost, so the run throws after it.
FinishRunReplyLost(w, o) ==
  /\ phase[w] = "processing"
  /\ Fault("dbError")
  /\ SetMarketStatus(current[w], o[1], o[2])
  /\ Work(w, "threw", current[w])
  /\ UNCHANGED <<post, jobVars, process, failing>>

(***************************************************************************)
(* The worker reports to BullMQ, which emits 'completed' or 'failed'.      *)
(* A report without the job's lock is refused and no event is emitted.     *)
(***************************************************************************)

ReportCompleted(w) ==
  /\ phase[w] = "returned"
  /\ LET m == current[w] IN
       IF lock[m] = w
       THEN /\ job' = [job EXCEPT ![m] = "completed"]
            /\ lock' = [lock EXCEPT ![m] = NoWorker]
       ELSE UNCHANGED <<job, lock>>
  /\ Release(w)
  /\ UNCHANGED <<rowVars, post, attemptsMade, starts, stalls, process, failing, faults>>

\* BullMQ delays the job while attempts remain and fails it for good after.
ReportFailed(w) ==
  /\ phase[w] = "threw"
  /\ LET m == current[w]
         made == attemptsMade[m] + 1
     IN  IF lock[m] = w
         THEN /\ attemptsMade' = [attemptsMade EXCEPT ![m] = made]
              /\ job' = [job EXCEPT ![m] =
                           IF made < MaxAttempts THEN "delayed" ELSE "failed"]
              /\ lock' = [lock EXCEPT ![m] = NoWorker]
              /\ OnFailed(w, m, made)
         ELSE UNCHANGED <<attemptsMade, job, lock, failing>>
  /\ Release(w)
  /\ UNCHANGED <<rowVars, post, starts, stalls, process, faults>>

\* The listener's setMarketStatus lands.
WriteFailed(w, m) ==
  /\ m \in failing[w]
  /\ failing' = [failing EXCEPT ![w] = @ \ {m}]
  /\ SetMarketStatus(m, "failed", "unavailable")
  /\ UNCHANGED <<post, jobVars, process, phase, current, faults>>

\* The listener's setMarketStatus rejects: it is logged and nothing else.
WriteFailedErrs(w, m) ==
  /\ m \in failing[w]
  /\ Fault("dbError")
  /\ failing' = [failing EXCEPT ![w] = @ \ {m}]
  /\ UNCHANGED <<rowVars, post, jobVars, process, phase, current>>

(***************************************************************************)
(* Stalled jobs                                                            *)
(***************************************************************************)

\* The lock of a running job expires: its renewal is late or Redis is away.
LoseLock(m) ==
  /\ job[m] = "active" /\ lock[m] # NoWorker
  /\ Fault("lockLost")
  /\ lock' = [lock EXCEPT ![m] = NoWorker]
  /\ UNCHANGED <<rowVars, post, job, attemptsMade, starts, stalls, workerVars>>

\* Without the limit on stalls.
StalledJobWaitsAgain(m) ==
  /\ \E w \in Workers : process[w] = "up"
  /\ job[m] = "active" /\ lock[m] = NoWorker
  /\ stalls' = [stalls EXCEPT ![m] = @ + 1]
  /\ job' = [job EXCEPT ![m] = "wait"]
  /\ UNCHANGED <<rowVars, post, attemptsMade, starts, lock, workerVars, faults>>

\* A live worker finds an active job without a lock and puts it back.
StalledJobWaits(m) ==
  /\ \E w \in Workers : process[w] = "up"
  /\ job[m] = "active" /\ lock[m] = NoWorker /\ stalls[m] < MaxStalledCount
  /\ stalls' = [stalls EXCEPT ![m] = @ + 1]
  /\ job' = [job EXCEPT ![m] = "wait"]
  /\ UNCHANGED <<rowVars, post, attemptsMade, starts, lock, workerVars, faults>>

\* Once too often: the job fails without using up its attempts, and the event
\* carries an attemptsMade that may or may not count this failure.
StalledJobFails(w, m) ==
  /\ process[w] = "up"
  /\ job[m] = "active" /\ lock[m] = NoWorker /\ stalls[m] >= MaxStalledCount
  /\ stalls' = [stalls EXCEPT ![m] = @ + 1]
  /\ job' = [job EXCEPT ![m] = "failed"]
  /\ \E made \in {attemptsMade[m], attemptsMade[m] + 1} :
       /\ attemptsMade' = [attemptsMade EXCEPT ![m] = made]
       /\ OnFailed(w, m, made)
  /\ UNCHANGED <<rowVars, post, starts, lock, process, phase, current, faults>>

(***************************************************************************)
(* The worker process                                                      *)
(***************************************************************************)

\* Everything in the process's memory goes, and its locks run out.
Down(w) ==
  /\ process' = [process EXCEPT ![w] = "down"]
  /\ Release(w)
  /\ failing' = [failing EXCEPT ![w] = {}]
  /\ lock' = [m \in Markets |-> IF lock[m] = w THEN NoWorker ELSE lock[m]]
  /\ UNCHANGED <<rowVars, post, job, attemptsMade, starts, stalls>>

WorkerDies(w) ==
  /\ process[w] # "down"
  /\ Fault("workerDies")
  /\ Down(w)

\* SIGTERM or SIGINT: worker.close() takes no further job.
BeginShutdown(w) ==
  /\ process[w] = "up"
  /\ Fault("shutdown")
  /\ process' = [process EXCEPT ![w] = "closing"]
  /\ UNCHANGED <<rowVars, post, jobVars, phase, current, failing>>

\* close() waits for the processor, not for the listeners; then process.exit.
FinishShutdown(w) ==
  /\ process[w] = "closing" /\ phase[w] = "idle"
  /\ Down(w)
  /\ UNCHANGED faults

StartWorker(w) ==
  /\ process[w] = "down"
  /\ process' = [process EXCEPT ![w] = "up"]
  /\ UNCHANGED <<rowVars, post, jobVars, phase, current, failing, faults>>

(***************************************************************************)
(* Specification                                                           *)
(***************************************************************************)

RunStep(w) ==
  \/ StartProcessing(w) \/ RunThrows(w)
  \/ \E o \in Outcomes : FinishRun(w, o) \/ FinishRunReplyLost(w, o)

Report(w) == ReportCompleted(w) \/ ReportFailed(w)

Listen(w, m) == WriteFailed(w, m) \/ WriteFailedErrs(w, m)

Next ==
  \/ \E m \in Markets :
       \/ CreateMarket(m) \/ EnqueueDiscovery(m) \/ RequestDies(m)
       \/ BackoffElapses(m) \/ LoseLock(m) \/ StalledJobWaits(m)
  \/ \E w \in Workers :
       \/ RunStep(w) \/ Report(w)
       \/ WorkerDies(w) \/ BeginShutdown(w) \/ FinishShutdown(w) \/ StartWorker(w)
  \/ \E w \in Workers, m \in Markets :
       TakeJob(w, m) \/ Listen(w, m) \/ StalledJobFails(w, m)

Spec == Init /\ [][Next]_vars

\* The event loop, Redis and Postgres make progress, and a worker that is down
\* is started again; requests and faults are never forced.
Fairness ==
  /\ \A m \in Markets :
       WF_vars(EnqueueDiscovery(m)) /\ WF_vars(BackoffElapses(m))
       /\ WF_vars(StalledJobWaits(m))
  /\ \A w \in Workers :
       WF_vars(RunStep(w)) /\ WF_vars(Report(w))
       /\ WF_vars(FinishShutdown(w)) /\ WF_vars(StartWorker(w))
  /\ \A w \in Workers, m \in Markets :
       WF_vars(TakeJob(w, m)) /\ WF_vars(Listen(w, m))
       /\ WF_vars(StalledJobFails(w, m))

FairSpec == Spec /\ Fairness

(***************************************************************************)
(* Properties                                                              *)
(***************************************************************************)

\* Market m is in the hands of some worker: its run, or its 'failed' listener.
InHand(m) == \E w \in Workers : current[w] = m \/ m \in failing[w]

\* The text only the 'failed' listener writes is on the row only when BullMQ
\* has given the job up: no retry can follow it (worker.ts:26-40,
\* discovery.ts:48-50).  It holds under every fault modelled, a run that lost
\* its lock and still writes included.
WorkerVerdictIsFinal ==
  \A m \in Markets : error[m] = "unavailable" => job[m] = "failed"

\* BullMQ marks a job completed only when its market has a terminal status
\* (discovery.ts:91-95 before worker.ts:15 returns), whatever dies in between;
\* as long as no two runs of one job overlap, that is, no lock is lost.
CompletedJobSettled ==
  faults["lockLost"] = 0 =>
    \A m \in Markets : job[m] = "completed" => status[m] \in Terminal

\* A job is delivered no more often than its attempts and the forgiven stalls
\* together allow, whoever crashes, loses its lock or is shut down: each delivery
\* may ask Overpass and Nominatim for everything again (queue.ts:19-24,
\* worker.ts:12-17).
DeliveriesBounded ==
  \A m \in Markets : starts[m] <= MaxAttempts + MaxStalledCount

\* A market is never left behind: once its job is over and neither a run nor a
\* listener still has it in hand, its status is terminal.  worker.ts:29-31
\* awaits the write so that no market is "stuck in `processing` forever".
NotStuck ==
  \A m \in Markets :
    job[m] \in {"completed", "failed"} /\ ~InHand(m) => status[m] \in Terminal

\* The status page stops polling at a terminal status (StatusPage.tsx:52-58),
\* so that status may change afterwards only if the job stalled and was
\* delivered again, or the reply to a terminal write was lost.
SettledUnlessRedelivered ==
  [][\A m \in Markets :
       status[m] \in Terminal /\ stalls[m] = 0 /\ faults["dbError"] = 0
         => status'[m] = status[m]]_vars

\* Every market whose POST was answered with 202 reaches a terminal status.
AcceptedSettles ==
  \A m \in Markets : post[m] = "accepted" ~> status[m] \in Terminal

\* The rows as the status endpoint promises them.
Promise == INSTANCE MarketStatus

\* No job has stalled and no reply to a write has been lost so far.
Undisturbed == faults["dbError"] = 0 /\ \A m \in Markets : stalls[m] = 0

\* Until the first stall or lost reply every row keeps the promise of
\* MarketStatus, whoever crashes: it is never queued again, and it settles once
\* (worker.ts:19-40, discovery.ts:48-55, 91-95).
ImplementsMarketStatus ==
  Promise!Init /\ [][Undisturbed => Promise!Next]_rowVars
=============================================================================
