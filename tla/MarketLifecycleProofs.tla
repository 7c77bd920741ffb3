----------------------- MODULE MarketLifecycleProofs -----------------------
(***************************************************************************)
(* Theorems about MarketLifecycle, for every set of markets and workers,   *)
(* every number of attempts and forgiven stalls, and every bound on the    *)
(* faults.                                                                 *)
(***************************************************************************)
EXTENDS MarketLifecycle, TLAPS

Assumptions == /\ NoMarket \notin Markets /\ NoWorker \notin Workers
               /\ MaxAttempts \in Nat \ {0} /\ MaxStalledCount \in Nat
               /\ MaxFaults \in [FaultKinds -> Nat]

LEMMA AssumptionsHold == Assumptions
BY NoMarketAssumption, NoWorkerAssumption, AttemptsAssumption, FaultsAssumption
   DEF Assumptions

\* A step of the specification is a step of one named action or a stutter.
LEMMA StepCases ==
  ASSUME [Next]_vars,
         NEW P,
         UNCHANGED vars => P,
         \A m \in Markets : CreateMarket(m) => P,
         \A m \in Markets : EnqueueDiscovery(m) => P,
         \A m \in Markets : RequestDies(m) => P,
         \A m \in Markets : BackoffElapses(m) => P,
         \A m \in Markets : LoseLock(m) => P,
         \A m \in Markets : StalledJobWaits(m) => P,
         \A w \in Workers : StartProcessing(w) => P,
         \A w \in Workers : RunThrows(w) => P,
         \A w \in Workers, o \in Outcomes : FinishRun(w, o) => P,
         \A w \in Workers, o \in Outcomes : FinishRunReplyLost(w, o) => P,
         \A w \in Workers : ReportCompleted(w) => P,
         \A w \in Workers : ReportFailed(w) => P,
         \A w \in Workers : WorkerDies(w) => P,
         \A w \in Workers : BeginShutdown(w) => P,
         \A w \in Workers : FinishShutdown(w) => P,
         \A w \in Workers : StartWorker(w) => P,
         \A w \in Workers, m \in Markets : TakeJob(w, m) => P,
         \A w \in Workers, m \in Markets : WriteFailed(w, m) => P,
         \A w \in Workers, m \in Markets : WriteFailedErrs(w, m) => P,
         \A w \in Workers, m \in Markets : StalledJobFails(w, m) => P
  PROVE  P
BY Zenon DEF Next, RunStep, Report, Listen

(***************************************************************************)
(* Type correctness                                                        *)
(***************************************************************************)

\* A worker that is not idle has a job, and only such a worker has one.
RunHasMarket ==
  \A w \in Workers : phase[w] # "idle" <=> current[w] \in Markets

TypeInv == TypeOK /\ RunHasMarket

LEMMA TypeInit == Init => TypeInv
BY AssumptionsHold DEF Assumptions, Init, TypeInv, TypeOK, RunHasMarket,
   MarketStatus, MarketError, JobState, FaultKinds

LEMMA TypeStep == TypeInv /\ [Next]_vars => TypeInv'
<1> SUFFICES ASSUME TypeInv, [Next]_vars PROVE TypeInv'
  OBVIOUS
<1> USE AssumptionsHold DEF Assumptions, TypeInv, TypeOK, RunHasMarket,
      MarketStatus, MarketError, Terminal, JobState, FaultKinds, Fault,
      SetMarketStatus, Work, Release, rowVars, jobVars, workerVars
<1>1. UNCHANGED vars => TypeInv'
  BY DEF vars
<1>2. \A m \in Markets : CreateMarket(m) => TypeInv'
  BY DEF CreateMarket
<1>3. \A m \in Markets : EnqueueDiscovery(m) => TypeInv'
  BY DEF EnqueueDiscovery
<1>4. \A m \in Markets : RequestDies(m) => TypeInv'
  BY DEF RequestDies
<1>5. \A m \in Markets : BackoffElapses(m) => TypeInv'
  BY DEF BackoffElapses
<1>6. \A m \in Markets : LoseLock(m) => TypeInv'
  BY DEF LoseLock
<1>7. \A m \in Markets : StalledJobWaits(m) => TypeInv'
  BY DEF StalledJobWaits
<1>8. \A w \in Workers : StartProcessing(w) => TypeInv'
  BY DEF StartProcessing
<1>9. \A w \in Workers : RunThrows(w) => TypeInv'
  BY DEF RunThrows
<1>10. \A w \in Workers, o \in Outcomes : FinishRun(w, o) => TypeInv'
  BY DEF FinishRun, Outcomes
<1>11. \A w \in Workers, o \in Outcomes : FinishRunReplyLost(w, o) => TypeInv'
  BY DEF FinishRunReplyLost, Outcomes
<1>12. \A w \in Workers : ReportCompleted(w) => TypeInv'
  BY DEF ReportCompleted
<1>13. \A w \in Workers : ReportFailed(w) => TypeInv'
  <2> SUFFICES ASSUME NEW w \in Workers, ReportFailed(w) PROVE TypeInv'
    OBVIOUS
  <2>1. current[w] \in Markets
    BY DEF ReportFailed
  <2>2. CASE lock[current[w]] = w
    <3>1. failing' \in [Workers -> SUBSET Markets]
      BY <2>1, <2>2 DEF ReportFailed, OnFailed
    <3>2. attemptsMade' \in [Markets -> Nat] /\ job' \in [Markets -> JobState]
      BY <2>1, <2>2 DEF ReportFailed
    <3>3. lock' \in [Markets -> Workers \union {NoWorker}]
      BY <2>1, <2>2 DEF ReportFailed
    <3>4. /\ phase' = [phase EXCEPT ![w] = "idle"]
          /\ current' = [current EXCEPT ![w] = NoMarket]
          /\ UNCHANGED <<status, error, post, starts, stalls, process, faults>>
      BY DEF ReportFailed
    <3> HIDE DEF Work, Release
    <3>5. QED
      BY <3>1, <3>2, <3>3, <3>4
  <2>3. CASE lock[current[w]] # w
    BY <2>3 DEF ReportFailed
  <2>4. QED
    BY <2>2, <2>3
<1>14. \A w \in Workers : WorkerDies(w) => TypeInv'
  BY DEF WorkerDies, Down
<1>15. \A w \in Workers : BeginShutdown(w) => TypeInv'
  BY DEF BeginShutdown
<1>16. \A w \in Workers : FinishShutdown(w) => TypeInv'
  BY DEF FinishShutdown, Down
<1>17. \A w \in Workers : StartWorker(w) => TypeInv'
  BY DEF StartWorker
<1>18. \A w \in Workers, m \in Markets : TakeJob(w, m) => TypeInv'
  BY DEF TakeJob
<1>19. \A w \in Workers, m \in Markets : WriteFailed(w, m) => TypeInv'
  BY DEF WriteFailed
<1>20. \A w \in Workers, m \in Markets : WriteFailedErrs(w, m) => TypeInv'
  BY DEF WriteFailedErrs
<1>21. \A w \in Workers, m \in Markets : StalledJobFails(w, m) => TypeInv'
  BY DEF StalledJobFails, OnFailed
<1> HIDE DEF TypeInv
<1>22. QED
  BY StepCases, <1>1, <1>2, <1>3, <1>4, <1>5, <1>6, <1>7, <1>8, <1>9, <1>10,
     <1>11, <1>12, <1>13, <1>14, <1>15, <1>16, <1>17, <1>18, <1>19, <1>20, <1>21

LEMMA TypeInvHolds == Spec => []TypeInv
BY TypeInit, TypeStep, PTL DEF Spec

\* Every variable keeps its type, whatever faults happen.
THEOREM TypeCorrect == Spec => []TypeOK
<1>1. TypeInv => TypeOK
  BY DEF TypeInv
<1>2. QED
  BY <1>1, TypeInvHolds, PTL

(***************************************************************************)
(* The worker's verdict                                                    *)
(***************************************************************************)

\* Only an active job is locked.
LockMeansActive ==
  \A m \in Markets : lock[m] # NoWorker => job[m] = "active"

\* A listener that is about to write `failed` has a job that is over.
FailingIsOver ==
  \A w \in Workers, m \in Markets : m \in failing[w] => job[m] = "failed"

VerdictInv == LockMeansActive /\ FailingIsOver /\ WorkerVerdictIsFinal

\* What a failure report changes, and that a listener is left with work only
\* for a job that has just been given up.
LEMMA ReportFailedEffect ==
  ASSUME TypeInv, NEW w \in Workers, ReportFailed(w)
  PROVE  /\ current[w] \in Markets /\ phase[w] = "threw"
         /\ phase' = [phase EXCEPT ![w] = "idle"]
         /\ current' = [current EXCEPT ![w] = NoMarket]
         /\ UNCHANGED <<status, error, post, starts, stalls, process, faults>>
         /\ \A m \in Markets \ {current[w]} : job'[m] = job[m] /\ lock'[m] = lock[m]
         /\ lock[current[w]] # w => UNCHANGED <<job, lock, failing>>
         /\ lock[current[w]] = w => /\ job'[current[w]] \in {"delayed", "failed"}
                                    /\ lock'[current[w]] = NoWorker
         /\ \A v \in Workers, m \in Markets :
              m \in failing'[v] =>
                \/ m \in failing[v]
                \/ /\ m = current[w] /\ lock[m] = w /\ job'[m] = "failed"
<1> USE DEF TypeInv, TypeOK, RunHasMarket, ReportFailed, Work, Release, rowVars
<1>1. current[w] \in Markets /\ phase[w] = "threw"
  OBVIOUS
<1>2. CASE lock[current[w]] # w
  BY <1>1, <1>2
<1>3. CASE lock[current[w]] = w
  <2> DEFINE c == current[w]
             made == attemptsMade[c] + 1
  <2>1. /\ job' = [job EXCEPT ![c] = IF made < MaxAttempts THEN "delayed" ELSE "failed"]
        /\ lock' = [lock EXCEPT ![c] = NoWorker]
        /\ OnFailed(w, c, made)
    BY <1>3
  <2>2. made \in Nat /\ MaxAttempts \in Nat
    BY <1>1, AssumptionsHold DEF Assumptions
  <2>3. AttemptsExhausted(made) => job'[c] = "failed"
    BY <1>1, <2>1, <2>2 DEF AttemptsExhausted
  <2>4. \A v \in Workers, m \in Markets :
          m \in failing'[v] => m \in failing[v] \/ (m = c /\ job'[c] = "failed")
    BY <2>1, <2>3 DEF OnFailed
  <2>5. QED
    BY <1>1, <1>3, <2>1, <2>4
<1>4. QED
  BY <1>2, <1>3

LEMMA VerdictInit == Init => VerdictInv
BY DEF Init, VerdictInv, LockMeansActive, FailingIsOver, WorkerVerdictIsFinal

LEMMA VerdictStep == TypeInv /\ VerdictInv /\ [Next]_vars => VerdictInv'
<1> SUFFICES ASSUME TypeInv, VerdictInv, [Next]_vars PROVE VerdictInv'
  OBVIOUS
<1> USE AssumptionsHold DEF Assumptions, TypeInv, TypeOK, RunHasMarket,
      MarketStatus, MarketError, Terminal, JobState, FaultKinds, Fault,
      SetMarketStatus, Work, Release, rowVars, jobVars, workerVars,
      VerdictInv, LockMeansActive, FailingIsOver, WorkerVerdictIsFinal
<1>1. UNCHANGED vars => VerdictInv'
  BY DEF vars
<1>2. \A m \in Markets : CreateMarket(m) => VerdictInv'
  BY DEF CreateMarket
<1>3. \A m \in Markets : EnqueueDiscovery(m) => VerdictInv'
  BY DEF EnqueueDiscovery
<1>4. \A m \in Markets : RequestDies(m) => VerdictInv'
  BY DEF RequestDies
<1>5. \A m \in Markets : BackoffElapses(m) => VerdictInv'
  BY DEF BackoffElapses
<1>6. \A m \in Markets : LoseLock(m) => VerdictInv'
  BY DEF LoseLock
<1>7. \A m \in Markets : StalledJobWaits(m) => VerdictInv'
  BY DEF StalledJobWaits
<1>8. \A w \in Workers : StartProcessing(w) => VerdictInv'
  BY DEF StartProcessing
<1>9. \A w \in Workers : RunThrows(w) => VerdictInv'
  BY DEF RunThrows
<1>10. \A w \in Workers, o \in Outcomes : FinishRun(w, o) => VerdictInv'
  BY DEF FinishRun, Outcomes
<1>11. \A w \in Workers, o \in Outcomes : FinishRunReplyLost(w, o) => VerdictInv'
  BY DEF FinishRunReplyLost, Outcomes
<1>12. \A w \in Workers : ReportCompleted(w) => VerdictInv'
  BY DEF ReportCompleted
<1>13. \A w \in Workers : ReportFailed(w) => VerdictInv'
  BY ReportFailedEffect
<1>14. \A w \in Workers : WorkerDies(w) => VerdictInv'
  BY DEF WorkerDies, Down
<1>15. \A w \in Workers : BeginShutdown(w) => VerdictInv'
  BY DEF BeginShutdown
<1>16. \A w \in Workers : FinishShutdown(w) => VerdictInv'
  BY DEF FinishShutdown, Down
<1>17. \A w \in Workers : StartWorker(w) => VerdictInv'
  BY DEF StartWorker
<1>18. \A w \in Workers, m \in Markets : TakeJob(w, m) => VerdictInv'
  BY DEF TakeJob
<1>19. \A w \in Workers, m \in Markets : WriteFailed(w, m) => VerdictInv'
  BY DEF WriteFailed
<1>20. \A w \in Workers, m \in Markets : WriteFailedErrs(w, m) => VerdictInv'
  BY DEF WriteFailedErrs
<1>21. \A w \in Workers, m \in Markets : StalledJobFails(w, m) => VerdictInv'
  BY DEF StalledJobFails, OnFailed
<1> HIDE DEF VerdictInv
<1>22. QED
  BY StepCases, <1>1, <1>2, <1>3, <1>4, <1>5, <1>6, <1>7, <1>8, <1>9, <1>10,
     <1>11, <1>12, <1>13, <1>14, <1>15, <1>16, <1>17, <1>18, <1>19, <1>20, <1>21

LEMMA VerdictInvHolds == Spec => []VerdictInv
BY VerdictInit, VerdictStep, TypeInvHolds, PTL DEF Spec

\* The text only the 'failed' listener writes is final: BullMQ has given the
\* job up, so no retry contradicts it (worker.ts:19-40).
THEOREM VerdictTheorem == Spec => []WorkerVerdictIsFinal
<1>1. VerdictInv => WorkerVerdictIsFinal
  BY DEF VerdictInv
<1>2. QED
  BY <1>1, VerdictInvHolds, PTL

(***************************************************************************)
(* Settled markets                                                         *)
(***************************************************************************)

\* Before its POST, a market has neither a row nor a job.
PostedFirst ==
  \A m \in Markets : post[m] = "idle" => status[m] = "none" /\ job[m] = "none"

\* A market some worker runs has a job.
RunHasJob ==
  \A w \in Workers, m \in Markets : current[w] = m => job[m] # "none"

\* Until a job stalls, its run is the only one, and the job is active.
OneRunUntilStalled ==
  /\ \A w \in Workers, m \in Markets :
       current[w] = m /\ stalls[m] = 0 => job[m] = "active"
  /\ \A w1, w2 \in Workers, m \in Markets :
       current[w1] = m /\ current[w2] = m /\ stalls[m] = 0 => w1 = w2

\* While no job stalls and no write loses its reply, a settled market's job is
\* over, or its run has returned.
SettledRunReturned ==
  \A m \in Markets :
    status[m] \in Terminal /\ stalls[m] = 0 /\ faults["dbError"] = 0
      => \/ job[m] \in {"completed", "failed"}
         \/ /\ job[m] = "active"
            /\ \A w \in Workers : current[w] = m => phase[w] = "returned"

\* Then a listener never finds a completed market either.
FailingNotCompleted ==
  \A w \in Workers, m \in Markets :
    m \in failing[w] /\ stalls[m] = 0 /\ faults["dbError"] = 0
      => status[m] # "completed"

SettledInv == /\ PostedFirst /\ RunHasJob /\ OneRunUntilStalled
              /\ SettledRunReturned /\ FailingNotCompleted

LEMMA SettledInit == Init => SettledInv
BY AssumptionsHold DEF Assumptions, Init, SettledInv, PostedFirst, RunHasJob,
   OneRunUntilStalled, SettledRunReturned, FailingNotCompleted, Terminal

LEMMA SettledStep ==
  TypeInv /\ VerdictInv /\ SettledInv /\ [Next]_vars => SettledInv'
<1> SUFFICES ASSUME TypeInv, VerdictInv, SettledInv, [Next]_vars PROVE SettledInv'
  OBVIOUS
<1> USE AssumptionsHold DEF Assumptions, TypeInv, TypeOK, RunHasMarket,
      MarketStatus, MarketError, Terminal, JobState, FaultKinds, Fault,
      SetMarketStatus, Work, Release, rowVars, jobVars, workerVars,
      VerdictInv, LockMeansActive, FailingIsOver, SettledInv, PostedFirst,
      RunHasJob, OneRunUntilStalled, SettledRunReturned, FailingNotCompleted
<1>1. UNCHANGED vars => SettledInv'
  BY DEF vars
<1>2. \A m \in Markets : CreateMarket(m) => SettledInv'
  BY DEF CreateMarket
<1>3. \A m \in Markets : EnqueueDiscovery(m) => SettledInv'
  BY DEF EnqueueDiscovery
<1>4. \A m \in Markets : RequestDies(m) => SettledInv'
  BY DEF RequestDies
<1>5. \A m \in Markets : BackoffElapses(m) => SettledInv'
  BY DEF BackoffElapses
<1>6. \A m \in Markets : LoseLock(m) => SettledInv'
  BY DEF LoseLock
<1>7. \A m \in Markets : StalledJobWaits(m) => SettledInv'
  BY DEF StalledJobWaits
<1>8. \A w \in Workers : StartProcessing(w) => SettledInv'
  BY DEF StartProcessing
<1>9. \A w \in Workers : RunThrows(w) => SettledInv'
  BY DEF RunThrows
<1>10. \A w \in Workers, o \in Outcomes : FinishRun(w, o) => SettledInv'
  BY DEF FinishRun, Outcomes
<1>11. \A w \in Workers, o \in Outcomes : FinishRunReplyLost(w, o) => SettledInv'
  BY DEF FinishRunReplyLost, Outcomes
<1>12. \A w \in Workers : ReportCompleted(w) => SettledInv'
  BY DEF ReportCompleted
<1>13. \A w \in Workers : ReportFailed(w) => SettledInv'
  <2> SUFFICES ASSUME NEW w \in Workers, ReportFailed(w) PROVE SettledInv'
    OBVIOUS
  <2>1. PostedFirst' /\ RunHasJob'
    BY ReportFailedEffect
  <2>2. \A v \in Workers, m \in Markets :
          current'[v] = m => v # w /\ current[v] = m /\ phase'[v] = phase[v]
    BY ReportFailedEffect
  <2>3. \A m \in Markets : m # current[w] => job'[m] = job[m]
    BY ReportFailedEffect
  <2>4. OneRunUntilStalled'
    <3>1. ASSUME NEW v \in Workers, NEW m \in Markets, current'[v] = m, stalls'[m] = 0
          PROVE  job'[m] = "active"
      BY <2>2, <2>3, <3>1, ReportFailedEffect
    <3>2. QED
      BY <2>2, <3>1, ReportFailedEffect
  <2>5. SettledRunReturned'
    <3> SUFFICES ASSUME NEW m \in Markets, status'[m] \in Terminal, stalls'[m] = 0,
                        faults'["dbError"] = 0
                 PROVE  \/ job'[m] \in {"completed", "failed"}
                        \/ /\ job'[m] = "active"
                           /\ \A v \in Workers : current'[v] = m => phase'[v] = "returned"
      OBVIOUS
    <3>1. m # current[w]
      BY ReportFailedEffect
    <3>2. \/ job[m] \in {"completed", "failed"}
          \/ job[m] = "active" /\ \A v \in Workers : current[v] = m => phase[v] = "returned"
      BY ReportFailedEffect
    <3>3. job'[m] = job[m]
      BY <2>3, <3>1
    <3>4. \A v \in Workers : current'[v] = m => current[v] = m /\ phase'[v] = phase[v]
      BY <2>2
    <3> HIDE DEF TypeInv, VerdictInv, SettledInv
    <3>5. QED
      BY <3>2, <3>3, <3>4
  <2>6. FailingNotCompleted'
    BY ReportFailedEffect
  <2>7. QED
    BY <2>1, <2>4, <2>5, <2>6
<1>14. \A w \in Workers : WorkerDies(w) => SettledInv'
  BY DEF WorkerDies, Down
<1>15. \A w \in Workers : BeginShutdown(w) => SettledInv'
  BY DEF BeginShutdown
<1>16. \A w \in Workers : FinishShutdown(w) => SettledInv'
  BY DEF FinishShutdown, Down
<1>17. \A w \in Workers : StartWorker(w) => SettledInv'
  BY DEF StartWorker
<1>18. \A w \in Workers, m \in Markets : TakeJob(w, m) => SettledInv'
  BY DEF TakeJob
<1>19. \A w \in Workers, m \in Markets : WriteFailed(w, m) => SettledInv'
  BY DEF WriteFailed
<1>20. \A w \in Workers, m \in Markets : WriteFailedErrs(w, m) => SettledInv'
  BY DEF WriteFailedErrs
<1>21. \A w \in Workers, m \in Markets : StalledJobFails(w, m) => SettledInv'
  BY DEF StalledJobFails, OnFailed
<1> HIDE DEF SettledInv
<1>22. QED
  BY StepCases, <1>1, <1>2, <1>3, <1>4, <1>5, <1>6, <1>7, <1>8, <1>9, <1>10,
     <1>11, <1>12, <1>13, <1>14, <1>15, <1>16, <1>17, <1>18, <1>19, <1>20, <1>21

LEMMA SettledInvHolds == Spec => []SettledInv
BY SettledInit, SettledStep, TypeInvHolds, VerdictInvHolds, PTL DEF Spec

\* A terminal status, at which the status page stops polling, stays what it is
\* until the job stalls or the reply to a write is lost (discovery.ts:91-95,
\* worker.ts:22-46).
THEOREM SettledTheorem == Spec => SettledUnlessRedelivered
<1> DEFINE Stays == \A m \in Markets :
             status[m] \in Terminal /\ stalls[m] = 0 /\ faults["dbError"] = 0
               => status'[m] = status[m]
<1> SUFFICES TypeInv /\ VerdictInv /\ SettledInv /\ [Next]_vars => [Stays]_vars
  BY TypeInvHolds, VerdictInvHolds, SettledInvHolds, PTL
     DEF Spec, SettledUnlessRedelivered
<1> SUFFICES ASSUME TypeInv, VerdictInv, SettledInv, [Next]_vars PROVE Stays
  OBVIOUS
<1> USE AssumptionsHold DEF Assumptions, TypeInv, TypeOK, RunHasMarket,
      MarketStatus, MarketError, Terminal, JobState, FaultKinds, Fault,
      SetMarketStatus, Work, Release, rowVars, jobVars, workerVars,
      VerdictInv, FailingIsOver, SettledInv, PostedFirst, RunHasJob,
      OneRunUntilStalled, SettledRunReturned, FailingNotCompleted
<1>1. UNCHANGED vars => Stays
  BY DEF vars
<1>2. \A m \in Markets : CreateMarket(m) => Stays
  BY DEF CreateMarket
<1>3. \A m \in Markets : EnqueueDiscovery(m) => Stays
  BY DEF EnqueueDiscovery
<1>4. \A m \in Markets : RequestDies(m) => Stays
  BY DEF RequestDies
<1>5. \A m \in Markets : BackoffElapses(m) => Stays
  BY DEF BackoffElapses
<1>6. \A m \in Markets : LoseLock(m) => Stays
  BY DEF LoseLock
<1>7. \A m \in Markets : StalledJobWaits(m) => Stays
  BY DEF StalledJobWaits
<1>8. \A w \in Workers : StartProcessing(w) => Stays
  BY DEF StartProcessing
<1>9. \A w \in Workers : RunThrows(w) => Stays
  BY DEF RunThrows
<1>10. \A w \in Workers, o \in Outcomes : FinishRun(w, o) => Stays
  BY DEF FinishRun, Outcomes
<1>11. \A w \in Workers, o \in Outcomes : FinishRunReplyLost(w, o) => Stays
  BY DEF FinishRunReplyLost, Outcomes
<1>12. \A w \in Workers : ReportCompleted(w) => Stays
  BY DEF ReportCompleted
<1>13. \A w \in Workers : ReportFailed(w) => Stays
  BY ReportFailedEffect
<1>14. \A w \in Workers : WorkerDies(w) => Stays
  BY DEF WorkerDies, Down
<1>15. \A w \in Workers : BeginShutdown(w) => Stays
  BY DEF BeginShutdown
<1>16. \A w \in Workers : FinishShutdown(w) => Stays
  BY DEF FinishShutdown, Down
<1>17. \A w \in Workers : StartWorker(w) => Stays
  BY DEF StartWorker
<1>18. \A w \in Workers, m \in Markets : TakeJob(w, m) => Stays
  BY DEF TakeJob
<1>19. \A w \in Workers, m \in Markets : WriteFailed(w, m) => Stays
  BY DEF WriteFailed
<1>20. \A w \in Workers, m \in Markets : WriteFailedErrs(w, m) => Stays
  BY DEF WriteFailedErrs
<1>21. \A w \in Workers, m \in Markets : StalledJobFails(w, m) => Stays
  BY DEF StalledJobFails, OnFailed
<1>22. QED
  BY StepCases, <1>1, <1>2, <1>3, <1>4, <1>5, <1>6, <1>7, <1>8, <1>9, <1>10,
     <1>11, <1>12, <1>13, <1>14, <1>15, <1>16, <1>17, <1>18, <1>19, <1>20, <1>21

(***************************************************************************)
(* Completed jobs                                                          *)
(***************************************************************************)

\* With every lock renewed in time a run holds its job's lock.
RunHoldsLock ==
  faults["lockLost"] = 0 =>
    \A w \in Workers, m \in Markets : current[w] = m => lock[m] = w

\* A run that has returned has written a terminal status.
ReturnedIsSettled ==
  faults["lockLost"] = 0 =>
    \A w \in Workers, m \in Markets :
      current[w] = m /\ phase[w] = "returned" => status[m] \in Terminal

CompletedInv == RunHoldsLock /\ ReturnedIsSettled /\ CompletedJobSettled

LEMMA CompletedInit == Init => CompletedInv
BY AssumptionsHold DEF Assumptions, Init, CompletedInv, RunHoldsLock, ReturnedIsSettled,
   CompletedJobSettled

LEMMA CompletedStep ==
  ASSUME TypeInv, VerdictInv, SettledInv, CompletedInv, [Next]_vars
  PROVE  CompletedInv'
<1> USE AssumptionsHold DEF Assumptions, TypeInv, TypeOK, RunHasMarket,
      MarketStatus, MarketError, Terminal, JobState, FaultKinds, Fault,
      SetMarketStatus, Work, Release, rowVars, jobVars, workerVars,
      VerdictInv, LockMeansActive, FailingIsOver, SettledInv, PostedFirst,
      CompletedInv, RunHoldsLock, ReturnedIsSettled, CompletedJobSettled
<1>1. UNCHANGED vars => CompletedInv'
  BY DEF vars
<1>2. \A m \in Markets : CreateMarket(m) => CompletedInv'
  BY DEF CreateMarket
<1>3. \A m \in Markets : EnqueueDiscovery(m) => CompletedInv'
  BY DEF EnqueueDiscovery
<1>4. \A m \in Markets : RequestDies(m) => CompletedInv'
  BY DEF RequestDies
<1>5. \A m \in Markets : BackoffElapses(m) => CompletedInv'
  BY DEF BackoffElapses
<1>6. \A m \in Markets : LoseLock(m) => CompletedInv'
  BY DEF LoseLock
<1>7. \A m \in Markets : StalledJobWaits(m) => CompletedInv'
  BY DEF StalledJobWaits
<1>8. \A w \in Workers : StartProcessing(w) => CompletedInv'
  BY DEF StartProcessing
<1>9. \A w \in Workers : RunThrows(w) => CompletedInv'
  BY DEF RunThrows
<1>10. \A w \in Workers, o \in Outcomes : FinishRun(w, o) => CompletedInv'
  BY DEF FinishRun, Outcomes
<1>11. \A w \in Workers, o \in Outcomes : FinishRunReplyLost(w, o) => CompletedInv'
  BY DEF FinishRunReplyLost, Outcomes
<1>12. \A w \in Workers : ReportCompleted(w) => CompletedInv'
  BY DEF ReportCompleted
<1>13. \A w \in Workers : ReportFailed(w) => CompletedInv'
  <2> SUFFICES ASSUME NEW w \in Workers, ReportFailed(w) PROVE CompletedInv'
    OBVIOUS
  <2>1. RunHoldsLock'
    BY ReportFailedEffect
  <2>2. ReturnedIsSettled'
    BY ReportFailedEffect
  <2>3. CompletedJobSettled'
    BY ReportFailedEffect
  <2>4. QED
    BY <2>1, <2>2, <2>3
<1>14. \A w \in Workers : WorkerDies(w) => CompletedInv'
  BY DEF WorkerDies, Down
<1>15. \A w \in Workers : BeginShutdown(w) => CompletedInv'
  BY DEF BeginShutdown
<1>16. \A w \in Workers : FinishShutdown(w) => CompletedInv'
  BY DEF FinishShutdown, Down
<1>17. \A w \in Workers : StartWorker(w) => CompletedInv'
  BY DEF StartWorker
<1>18. \A w \in Workers, m \in Markets : TakeJob(w, m) => CompletedInv'
  BY DEF TakeJob
<1>19. \A w \in Workers, m \in Markets : WriteFailed(w, m) => CompletedInv'
  BY DEF WriteFailed
<1>20. \A w \in Workers, m \in Markets : WriteFailedErrs(w, m) => CompletedInv'
  BY DEF WriteFailedErrs
<1>21. \A w \in Workers, m \in Markets : StalledJobFails(w, m) => CompletedInv'
  BY DEF StalledJobFails, OnFailed
<1> HIDE DEF CompletedInv
<1>22. QED
  BY StepCases, <1>1, <1>2, <1>3, <1>4, <1>5, <1>6, <1>7, <1>8, <1>9, <1>10,
     <1>11, <1>12, <1>13, <1>14, <1>15, <1>16, <1>17, <1>18, <1>19, <1>20, <1>21

LEMMA CompletedInvHolds == Spec => []CompletedInv
<1>1. TypeInv /\ VerdictInv /\ SettledInv /\ CompletedInv /\ [Next]_vars
        => CompletedInv'
  BY CompletedStep
<1>2. QED
  BY <1>1, CompletedInit, TypeInvHolds, VerdictInvHolds, SettledInvHolds,
     PTL DEF Spec

\* BullMQ's `completed` means a settled market, whatever dies in between, when
\* no lock has been lost under a live run (discovery.ts:91-95, worker.ts:12-17).
THEOREM CompletedTheorem == Spec => []CompletedJobSettled
<1>1. CompletedInv => CompletedJobSettled
  BY DEF CompletedInv
<1>2. QED
  BY <1>1, CompletedInvHolds, PTL

(***************************************************************************)
(* Deliveries                                                              *)
(***************************************************************************)

\* A delivery under way, or that ended well, is one that neither an attempt nor a
\* stall accounts for yet.
Unaccounted(m) == IF job[m] \in {"active", "completed"} THEN 1 ELSE 0

\* Each delivery before the last is an attempt that failed or a stall, and a job
\* that has not failed has attempts and stalls to spare.
DeliveriesOf(m) ==
  /\ starts[m] <= attemptsMade[m] + stalls[m] + Unaccounted(m)
  /\ starts[m] <= MaxAttempts + MaxStalledCount
  /\ job[m] # "failed" => attemptsMade[m] < MaxAttempts /\ stalls[m] <= MaxStalledCount

DeliveriesInv == \A m \in Markets : DeliveriesOf(m)

LEMMA DeliveriesInit == Init => DeliveriesInv
<1> SUFFICES ASSUME Init, NEW m \in Markets PROVE DeliveriesOf(m)
  BY DEF DeliveriesInv
<1>1. attemptsMade[m] = 0 /\ starts[m] = 0 /\ stalls[m] = 0 /\ job[m] = "none"
  BY DEF Init
<1>2. MaxAttempts \in Nat \ {0} /\ MaxStalledCount \in Nat
  BY AttemptsAssumption
<1>3. QED
  BY <1>1, <1>2 DEF DeliveriesOf, Unaccounted

\* A failed attempt of a locked job uses up one of the attempts.
LEMMA ReportFailedCounts ==
  ASSUME TypeInv, NEW w \in Workers, ReportFailed(w), lock[current[w]] = w
  PROVE  /\ attemptsMade' = [attemptsMade EXCEPT ![current[w]] = @ + 1]
         /\ job' = [job EXCEPT ![current[w]] =
                      IF attemptsMade[current[w]] + 1 < MaxAttempts
                      THEN "delayed" ELSE "failed"]
         /\ lock' = [lock EXCEPT ![current[w]] = NoWorker]
         /\ UNCHANGED <<starts, stalls>>
BY DEF ReportFailed, TypeInv, TypeOK, RunHasMarket

LEMMA DeliveriesStep ==
  ASSUME TypeInv, VerdictInv, DeliveriesInv, [Next]_vars
  PROVE  DeliveriesInv'
<1> USE AssumptionsHold DEF Assumptions, TypeInv, TypeOK, RunHasMarket,
      JobState, Fault, SetMarketStatus, Work, Release, rowVars, jobVars, workerVars,
      VerdictInv, LockMeansActive, DeliveriesInv, DeliveriesOf, Unaccounted
<1>1. UNCHANGED vars => DeliveriesInv'
  BY DEF vars
<1>2. \A m \in Markets : CreateMarket(m) => DeliveriesInv'
  BY DEF CreateMarket
<1>3. \A m \in Markets : EnqueueDiscovery(m) => DeliveriesInv'
  BY DEF EnqueueDiscovery
<1>4. \A m \in Markets : RequestDies(m) => DeliveriesInv'
  BY DEF RequestDies
<1>5. \A m \in Markets : BackoffElapses(m) => DeliveriesInv'
  BY DEF BackoffElapses
<1>6. \A m \in Markets : LoseLock(m) => DeliveriesInv'
  BY DEF LoseLock
<1>7. \A m \in Markets : StalledJobWaits(m) => DeliveriesInv'
  BY DEF StalledJobWaits
<1>8. \A w \in Workers : StartProcessing(w) => DeliveriesInv'
  BY DEF StartProcessing
<1>9. \A w \in Workers : RunThrows(w) => DeliveriesInv'
  BY DEF RunThrows
<1>10. \A w \in Workers, o \in Outcomes : FinishRun(w, o) => DeliveriesInv'
  BY DEF FinishRun, Outcomes
<1>11. \A w \in Workers, o \in Outcomes : FinishRunReplyLost(w, o) => DeliveriesInv'
  BY DEF FinishRunReplyLost, Outcomes
<1>12. \A w \in Workers : ReportCompleted(w) => DeliveriesInv'
  BY DEF ReportCompleted
<1>13. \A w \in Workers : ReportFailed(w) => DeliveriesInv'
  <2> SUFFICES ASSUME NEW w \in Workers, ReportFailed(w), NEW m \in Markets
               PROVE  DeliveriesOf(m)'
    OBVIOUS
  <2>1. CASE m = current[w] /\ lock[m] = w
    <3>1. /\ attemptsMade'[m] = attemptsMade[m] + 1
          /\ starts'[m] = starts[m] /\ stalls'[m] = stalls[m]
          /\ job'[m] = IF attemptsMade[m] + 1 < MaxAttempts THEN "delayed" ELSE "failed"
      BY <2>1, ReportFailedCounts
    <3>2. job[m] = "active"
      BY <2>1
    <3>3. attemptsMade[m] \in Nat /\ starts[m] \in Nat /\ stalls[m] \in Nat
      OBVIOUS
    <3>4. QED
      BY <3>1, <3>2, <3>3
  <2>2. CASE m # current[w] /\ lock[current[w]] = w
    <3>1. /\ attemptsMade'[m] = attemptsMade[m] /\ job'[m] = job[m]
          /\ starts'[m] = starts[m] /\ stalls'[m] = stalls[m]
      BY <2>2, ReportFailedCounts
    <3>2. QED
      BY <3>1
  <2>3. CASE lock[current[w]] # w
    BY <2>3 DEF ReportFailed
  <2>4. QED
    BY <2>1, <2>2, <2>3
<1>14. \A w \in Workers : WorkerDies(w) => DeliveriesInv'
  BY DEF WorkerDies, Down
<1>15. \A w \in Workers : BeginShutdown(w) => DeliveriesInv'
  BY DEF BeginShutdown
<1>16. \A w \in Workers : FinishShutdown(w) => DeliveriesInv'
  BY DEF FinishShutdown, Down
<1>17. \A w \in Workers : StartWorker(w) => DeliveriesInv'
  BY DEF StartWorker
<1>18. \A w \in Workers, m \in Markets : TakeJob(w, m) => DeliveriesInv'
  BY DEF TakeJob
<1>19. \A w \in Workers, m \in Markets : WriteFailed(w, m) => DeliveriesInv'
  BY DEF WriteFailed
<1>20. \A w \in Workers, m \in Markets : WriteFailedErrs(w, m) => DeliveriesInv'
  BY DEF WriteFailedErrs
<1>21. \A w \in Workers, m \in Markets : StalledJobFails(w, m) => DeliveriesInv'
  <2> SUFFICES ASSUME NEW w \in Workers, NEW n \in Markets, StalledJobFails(w, n),
                      NEW m \in Markets
               PROVE  DeliveriesOf(m)'
    OBVIOUS
  <2>1. /\ job[n] = "active" /\ job' = [job EXCEPT ![n] = "failed"]
        /\ stalls' = [stalls EXCEPT ![n] = @ + 1] /\ starts' = starts
        /\ \E made \in {attemptsMade[n], attemptsMade[n] + 1} :
             attemptsMade' = [attemptsMade EXCEPT ![n] = made]
    BY DEF StalledJobFails
  <2>2. attemptsMade[n] \in Nat /\ starts[n] \in Nat /\ stalls[n] \in Nat
    OBVIOUS
  <2>3. CASE m = n
    BY <2>1, <2>2, <2>3
  <2>4. CASE m # n
    BY <2>1, <2>4
  <2>5. QED
    BY <2>3, <2>4
<1> HIDE DEF DeliveriesInv
<1>22. QED
  BY StepCases, <1>1, <1>2, <1>3, <1>4, <1>5, <1>6, <1>7, <1>8, <1>9, <1>10,
     <1>11, <1>12, <1>13, <1>14, <1>15, <1>16, <1>17, <1>18, <1>19, <1>20, <1>21

\* No job is delivered more often than its attempts and forgiven stalls allow,
\* whoever dies, shuts down or loses a lock (queue.ts:19-24).
THEOREM DeliveriesTheorem == Spec => []DeliveriesBounded
<1>1. DeliveriesInv => DeliveriesBounded
  BY DEF DeliveriesInv, DeliveriesOf, DeliveriesBounded
<1>2. TypeInv /\ VerdictInv /\ DeliveriesInv /\ [Next]_vars => DeliveriesInv'
  BY DeliveriesStep
<1>3. QED
  BY <1>1, <1>2, DeliveriesInit, TypeInvHolds, VerdictInvHolds, PTL DEF Spec

(***************************************************************************)
(* Nothing left behind                                                     *)
(***************************************************************************)

\* Nobody dies or is shut down, no reply to a write is lost, and no lock is lost
\* or, with a single worker, no more locks than the stalls BullMQ forgives.
Calm ==
  /\ faults["workerDies"] = 0 /\ faults["shutdown"] = 0 /\ faults["dbError"] = 0
  /\ \/ faults["lockLost"] = 0
     \/ faults["lockLost"] <= MaxStalledCount /\ \A v, w \in Workers : v = w

\* Then every worker is up,
AllUp == \A w \in Workers : process[w] = "up"

\* every stall, found or still to be found, is one lock lost,
ToBeFound(m) == IF job[m] = "active" /\ lock[m] = NoWorker THEN 1 ELSE 0
StallsCounted ==
  \A m \in Markets : stalls[m] + ToBeFound(m) <= faults["lockLost"]

\* the job of a run is never over under it,
RunKeepsJob ==
  \A w \in Workers, m \in Markets : current[w] = m => job[m] \in {"active", "wait"}

\* and a run that has returned has settled its market.
ReturnedSettled ==
  \A w \in Workers, m \in Markets :
    current[w] = m /\ phase[w] = "returned" => status[m] \in Terminal

CalmInv ==
  Calm => AllUp /\ StallsCounted /\ RunKeepsJob /\ ReturnedSettled /\ NotStuck

LEMMA CalmInit == Init => CalmInv
<1> SUFFICES ASSUME Init
             PROVE  AllUp /\ StallsCounted /\ RunKeepsJob /\ ReturnedSettled /\ NotStuck
  BY DEF CalmInv
<1>1. AllUp /\ RunKeepsJob /\ ReturnedSettled /\ NotStuck
  BY AssumptionsHold
     DEF Assumptions, Init, AllUp, RunKeepsJob, ReturnedSettled, NotStuck
<1>2. ASSUME NEW m \in Markets PROVE stalls[m] + ToBeFound(m) <= faults["lockLost"]
  <2>1. faults["lockLost"] = 0 /\ stalls[m] = 0 /\ job[m] = "none"
    BY DEF Init, FaultKinds
  <2>2. QED
    BY <2>1 DEF ToBeFound
<1>3. StallsCounted
  BY <1>2 DEF StallsCounted
<1>4. QED
  BY <1>1, <1>3

\* Faults are never taken back.
LEMMA CalmBefore ==
  ASSUME TypeInv, [Next]_vars, Calm'
  PROVE  Calm
<1> DEFINE Grows == \A k \in FaultKinds : faults[k] <= faults'[k]
<1> USE DEF TypeInv, TypeOK, Fault, rowVars, jobVars, workerVars
<1>0. faults \in [FaultKinds -> Nat] /\ (UNCHANGED faults => Grows)
  OBVIOUS
<1>a. \A k \in FaultKinds : Fault(k) => Grows
  BY <1>0
<1>b. {"apiDies", "workerDies", "shutdown", "lockLost", "dbError"} \subseteq FaultKinds
  BY DEF FaultKinds
<1> HIDE DEF Grows, Fault
<1>1. UNCHANGED vars => Grows
  BY <1>0 DEF vars
<1>2. \A m \in Markets : CreateMarket(m) => Grows
  BY <1>0 DEF CreateMarket
<1>3. \A m \in Markets : EnqueueDiscovery(m) => Grows
  BY <1>0 DEF EnqueueDiscovery
<1>4. \A m \in Markets : RequestDies(m) => Grows
  BY <1>a, <1>b DEF RequestDies
<1>5. \A m \in Markets : BackoffElapses(m) => Grows
  BY <1>0 DEF BackoffElapses
<1>6. \A m \in Markets : LoseLock(m) => Grows
  BY <1>a, <1>b DEF LoseLock
<1>7. \A m \in Markets : StalledJobWaits(m) => Grows
  BY <1>0 DEF StalledJobWaits
<1>8. \A w \in Workers : StartProcessing(w) => Grows
  BY <1>0 DEF StartProcessing
<1>9. \A w \in Workers : RunThrows(w) => Grows
  BY <1>0 DEF RunThrows
<1>10. \A w \in Workers, o \in Outcomes : FinishRun(w, o) => Grows
  BY <1>0 DEF FinishRun
<1>11. \A w \in Workers, o \in Outcomes : FinishRunReplyLost(w, o) => Grows
  BY <1>a, <1>b DEF FinishRunReplyLost
<1>12. \A w \in Workers : ReportCompleted(w) => Grows
  BY <1>0 DEF ReportCompleted
<1>13. \A w \in Workers : ReportFailed(w) => Grows
  BY <1>0 DEF ReportFailed
<1>14. \A w \in Workers : WorkerDies(w) => Grows
  BY <1>a, <1>b DEF WorkerDies
<1>15. \A w \in Workers : BeginShutdown(w) => Grows
  BY <1>a, <1>b DEF BeginShutdown
<1>16. \A w \in Workers : FinishShutdown(w) => Grows
  BY <1>0 DEF FinishShutdown
<1>17. \A w \in Workers : StartWorker(w) => Grows
  BY <1>0 DEF StartWorker
<1>18. \A w \in Workers, m \in Markets : TakeJob(w, m) => Grows
  BY <1>0 DEF TakeJob
<1>19. \A w \in Workers, m \in Markets : WriteFailed(w, m) => Grows
  BY <1>0 DEF WriteFailed
<1>20. \A w \in Workers, m \in Markets : WriteFailedErrs(w, m) => Grows
  BY <1>a, <1>b DEF WriteFailedErrs
<1>21. \A w \in Workers, m \in Markets : StalledJobFails(w, m) => Grows
  BY <1>0 DEF StalledJobFails
<1>22. Grows
  BY StepCases, <1>1, <1>2, <1>3, <1>4, <1>5, <1>6, <1>7, <1>8, <1>9, <1>10,
     <1>11, <1>12, <1>13, <1>14, <1>15, <1>16, <1>17, <1>18, <1>19, <1>20, <1>21
<1>23. faults' \in [FaultKinds -> Nat]
  BY TypeStep
<1>24. MaxStalledCount \in Nat
  BY AttemptsAssumption
<1>25. QED
  BY <1>0, <1>b, <1>22, <1>23, <1>24 DEF Calm, Grows

\* No two workers run the same job.
LEMMA OneRun ==
  ASSUME CompletedInv, Calm, NEW v \in Workers, NEW w \in Workers, NEW m \in Markets,
         current[v] = m, current[w] = m
  PROVE  v = w
BY DEF CompletedInv, RunHoldsLock, Calm

\* No job fails by a stall.
LEMMA StallForgiven ==
  ASSUME TypeInv, CalmInv, Calm, NEW w \in Workers, NEW m \in Markets,
         StalledJobFails(w, m)
  PROVE  FALSE
<1>1. stalls[m] + 1 <= faults["lockLost"]
  BY DEF StalledJobFails, CalmInv, StallsCounted, ToBeFound
<1>2. stalls[m] \in Nat /\ MaxStalledCount \in Nat /\ faults["lockLost"] \in Nat
  BY AttemptsAssumption DEF TypeInv, TypeOK, FaultKinds
<1>3. stalls[m] >= MaxStalledCount
  BY DEF StalledJobFails
<1>4. QED
  BY <1>1, <1>2, <1>3 DEF Calm

\* The last failure report of a job leaves its listener with the write.
LEMMA LastReport ==
  ASSUME TypeInv, NEW w \in Workers, ReportFailed(w),
         lock[current[w]] = w, job'[current[w]] = "failed"
  PROVE  current[w] \in failing'[w]
<1>1. /\ current[w] \in Markets
      /\ OnFailed(w, current[w], attemptsMade[current[w]] + 1)
  BY DEF ReportFailed, TypeInv, RunHasMarket
<1>2. attemptsMade[current[w]] \in Nat /\ MaxAttempts \in Nat
  BY <1>1, AttemptsAssumption DEF TypeInv, TypeOK
<1>3. attemptsMade[current[w]] + 1 >= MaxAttempts
  BY <1>1, <1>2, ReportFailedCounts DEF TypeInv, TypeOK
<1>4. QED
  BY <1>1, <1>3 DEF OnFailed, AttemptsExhausted, TypeInv, TypeOK

LEMMA AllUpStep ==
  ASSUME TypeInv, CalmInv, [Next]_vars, Calm, Calm'
  PROVE  AllUp'
<1> USE DEF CalmInv, AllUp, Calm, TypeInv, TypeOK, FaultKinds, Fault, rowVars, jobVars, workerVars
<1>1. UNCHANGED vars => AllUp'
  BY DEF vars
<1>2. \A m \in Markets : CreateMarket(m) => AllUp'
  BY DEF CreateMarket
<1>3. \A m \in Markets : EnqueueDiscovery(m) => AllUp'
  BY DEF EnqueueDiscovery
<1>4. \A m \in Markets : RequestDies(m) => AllUp'
  BY DEF RequestDies
<1>5. \A m \in Markets : BackoffElapses(m) => AllUp'
  BY DEF BackoffElapses
<1>6. \A m \in Markets : LoseLock(m) => AllUp'
  BY DEF LoseLock
<1>7. \A m \in Markets : StalledJobWaits(m) => AllUp'
  BY DEF StalledJobWaits
<1>8. \A w \in Workers : StartProcessing(w) => AllUp'
  BY DEF StartProcessing
<1>9. \A w \in Workers : RunThrows(w) => AllUp'
  BY DEF RunThrows
<1>10. \A w \in Workers, o \in Outcomes : FinishRun(w, o) => AllUp'
  BY DEF FinishRun, Outcomes
<1>11. \A w \in Workers, o \in Outcomes : FinishRunReplyLost(w, o) => AllUp'
  BY DEF FinishRunReplyLost, Outcomes
<1>12. \A w \in Workers : ReportCompleted(w) => AllUp'
  BY DEF ReportCompleted
<1>13. \A w \in Workers : ReportFailed(w) => AllUp'
  BY DEF ReportFailed
<1>14. \A w \in Workers : WorkerDies(w) => AllUp'
  BY DEF WorkerDies, Down
<1>15. \A w \in Workers : BeginShutdown(w) => AllUp'
  BY DEF BeginShutdown
<1>16. \A w \in Workers : FinishShutdown(w) => AllUp'
  BY DEF FinishShutdown, Down
<1>17. \A w \in Workers : StartWorker(w) => AllUp'
  BY DEF StartWorker
<1>18. \A w \in Workers, m \in Markets : TakeJob(w, m) => AllUp'
  BY DEF TakeJob
<1>19. \A w \in Workers, m \in Markets : WriteFailed(w, m) => AllUp'
  BY DEF WriteFailed
<1>20. \A w \in Workers, m \in Markets : WriteFailedErrs(w, m) => AllUp'
  BY DEF WriteFailedErrs
<1>21. \A w \in Workers, m \in Markets : StalledJobFails(w, m) => AllUp'
  BY DEF StalledJobFails, OnFailed
<1>22. QED
  BY StepCases, <1>1, <1>2, <1>3, <1>4, <1>5, <1>6, <1>7, <1>8, <1>9, <1>10,
     <1>11, <1>12, <1>13, <1>14, <1>15, <1>16, <1>17, <1>18, <1>19, <1>20, <1>21

LEMMA StallsStep ==
  ASSUME TypeInv, VerdictInv, CalmInv, [Next]_vars, Calm, Calm'
  PROVE  StallsCounted'
<1> USE AssumptionsHold DEF Assumptions, TypeInv, TypeOK, JobState, FaultKinds, Fault,
      Work, Release, rowVars, jobVars, workerVars, VerdictInv, LockMeansActive,
      CalmInv, AllUp, StallsCounted, ToBeFound
<1>1. UNCHANGED vars => StallsCounted'
  BY DEF vars
<1>2. \A m \in Markets : CreateMarket(m) => StallsCounted'
  BY DEF CreateMarket
<1>3. \A m \in Markets : EnqueueDiscovery(m) => StallsCounted'
  BY DEF EnqueueDiscovery
<1>4. \A m \in Markets : RequestDies(m) => StallsCounted'
  BY DEF RequestDies
<1>5. \A m \in Markets : BackoffElapses(m) => StallsCounted'
  BY DEF BackoffElapses
<1>6. \A m \in Markets : LoseLock(m) => StallsCounted'
  BY DEF LoseLock
<1>7. \A m \in Markets : StalledJobWaits(m) => StallsCounted'
  BY DEF StalledJobWaits
<1>8. \A w \in Workers : StartProcessing(w) => StallsCounted'
  BY DEF StartProcessing
<1>9. \A w \in Workers : RunThrows(w) => StallsCounted'
  BY DEF RunThrows
<1>10. \A w \in Workers, o \in Outcomes : FinishRun(w, o) => StallsCounted'
  BY DEF FinishRun, Outcomes
<1>11. \A w \in Workers, o \in Outcomes : FinishRunReplyLost(w, o) => StallsCounted'
  BY DEF FinishRunReplyLost, Outcomes
<1>12. \A w \in Workers : ReportCompleted(w) => StallsCounted'
  BY DEF ReportCompleted
<1>13. \A w \in Workers : ReportFailed(w) => StallsCounted'
  BY ReportFailedEffect DEF RunHasMarket
<1>14. \A w \in Workers : WorkerDies(w) => StallsCounted'
  BY DEF WorkerDies, Calm
<1>15. \A w \in Workers : BeginShutdown(w) => StallsCounted'
  BY DEF BeginShutdown
<1>16. \A w \in Workers : FinishShutdown(w) => StallsCounted'
  BY DEF FinishShutdown, Down
<1>17. \A w \in Workers : StartWorker(w) => StallsCounted'
  BY DEF StartWorker
<1>18. \A w \in Workers, m \in Markets : TakeJob(w, m) => StallsCounted'
  BY DEF TakeJob
<1>19. \A w \in Workers, m \in Markets : WriteFailed(w, m) => StallsCounted'
  BY DEF WriteFailed
<1>20. \A w \in Workers, m \in Markets : WriteFailedErrs(w, m) => StallsCounted'
  BY DEF WriteFailedErrs
<1>21. \A w \in Workers, m \in Markets : StalledJobFails(w, m) => StallsCounted'
  BY StallForgiven
<1>22. QED
  BY StepCases, <1>1, <1>2, <1>3, <1>4, <1>5, <1>6, <1>7, <1>8, <1>9, <1>10,
     <1>11, <1>12, <1>13, <1>14, <1>15, <1>16, <1>17, <1>18, <1>19, <1>20, <1>21

LEMMA RunKeepsJobStep ==
  ASSUME TypeInv, VerdictInv, SettledInv, CompletedInv, CalmInv, [Next]_vars, Calm, Calm'
  PROVE  RunKeepsJob'
<1> USE AssumptionsHold DEF Assumptions, TypeInv, TypeOK, RunHasMarket, JobState,
      FaultKinds, Fault, Work, Release, rowVars, jobVars, workerVars,
      CalmInv, AllUp, RunKeepsJob
<1>1. UNCHANGED vars => RunKeepsJob'
  BY DEF vars
<1>2. \A m \in Markets : CreateMarket(m) => RunKeepsJob'
  BY DEF CreateMarket
<1>3. \A m \in Markets : EnqueueDiscovery(m) => RunKeepsJob'
  BY DEF EnqueueDiscovery
<1>4. \A m \in Markets : RequestDies(m) => RunKeepsJob'
  BY DEF RequestDies
<1>5. \A m \in Markets : BackoffElapses(m) => RunKeepsJob'
  BY DEF BackoffElapses
<1>6. \A m \in Markets : LoseLock(m) => RunKeepsJob'
  BY DEF LoseLock
<1>7. \A m \in Markets : StalledJobWaits(m) => RunKeepsJob'
  BY DEF StalledJobWaits
<1>8. \A w \in Workers : StartProcessing(w) => RunKeepsJob'
  BY DEF StartProcessing
<1>9. \A w \in Workers : RunThrows(w) => RunKeepsJob'
  BY DEF RunThrows
<1>10. \A w \in Workers, o \in Outcomes : FinishRun(w, o) => RunKeepsJob'
  BY DEF FinishRun, Outcomes
<1>11. \A w \in Workers, o \in Outcomes : FinishRunReplyLost(w, o) => RunKeepsJob'
  BY DEF FinishRunReplyLost, Outcomes
<1>12. \A w \in Workers : ReportCompleted(w) => RunKeepsJob'
  BY OneRun DEF ReportCompleted
<1>13. \A w \in Workers : ReportFailed(w) => RunKeepsJob'
  <2> SUFFICES ASSUME NEW w \in Workers, ReportFailed(w), NEW v \in Workers,
                      NEW m \in Markets, current'[v] = m
               PROVE  job'[m] \in {"active", "wait"}
    OBVIOUS
  <2>1. current[v] = m /\ v # w
    BY ReportFailedEffect
  <2>2. m # current[w]
    BY <2>1, OneRun
  <2>3. QED
    BY <2>1, <2>2, ReportFailedEffect
<1>14. \A w \in Workers : WorkerDies(w) => RunKeepsJob'
  BY DEF WorkerDies, Calm
<1>15. \A w \in Workers : BeginShutdown(w) => RunKeepsJob'
  BY DEF BeginShutdown
<1>16. \A w \in Workers : FinishShutdown(w) => RunKeepsJob'
  BY DEF FinishShutdown, Down
<1>17. \A w \in Workers : StartWorker(w) => RunKeepsJob'
  BY DEF StartWorker
<1>18. \A w \in Workers, m \in Markets : TakeJob(w, m) => RunKeepsJob'
  BY DEF TakeJob
<1>19. \A w \in Workers, m \in Markets : WriteFailed(w, m) => RunKeepsJob'
  BY DEF WriteFailed
<1>20. \A w \in Workers, m \in Markets : WriteFailedErrs(w, m) => RunKeepsJob'
  BY DEF WriteFailedErrs
<1>21. \A w \in Workers, m \in Markets : StalledJobFails(w, m) => RunKeepsJob'
  BY StallForgiven
<1>22. QED
  BY StepCases, <1>1, <1>2, <1>3, <1>4, <1>5, <1>6, <1>7, <1>8, <1>9, <1>10,
     <1>11, <1>12, <1>13, <1>14, <1>15, <1>16, <1>17, <1>18, <1>19, <1>20, <1>21

LEMMA ReturnedStep ==
  ASSUME TypeInv, SettledInv, CompletedInv, CalmInv, [Next]_vars, Calm, Calm'
  PROVE  ReturnedSettled'
<1> USE AssumptionsHold DEF Assumptions, TypeInv, TypeOK, RunHasMarket, JobState, MarketStatus,
      Terminal, SetMarketStatus, FaultKinds, Fault, Work, Release, rowVars, jobVars,
      workerVars, CalmInv, AllUp, RunKeepsJob, ReturnedSettled
<1>1. UNCHANGED vars => ReturnedSettled'
  BY DEF vars
<1>2. \A m \in Markets : CreateMarket(m) => ReturnedSettled'
  BY DEF CreateMarket, SettledInv, PostedFirst
<1>3. \A m \in Markets : EnqueueDiscovery(m) => ReturnedSettled'
  BY DEF EnqueueDiscovery
<1>4. \A m \in Markets : RequestDies(m) => ReturnedSettled'
  BY DEF RequestDies
<1>5. \A m \in Markets : BackoffElapses(m) => ReturnedSettled'
  BY DEF BackoffElapses
<1>6. \A m \in Markets : LoseLock(m) => ReturnedSettled'
  BY DEF LoseLock
<1>7. \A m \in Markets : StalledJobWaits(m) => ReturnedSettled'
  BY DEF StalledJobWaits
<1>8. \A w \in Workers : StartProcessing(w) => ReturnedSettled'
  BY OneRun DEF StartProcessing
<1>9. \A w \in Workers : RunThrows(w) => ReturnedSettled'
  BY DEF RunThrows
<1>10. \A w \in Workers, o \in Outcomes : FinishRun(w, o) => ReturnedSettled'
  BY DEF FinishRun, Outcomes
<1>11. \A w \in Workers, o \in Outcomes : FinishRunReplyLost(w, o) => ReturnedSettled'
  BY DEF FinishRunReplyLost, Calm
<1>12. \A w \in Workers : ReportCompleted(w) => ReturnedSettled'
  BY DEF ReportCompleted
<1>13. \A w \in Workers : ReportFailed(w) => ReturnedSettled'
  BY ReportFailedEffect
<1>14. \A w \in Workers : WorkerDies(w) => ReturnedSettled'
  BY DEF WorkerDies, Calm
<1>15. \A w \in Workers : BeginShutdown(w) => ReturnedSettled'
  BY DEF BeginShutdown
<1>16. \A w \in Workers : FinishShutdown(w) => ReturnedSettled'
  BY DEF FinishShutdown, Down
<1>17. \A w \in Workers : StartWorker(w) => ReturnedSettled'
  BY DEF StartWorker
<1>18. \A w \in Workers, m \in Markets : TakeJob(w, m) => ReturnedSettled'
  BY DEF TakeJob
<1>19. \A w \in Workers, m \in Markets : WriteFailed(w, m) => ReturnedSettled'
  BY DEF WriteFailed
<1>20. \A w \in Workers, m \in Markets : WriteFailedErrs(w, m) => ReturnedSettled'
  BY DEF WriteFailedErrs
<1>21. \A w \in Workers, m \in Markets : StalledJobFails(w, m) => ReturnedSettled'
  BY StallForgiven
<1>22. QED
  BY StepCases, <1>1, <1>2, <1>3, <1>4, <1>5, <1>6, <1>7, <1>8, <1>9, <1>10,
     <1>11, <1>12, <1>13, <1>14, <1>15, <1>16, <1>17, <1>18, <1>19, <1>20, <1>21

LEMMA NotStuckStep ==
  ASSUME TypeInv, VerdictInv, SettledInv, CompletedInv, CalmInv, [Next]_vars, Calm, Calm'
  PROVE  NotStuck'
<1> USE AssumptionsHold DEF Assumptions, TypeInv, TypeOK, RunHasMarket, JobState, MarketStatus,
      Terminal, SetMarketStatus, FaultKinds, Fault, Work, Release, rowVars, jobVars,
      workerVars, CalmInv, AllUp, RunKeepsJob, NotStuck, InHand
<1>1. UNCHANGED vars => NotStuck'
  BY DEF vars
<1>2. \A m \in Markets : CreateMarket(m) => NotStuck'
  BY DEF CreateMarket, SettledInv, PostedFirst
<1>3. \A m \in Markets : EnqueueDiscovery(m) => NotStuck'
  BY DEF EnqueueDiscovery
<1>4. \A m \in Markets : RequestDies(m) => NotStuck'
  BY DEF RequestDies
<1>5. \A m \in Markets : BackoffElapses(m) => NotStuck'
  BY DEF BackoffElapses
<1>6. \A m \in Markets : LoseLock(m) => NotStuck'
  BY DEF LoseLock
<1>7. \A m \in Markets : StalledJobWaits(m) => NotStuck'
  BY DEF StalledJobWaits
<1>8. \A w \in Workers : StartProcessing(w) => NotStuck'
  BY DEF StartProcessing
<1>9. \A w \in Workers : RunThrows(w) => NotStuck'
  BY DEF RunThrows
<1>10. \A w \in Workers, o \in Outcomes : FinishRun(w, o) => NotStuck'
  BY DEF FinishRun, Outcomes
<1>11. \A w \in Workers, o \in Outcomes : FinishRunReplyLost(w, o) => NotStuck'
  BY DEF FinishRunReplyLost, Calm
<1>12. \A w \in Workers : ReportCompleted(w) => NotStuck'
  BY OneRun DEF ReportCompleted, ReturnedSettled
<1>13. \A w \in Workers : ReportFailed(w) => NotStuck'
  <2> SUFFICES ASSUME NEW w \in Workers, ReportFailed(w), NEW m \in Markets,
                      job'[m] \in {"completed", "failed"}, ~InHand(m)'
               PROVE  status[m] \in Terminal
    BY ReportFailedEffect
  <2>1. CASE m = current[w] /\ lock[m] = w
    BY <2>1, ReportFailedEffect, LastReport
  <2>2. CASE m = current[w] /\ lock[m] # w
    BY <2>2, ReportFailedEffect
  <2>3. CASE m # current[w]
    <3>1. job[m] \in {"completed", "failed"} /\ \A v \in Workers : current[v] # m
      BY <2>3, ReportFailedEffect
    <3>2. \A v \in Workers : m \notin failing[v]
      BY <2>3 DEF ReportFailed, OnFailed
    <3>3. QED
      BY <3>1, <3>2
  <2>4. QED
    BY <2>1, <2>2, <2>3
<1>14. \A w \in Workers : WorkerDies(w) => NotStuck'
  BY DEF WorkerDies, Calm
<1>15. \A w \in Workers : BeginShutdown(w) => NotStuck'
  BY DEF BeginShutdown
<1>16. \A w \in Workers : FinishShutdown(w) => NotStuck'
  BY DEF FinishShutdown
<1>17. \A w \in Workers : StartWorker(w) => NotStuck'
  BY DEF StartWorker
<1>18. \A w \in Workers, m \in Markets : TakeJob(w, m) => NotStuck'
  BY DEF TakeJob
<1>19. \A w \in Workers, m \in Markets : WriteFailed(w, m) => NotStuck'
  BY DEF WriteFailed
<1>20. \A w \in Workers, m \in Markets : WriteFailedErrs(w, m) => NotStuck'
  BY DEF WriteFailedErrs, Calm
<1>21. \A w \in Workers, m \in Markets : StalledJobFails(w, m) => NotStuck'
  BY StallForgiven
<1>22. QED
  BY StepCases, <1>1, <1>2, <1>3, <1>4, <1>5, <1>6, <1>7, <1>8, <1>9, <1>10,
     <1>11, <1>12, <1>13, <1>14, <1>15, <1>16, <1>17, <1>18, <1>19, <1>20, <1>21

LEMMA CalmStep ==
  ASSUME TypeInv, VerdictInv, SettledInv, CompletedInv, CalmInv, [Next]_vars
  PROVE  CalmInv'
<1> SUFFICES ASSUME Calm'
             PROVE  AllUp' /\ StallsCounted' /\ RunKeepsJob' /\ ReturnedSettled' /\ NotStuck'
  BY DEF CalmInv
<1>1. Calm
  BY CalmBefore
<1>2. QED
  BY <1>1, AllUpStep, StallsStep, RunKeepsJobStep, ReturnedStep, NotStuckStep

\* When nobody dies and the locks hold, or one worker loses no more of them than
\* BullMQ forgives, a market whose job is over has a terminal status, or its
\* listener is about to write one (worker.ts:19-40).
THEOREM NotStuckTheorem == Spec => [](Calm => NotStuck)
<1>1. CalmInv => (Calm => NotStuck)
  BY DEF CalmInv
<1>2. TypeInv /\ VerdictInv /\ SettledInv /\ CompletedInv /\ CalmInv /\ [Next]_vars
        => CalmInv'
  BY CalmStep
<1>3. QED
  BY <1>1, <1>2, CalmInit, TypeInvHolds, VerdictInvHolds, SettledInvHolds,
     CompletedInvHolds, PTL DEF Spec

(***************************************************************************)
(* The promise of MarketStatus                                             *)
(***************************************************************************)

\* A market whose POST got as far as a job has a row.
RowBeforeJob ==
  \A m \in Markets : post[m] # "idle" \/ job[m] # "none" => status[m] # "none"

\* Until its job stalls, a run past its first write finds its row processing.
ProcessingRow ==
  \A w \in Workers, m \in Markets :
    /\ current[w] = m /\ phase[w] = "processing"
    /\ stalls[m] = 0 /\ faults["dbError"] = 0
    => status[m] = "processing"

\* A listener finds a row that is not settled, or settled by a listener.
FailingRow ==
  \A w \in Workers, m \in Markets :
    m \in failing[w] /\ stalls[m] = 0 /\ faults["dbError"] = 0
      => \/ status[m] \in {"queued", "processing"}
         \/ status[m] = "failed" /\ error[m] = "unavailable"

PromiseInv == RowBeforeJob /\ ProcessingRow /\ FailingRow

LEMMA PromiseInit == Init => PromiseInv
BY AssumptionsHold DEF Assumptions, Init, PromiseInv, RowBeforeJob, ProcessingRow,
   FailingRow

LEMMA PromiseStep ==
  TypeInv /\ VerdictInv /\ SettledInv /\ PromiseInv /\ [Next]_vars => PromiseInv'
<1> SUFFICES ASSUME TypeInv, VerdictInv, SettledInv, PromiseInv, [Next]_vars
             PROVE  PromiseInv'
  OBVIOUS
<1> USE AssumptionsHold DEF Assumptions, TypeInv, TypeOK, RunHasMarket,
      MarketStatus, MarketError, Terminal, JobState, FaultKinds, Fault,
      SetMarketStatus, Work, Release, rowVars, jobVars, workerVars,
      VerdictInv, FailingIsOver, SettledInv, PostedFirst, RunHasJob,
      OneRunUntilStalled, SettledRunReturned,
      PromiseInv, RowBeforeJob, ProcessingRow, FailingRow
<1>1. UNCHANGED vars => PromiseInv'
  BY DEF vars
<1>2. \A m \in Markets : CreateMarket(m) => PromiseInv'
  BY DEF CreateMarket
<1>3. \A m \in Markets : EnqueueDiscovery(m) => PromiseInv'
  BY DEF EnqueueDiscovery
<1>4. \A m \in Markets : RequestDies(m) => PromiseInv'
  BY DEF RequestDies
<1>5. \A m \in Markets : BackoffElapses(m) => PromiseInv'
  BY DEF BackoffElapses
<1>6. \A m \in Markets : LoseLock(m) => PromiseInv'
  BY DEF LoseLock
<1>7. \A m \in Markets : StalledJobWaits(m) => PromiseInv'
  BY DEF StalledJobWaits
<1>8. \A w \in Workers : StartProcessing(w) => PromiseInv'
  BY DEF StartProcessing
<1>9. \A w \in Workers : RunThrows(w) => PromiseInv'
  BY DEF RunThrows
<1>10. \A w \in Workers, o \in Outcomes : FinishRun(w, o) => PromiseInv'
  BY DEF FinishRun, Outcomes
<1>11. \A w \in Workers, o \in Outcomes : FinishRunReplyLost(w, o) => PromiseInv'
  BY DEF FinishRunReplyLost, Outcomes
<1>12. \A w \in Workers : ReportCompleted(w) => PromiseInv'
  BY DEF ReportCompleted
<1>13. \A w \in Workers : ReportFailed(w) => PromiseInv'
  <2> SUFFICES ASSUME NEW w \in Workers, ReportFailed(w) PROVE PromiseInv'
    OBVIOUS
  <2>1. RowBeforeJob'
    BY ReportFailedEffect
  <2>2. ProcessingRow'
    BY ReportFailedEffect
  <2>3. ASSUME NEW v \in Workers, NEW m \in Markets, m \in failing'[v],
               stalls'[m] = 0, faults'["dbError"] = 0
        PROVE  \/ status[m] \in {"queued", "processing"}
               \/ status[m] = "failed" /\ error[m] = "unavailable"
    <3>1. CASE m \in failing[v]
      BY <2>3, <3>1, ReportFailedEffect
    <3>2. CASE m = current[w] /\ lock[m] = w
      <4>1. /\ current[w] = m /\ phase[w] = "threw"
            /\ stalls[m] = 0 /\ faults["dbError"] = 0
        BY <2>3, <3>2, ReportFailedEffect
      <4>2. job[m] = "active" /\ status[m] \notin Terminal
        BY <4>1
      <4>3. status[m] # "none"
        BY <4>2
      <4>4. QED
        BY <4>2, <4>3
    <3>3. QED
      BY <2>3, <3>1, <3>2, ReportFailedEffect
  <2>4. FailingRow'
    BY <2>3, ReportFailedEffect
  <2>5. QED
    BY <2>1, <2>2, <2>4
<1>14. \A w \in Workers : WorkerDies(w) => PromiseInv'
  BY DEF WorkerDies, Down
<1>15. \A w \in Workers : BeginShutdown(w) => PromiseInv'
  BY DEF BeginShutdown
<1>16. \A w \in Workers : FinishShutdown(w) => PromiseInv'
  BY DEF FinishShutdown, Down
<1>17. \A w \in Workers : StartWorker(w) => PromiseInv'
  BY DEF StartWorker
<1>18. \A w \in Workers, m \in Markets : TakeJob(w, m) => PromiseInv'
  BY DEF TakeJob
<1>19. \A w \in Workers, m \in Markets : WriteFailed(w, m) => PromiseInv'
  BY DEF WriteFailed
<1>20. \A w \in Workers, m \in Markets : WriteFailedErrs(w, m) => PromiseInv'
  BY DEF WriteFailedErrs
<1>21. \A w \in Workers, m \in Markets : StalledJobFails(w, m) => PromiseInv'
  BY DEF StalledJobFails, OnFailed
<1> HIDE DEF PromiseInv
<1>22. QED
  BY StepCases, <1>1, <1>2, <1>3, <1>4, <1>5, <1>6, <1>7, <1>8, <1>9, <1>10,
     <1>11, <1>12, <1>13, <1>14, <1>15, <1>16, <1>17, <1>18, <1>19, <1>20, <1>21

LEMMA PromiseInvHolds == Spec => []PromiseInv
BY PromiseInit, PromiseStep, TypeInvHolds, VerdictInvHolds, SettledInvHolds,
   PTL DEF Spec

\* Until the first stall or lost reply every step of the lifecycle is a step of
\* the promise or leaves the row alone (discovery.ts:48-95, worker.ts:22-46).
THEOREM PromiseTheorem == Spec => ImplementsMarketStatus
<1>1. Init => Promise!Init
  BY DEF Init, Promise!Init
<1>2. TypeInv /\ VerdictInv /\ SettledInv /\ PromiseInv /\ [Next]_vars
        => [Undisturbed => Promise!Next]_rowVars
  <2> DEFINE Kept == (Undisturbed => Promise!Next) \/ UNCHANGED rowVars
  <2> SUFFICES ASSUME TypeInv, VerdictInv, SettledInv, PromiseInv, [Next]_vars
               PROVE  Kept
    OBVIOUS
  <2> USE AssumptionsHold DEF Assumptions, TypeInv, TypeOK, RunHasMarket,
        MarketStatus, MarketError, Terminal, JobState, FaultKinds, Fault,
        SetMarketStatus, Work, rowVars, VerdictInv, FailingIsOver, SettledInv,
        PostedFirst, RunHasJob, OneRunUntilStalled, SettledRunReturned,
        PromiseInv, RowBeforeJob, ProcessingRow, FailingRow, Undisturbed
  <2>1. UNCHANGED vars => Kept
    BY DEF vars
  <2>2. \A m \in Markets : CreateMarket(m) => Kept
    BY DEF CreateMarket, Promise!Next, Promise!Create, Promise!Update
  <2>3. \A m \in Markets : EnqueueDiscovery(m) => Kept
    BY DEF EnqueueDiscovery
  <2>4. \A m \in Markets : RequestDies(m) => Kept
    BY DEF RequestDies
  <2>5. \A m \in Markets : BackoffElapses(m) => Kept
    BY DEF BackoffElapses
  <2>6. \A m \in Markets : LoseLock(m) => Kept
    BY DEF LoseLock
  <2>7. \A m \in Markets : StalledJobWaits(m) => Kept
    BY DEF StalledJobWaits
  <2>8. \A w \in Workers : StartProcessing(w) => Kept
    <3> SUFFICES ASSUME NEW w \in Workers, StartProcessing(w), Undisturbed
                 PROVE  Promise!Next
      OBVIOUS
    <3>1. current[w] \in Markets /\ status[current[w]] \in {"queued", "processing"}
      BY DEF StartProcessing
    <3>2. Promise!Process(current[w])
      BY <3>1 DEF StartProcessing, Promise!Process, Promise!Update
    <3>3. QED
      BY <3>1, <3>2 DEF Promise!Next
  <2>9. \A w \in Workers : RunThrows(w) => Kept
    BY DEF RunThrows
  <2>10. \A w \in Workers, o \in Outcomes : FinishRun(w, o) => Kept
    <3> SUFFICES ASSUME NEW w \in Workers, NEW o \in Outcomes, FinishRun(w, o),
                        Undisturbed
                 PROVE  Promise!Next
      OBVIOUS
    <3>1. current[w] \in Markets /\ status[current[w]] = "processing"
      BY DEF FinishRun
    <3>2. Promise!Complete(current[w]) \/ Promise!Fail(current[w])
      <4>1. /\ status' = [status EXCEPT ![current[w]] = o[1]]
            /\ error' = [error EXCEPT ![current[w]] = o[2]]
        BY DEF FinishRun
      <4>2. CASE o[1] = "completed" /\ o[2] \in {"null", "shortfall"}
        BY <3>1, <4>1, <4>2 DEF Promise!Complete, Promise!Update
      <4>3. CASE o[1] = "failed" /\ o[2] = "shortfall"
        BY <3>1, <4>1, <4>3 DEF Promise!Fail, Promise!Update
      <4>4. QED
        BY <4>2, <4>3 DEF Outcomes
    <3>3. QED
      BY <3>1, <3>2 DEF Promise!Next
  <2>11. \A w \in Workers, o \in Outcomes : FinishRunReplyLost(w, o) => Kept
    <3> SUFFICES ASSUME NEW w \in Workers, NEW o \in Outcomes, FinishRunReplyLost(w, o),
                        Undisturbed
                 PROVE  Promise!Next
      OBVIOUS
    <3>1. current[w] \in Markets /\ status[current[w]] = "processing"
      BY DEF FinishRunReplyLost
    <3>2. Promise!Complete(current[w]) \/ Promise!Fail(current[w])
      <4>1. /\ status' = [status EXCEPT ![current[w]] = o[1]]
            /\ error' = [error EXCEPT ![current[w]] = o[2]]
        BY DEF FinishRunReplyLost
      <4>2. CASE o[1] = "completed" /\ o[2] \in {"null", "shortfall"}
        BY <3>1, <4>1, <4>2 DEF Promise!Complete, Promise!Update
      <4>3. CASE o[1] = "failed" /\ o[2] = "shortfall"
        BY <3>1, <4>1, <4>3 DEF Promise!Fail, Promise!Update
      <4>4. QED
        BY <4>2, <4>3 DEF Outcomes
    <3>3. QED
      BY <3>1, <3>2 DEF Promise!Next
  <2>12. \A w \in Workers : ReportCompleted(w) => Kept
    BY DEF ReportCompleted
  <2>13. \A w \in Workers : ReportFailed(w) => Kept
    BY ReportFailedEffect
  <2>14. \A w \in Workers : WorkerDies(w) => Kept
    BY DEF WorkerDies, Down
  <2>15. \A w \in Workers : BeginShutdown(w) => Kept
    BY DEF BeginShutdown
  <2>16. \A w \in Workers : FinishShutdown(w) => Kept
    BY DEF FinishShutdown, Down
  <2>17. \A w \in Workers : StartWorker(w) => Kept
    BY DEF StartWorker
  <2>18. \A w \in Workers, m \in Markets : TakeJob(w, m) => Kept
    BY DEF TakeJob
  <2>19. \A w \in Workers, m \in Markets : WriteFailed(w, m) => Kept
    <3> SUFFICES ASSUME NEW w \in Workers, NEW m \in Markets, WriteFailed(w, m),
                        Undisturbed
                 PROVE  Kept
      OBVIOUS
    <3>1. CASE status[m] \in {"queued", "processing"}
      <4>1. Promise!Fail(m)
        BY <3>1 DEF WriteFailed, Promise!Fail, Promise!Update
      <4>2. QED
        BY <4>1 DEF Promise!Next
    <3>2. CASE status[m] = "failed" /\ error[m] = "unavailable"
      BY <3>2 DEF WriteFailed
    <3>3. QED
      BY <3>1, <3>2 DEF WriteFailed
  <2>20. \A w \in Workers, m \in Markets : WriteFailedErrs(w, m) => Kept
    BY DEF WriteFailedErrs
  <2>21. \A w \in Workers, m \in Markets : StalledJobFails(w, m) => Kept
    BY DEF StalledJobFails, OnFailed
  <2>22. QED
    BY StepCases, <2>1, <2>2, <2>3, <2>4, <2>5, <2>6, <2>7, <2>8, <2>9, <2>10,
       <2>11, <2>12, <2>13, <2>14, <2>15, <2>16, <2>17, <2>18, <2>19, <2>20, <2>21
<1>3. QED
  BY <1>1, <1>2, TypeInvHolds, VerdictInvHolds, SettledInvHolds, PromiseInvHolds,
     PTL DEF Spec, ImplementsMarketStatus
=============================================================================
