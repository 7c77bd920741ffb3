----------------------------- MODULE MarketStatus -----------------------------
(***************************************************************************)
(* What the status endpoint promises of the market rows: each is created   *)
(* queued, is processing while discovery works on it, and settles once,    *)
(* either completed, perhaps with a shortfall, or failed with a reason.    *)
(* MarketLifecycle and DiscoveryRun implement it.                          *)
(***************************************************************************)
CONSTANT Markets

VARIABLES
  status,  \* market.status; "none" before the row exists
  error    \* market.error, up to its wording

Init ==
  /\ status = [m \in Markets |-> "none"]
  /\ error = [m \in Markets |-> "null"]

\* The row of m goes from one of these statuses to s with error e.
Update(m, from, s, e) ==
  /\ status[m] \in from
  /\ status' = [status EXCEPT ![m] = s]
  /\ error' = [error EXCEPT ![m] = e]

Create(m) == Update(m, {"none"}, "queued", "null")

\* An attempt begins, the first or a retry.
Process(m) == Update(m, {"queued", "processing"}, "processing", "null")

Complete(m) ==
  \E e \in {"null", "shortfall"} : Update(m, {"processing"}, "completed", e)

\* The run found nothing at all, or the attempts are used up; the latter even
\* if no attempt got as far as `processing`.
Fail(m) ==
  \/ Update(m, {"processing"}, "failed", "shortfall")
  \/ Update(m, {"queued", "processing"}, "failed", "unavailable")

Next == \E m \in Markets : Create(m) \/ Process(m) \/ Complete(m) \/ Fail(m)

Spec == Init /\ [][Next]_<<status, error>>
=============================================================================
