-------------------------- MODULE MCMarketLifecycle --------------------------
(***************************************************************************)
(* Instances of MarketLifecycle: which faults may happen, and how often.   *)
(***************************************************************************)
EXTENDS MarketLifecycle, TLC

Faults(apiDies, workerDies, shutdown, lockLost, dbError) ==
  [apiDies |-> apiDies, workerDies |-> workerDies, shutdown |-> shutdown,
   lockLost |-> lockLost, dbError |-> dbError]

\* Every kind of fault once.
EveryFaultOnce == Faults(1, 1, 1, 1, 1)

\* No process dies; a lock may be lost once.
CalmFaults == Faults(1, 0, 0, 1, 0)

OneShutdown == Faults(0, 0, 1, 0, 0)

Symmetry == Permutations(Markets) \union Permutations(Workers)
=============================================================================
