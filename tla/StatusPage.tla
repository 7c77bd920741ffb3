------------------------------ MODULE StatusPage ------------------------------
(***************************************************************************)
(* The status screen (app/src/pages/StatusPage.tsx): one chain of polls of *)
(* one market at a time.  React keeps the screen mounted when the market   *)
(* in the URL changes, so the chain of the market before may still be      *)
(* waiting for an answer.  The length of the interval, its backoff and the *)
(* stall warning are left out.                                             *)
(***************************************************************************)
CONSTANTS Markets, NoMarket

VARIABLES
  market,    \* the market of the URL, NoMarket on another screen
  chain,     \* the poll chain of the current effect
  reply,     \* the status its request has read
  shown,     \* the status shown, and the market it was read of
  orphans    \* markets polled by chains of earlier effects, still under way

vars == <<market, chain, reply, shown, orphans>>

Statuses == {"none", "queued", "processing", "completed", "failed"}
Nothing == [market |-> NoMarket, status |-> "none"]

TypeOK ==
  /\ market \in Markets \union {NoMarket}
  /\ chain \in {"off", "asking", "waiting", "stopped"}
  /\ reply \in Statuses
  /\ shown \in {Nothing} \union [market : Markets, status : Statuses]
  /\ orphans \subseteq Markets

Init ==
  /\ market = NoMarket
  /\ chain = "off" /\ reply = "none" /\ shown = Nothing
  /\ orphans = {}

\* The cleanup of an effect: its timer is cleared, a request under way is not.
Abandoned == IF chain = "asking" THEN {market} ELSE {}

\* An effect without a cleanup: the answer to the one before is taken for its own.
OpenKeepingReply(m) ==
  /\ market' = m
  /\ chain' = "asking"
  /\ shown' = IF market = NoMarket THEN Nothing ELSE shown
  /\ UNCHANGED <<reply, orphans>>

\* The screen of m is opened, or m takes the place of another market in it,
\* whose status stays on it until the first answer.
Open(m) ==
  /\ market' = m
  /\ chain' = "asking" /\ reply' = "none"
  /\ shown' = IF market = NoMarket THEN Nothing ELSE shown
  /\ orphans' = orphans \union Abandoned

Close ==
  /\ market' = NoMarket
  /\ chain' = "off" /\ reply' = "none" /\ shown' = Nothing
  /\ orphans' = orphans \union Abandoned

\* The server reads the row.
Read(status) ==
  /\ chain = "asking" /\ reply = "none"
  /\ reply' = status[market]
  /\ UNCHANGED <<market, chain, shown, orphans>>

\* The answer is shown; `failed` is polled no more.
Show ==
  /\ chain = "asking" /\ reply \notin {"none", "completed"}
  /\ shown' = [market |-> market, status |-> reply]
  /\ reply' = "none"
  /\ chain' = IF reply = "failed" THEN "stopped" ELSE "waiting"
  /\ UNCHANGED <<market, orphans>>

\* `completed` leads to the dashboard, in place of this screen.
Complete ==
  /\ chain = "asking" /\ reply = "completed"
  /\ market' = NoMarket
  /\ chain' = "off" /\ reply' = "none" /\ shown' = Nothing
  /\ UNCHANGED orphans

\* A chain that ends when a poll fails.
FailAndStop ==
  /\ chain = "asking"
  /\ chain' = "stopped" /\ reply' = "none"
  /\ UNCHANGED <<market, shown, orphans>>

\* The poll fails or times out: what is shown stays, and the next one follows.
Fail ==
  /\ chain = "asking"
  /\ chain' = "waiting" /\ reply' = "none"
  /\ UNCHANGED <<market, shown, orphans>>

PollAgain ==
  /\ chain = "waiting"
  /\ chain' = "asking"
  /\ UNCHANGED <<market, reply, shown, orphans>>

\* A late answer that is shown without a look at `active`.
ShowOrphan(m, status) ==
  /\ m \in orphans
  /\ orphans' = orphans \ {m}
  /\ shown' = IF market = NoMarket THEN shown ELSE [market |-> m, status |-> status[m]]
  /\ UNCHANGED <<market, chain, reply>>

\* The answer to a chain no longer active.
DropOrphan(m, status) ==
  /\ m \in orphans
  /\ orphans' = orphans \ {m}
  /\ UNCHANGED <<market, chain, reply, shown>>

(***************************************************************************)
(* Property                                                                *)
(***************************************************************************)

\* What the screen comes to show is the status of the market in its URL, not of
\* one it was polling before (StatusPage.tsx:46, 57, 75-78).
ShowsItsMarket ==
  [][shown' \notin {shown, Nothing} => shown'.market = market]_vars
=============================================================================
