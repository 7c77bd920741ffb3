--------------------------------- MODULE App ---------------------------------
(***************************************************************************)
(* From the setup screen to the dashboard: the two screens, the router,    *)
(* and the server's POST /markets between them.  The browser may leave a   *)
(* screen at any moment and stops waiting for an answer after 20 seconds,  *)
(* while the request it sent goes on.  The rows move as MarketStatus says. *)
(***************************************************************************)
CONSTANTS Cities, NoCity, Markets, NoMarket

ASSUME NoCityAssumption == NoCity \notin Cities
ASSUME NoMarketAssumption == NoMarket \notin Markets

VARIABLES
  page,        \* the screen the router shows
  city, asked, superseded, box, bounds, origin, measured, view, submitting,
  market, chain, reply, shown, orphans,
  post,        \* how far the server is with the request that creates a market
  over,        \* whether the rectangle it carries is over the cap
  awaited,     \* requests the browser still awaits
  current,     \* the one submitted by the setup screen on show
  status       \* market.status

setupVars == <<city, asked, superseded, box, bounds, origin, measured, view, submitting>>
statusVars == <<market, chain, reply, shown, orphans>>
vars == <<page, setupVars, statusVars, post, over, awaited, current, status>>

\* market.error is shown with the status and decides nothing here: one for each.
error == [m \in Markets |-> IF status[m] = "failed" THEN "unavailable" ELSE "null"]

Setup == INSTANCE SetupPage
Status == INSTANCE StatusPage
Rows == INSTANCE MarketStatus

TypeOK ==
  /\ page \in {"setup", "status", "dashboard", "home"}
  /\ Setup!TypeOK
  /\ Status!TypeOK
  /\ post \in [Markets -> {"none", "sent", "accepted", "declined"}]
  /\ over \in [Markets -> BOOLEAN]
  /\ awaited \subseteq Markets
  /\ current \in awaited \union {NoMarket}
  /\ status \in [Markets -> Status!Statuses]

Init ==
  /\ page = "home"
  /\ Setup!Init
  /\ Status!Init
  /\ post = [m \in Markets |-> "none"]
  /\ over = [m \in Markets |-> FALSE]
  /\ awaited = {}
  /\ current = NoMarket
  /\ Rows!Init

\* The router shows another screen; a request in flight stays in flight.
Go(to) ==
  /\ page' = to
  /\ Setup!Remount
  /\ current' = NoMarket

\* Bound: with no market left to create, nobody uses the setup screen.
MoreMarkets == \E m \in Markets : post[m] = "none"

\* The links: to the setup screen, the list of markets, the status of one in it.
VisitSetup ==
  /\ page = "home"
  /\ MoreMarkets
  /\ Go("setup")
  /\ UNCHANGED statusVars
VisitHome == page # "home" /\ Go("home") /\ Status!Close
VisitStatus(m) ==
  /\ page = "home"
  /\ status[m] # "none"
  /\ Go("status")
  /\ Status!Open(m)

Leave ==
  /\ VisitSetup \/ VisitHome \/ \E m \in Markets : VisitStatus(m)
  /\ UNCHANGED <<post, over, awaited, status>>

UseSetup ==
  /\ page = "setup"
  /\ MoreMarkets
  /\ Setup!Next
  /\ UNCHANGED <<page, statusVars, post, over, awaited, current, status>>

\* The request for what will be market m is sent.
Create(m) ==
  /\ page = "setup"
  /\ Setup!Submit
  /\ post[m] = "none"
  /\ post' = [post EXCEPT ![m] = "sent"]
  /\ over' = [over EXCEPT ![m] = bounds.over]
  /\ awaited' = awaited \union {m}
  /\ current' = m
  /\ UNCHANGED <<page, statusVars, status>>

\* The handler is done with the request.
Serve(m, outcome) ==
  /\ post[m] = "sent"
  /\ post' = [post EXCEPT ![m] = outcome]
  /\ UNCHANGED <<page, setupVars, statusVars, over, awaited, current>>

\* The row is created, its job enqueued, and the reply is under way.
Accept(m) ==
  /\ ~over[m]
  /\ Serve(m, "accepted")
  /\ Rows!Create(m)

\* Over the cap, or a statement failed, perhaps the enqueueing when the row was
\* there already: it stays, with or without a job.
Decline(m) ==
  /\ Serve(m, "declined")
  /\ \/ UNCHANGED status
     \/ ~over[m] /\ Rows!Create(m)

\* The 202 arrives, on whatever screen the user is by now.
Accepted(m) ==
  /\ m \in awaited /\ post[m] = "accepted"
  /\ awaited' = awaited \ {m}
  /\ Go("status")
  /\ Status!Open(m)
  /\ UNCHANGED <<post, over, status>>

\* A 400 or 500 arrives, the network fails, or 20 seconds are over.
NotAccepted(m) ==
  /\ m \in awaited
  /\ awaited' = awaited \ {m}
  /\ IF m = current
     THEN current' = NoMarket /\ Setup!SubmitFailed
     ELSE UNCHANGED <<current, setupVars>>
  /\ UNCHANGED <<page, statusVars, post, over, status>>

Discover(m) ==
  /\ Rows!Process(m) \/ Rows!Complete(m) \/ Rows!Fail(m)
  /\ UNCHANGED <<page, setupVars, statusVars, post, over, awaited, current>>

Poll(A) ==
  /\ A
  /\ UNCHANGED <<page, setupVars, post, over, awaited, current, status>>

Read == Poll(Status!Read(status))
Show == Poll(Status!Show)
Fail == Poll(Status!Fail)
PollAgain == Poll(Status!PollAgain)
DropOrphan == Poll(\E m \in Markets : Status!DropOrphan(m, status))

Redirect ==
  /\ Status!Complete
  /\ Go("dashboard")
  /\ UNCHANGED <<post, over, awaited, status>>

Next ==
  \/ Leave \/ UseSetup
  \/ \E m \in Markets :
       \/ Create(m) \/ Accept(m) \/ Decline(m)
       \/ Accepted(m) \/ NotAccepted(m) \/ Discover(m)
  \/ Read \/ Show \/ Fail \/ PollAgain \/ DropOrphan \/ Redirect

Spec == Init /\ [][Next]_vars

\* The timer fires, the server reads, and the API answers now and again.
FairSpec == Spec /\ WF_vars(PollAgain) /\ SF_vars(Read) /\ SF_vars(Show \/ Redirect)

(***************************************************************************)
(* Properties                                                              *)
(***************************************************************************)

BoxFitsCity == Setup!BoxFitsCity
ViewFollowsCity == Setup!ViewFollowsCity
ShowsItsMarket == Status!ShowsItsMarket

\* What a row may have said by the time it says s, s included.
SaidBy(s) ==
  CASE s = "none" -> {}
    [] s = "queued" -> {"queued"}
    [] s = "processing" -> {"queued", "processing"}
    [] OTHER -> {"queued", "processing", s}

\* What is shown of a market is never ahead of its row, and a failure shown is the
\* row's last word, although the answer's row has no id in it: only the effect that
\* asked knows whose it is (StatusPage.tsx:44-58, 76-79).
ShownWasTrue ==
  shown # Status!Nothing => shown.status \in SaidBy(status[shown.market])

\* A settled market does not stay on a screen that says it is still at work: it
\* shows the failure or gives way to the dashboard (StatusPage.tsx:43-71).
SettledIsSeen ==
  \A m \in Markets :
    market = m /\ status[m] \in {"completed", "failed"}
      ~> market # m \/ (chain = "stopped" /\ shown.status = "failed")
=============================================================================
