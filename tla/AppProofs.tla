------------------------------ MODULE AppProofs ------------------------------
(***************************************************************************)
(* For any cities and markets: what the setup and the status screen show,  *)
(* however the user moves between them, and however late, lost or out of   *)
(* turn the answers are.                                                   *)
(***************************************************************************)
EXTENDS App, TLAPS

\* A step is a step of one named action or a stutter.
LEMMA StepCases ==
  ASSUME [Next]_vars, NEW P,
         UNCHANGED vars => P,
         Leave => P, UseSetup => P,
         \A m \in Markets : Create(m) => P,
         \A m \in Markets : Accept(m) => P,
         \A m \in Markets : Decline(m) => P,
         \A m \in Markets : Accepted(m) => P,
         \A m \in Markets : NotAccepted(m) => P,
         \A m \in Markets : Discover(m) => P,
         Read => P, Show => P, Fail => P, PollAgain => P, DropOrphan => P,
         Redirect => P
  PROVE  P
BY Zenon DEF Next

(***************************************************************************)
(* The setup screen                                                        *)
(***************************************************************************)

\* The call under way asks for the box of the city chosen.
AskedFitsCity == asked # NoCity => asked = city

SetupInv == Setup!TypeOK /\ AskedFitsCity /\ BoxFitsCity

LEMMA SetupInit == Setup!Init => SetupInv
BY DEF Setup!Init, SetupInv, Setup!TypeOK, AskedFitsCity, BoxFitsCity,
       Setup!BoxFitsCity, Setup!NoBounds

LEMMA RemountLemma == Setup!Remount => SetupInv'
BY DEF Setup!Remount, SetupInv, Setup!TypeOK, AskedFitsCity, BoxFitsCity,
       Setup!BoxFitsCity, Setup!NoBounds

\* Whatever the screen does by itself.
LEMMA SetupStep == SetupInv /\ Setup!Next => SetupInv'
<1> SUFFICES ASSUME SetupInv, Setup!Next PROVE SetupInv'
  OBVIOUS
<1> USE NoCityAssumption
    DEF SetupInv, Setup!TypeOK, AskedFitsCity, BoxFitsCity, Setup!BoxFitsCity
<1>1. ASSUME NEW c \in Cities \union {NoCity}, Setup!ChooseCity(c) PROVE SetupInv'
  <2>1. CASE c = NoCity
    BY <1>1, <2>1 DEF Setup!ChooseCity, Setup!ClearBox, Setup!NoBounds
  <2>2. CASE c # NoCity
    BY <1>1, <2>2 DEF Setup!ChooseCity, Setup!MapShown, Setup!NoBounds
  <2>3. QED
    BY <2>1, <2>2
<1>2. CASE Setup!AnswerBox
  BY <1>2 DEF Setup!AnswerBox, Setup!MapShown
<1>3. CASE Setup!FailBox
  BY <1>3 DEF Setup!FailBox, Setup!ClearBox, Setup!NoBounds
<1>4. ASSUME NEW c \in Cities, Setup!AnswerSuperseded(c) PROVE SetupInv'
  BY <1>4 DEF Setup!AnswerSuperseded
<1>5. CASE Setup!Resize
  <2>1. PICK b \in BOOLEAN : bounds' = [bounds EXCEPT !.over = b]
    BY <1>5 DEF Setup!Resize
  <2>2. bounds \in [of : Cities, over : BOOLEAN]
    BY <1>5 DEF Setup!Resize, Setup!MapShown
  <2>3. bounds' \in [of : Cities, over : BOOLEAN]
    BY <2>1, <2>2
  <2>4. QED
    BY <1>5, <2>3 DEF Setup!Resize
<1>6. CASE Setup!PickUp
  <2>1. bounds \in [of : Cities, over : BOOLEAN]
    BY <1>6 DEF Setup!PickUp, Setup!MapShown
  <2>2. origin' \in Cities
    BY <1>6, <2>1 DEF Setup!PickUp
  <2>3. QED
    BY <1>6, <2>2 DEF Setup!PickUp
<1>7. CASE Setup!Drag
  <2>1. bounds' \in [of : Cities, over : BOOLEAN]
    BY <1>7 DEF Setup!Drag
  <2>2. QED
    BY <1>7, <2>1 DEF Setup!Drag
<1>8. CASE Setup!Drop
  BY <1>8 DEF Setup!Drop
<1>9. CASE Setup!Publish
  BY <1>9 DEF Setup!Publish, Setup!Measure
<1>10. QED
  BY <1>1, <1>2, <1>3, <1>4, <1>5, <1>6, <1>7, <1>8, <1>9 DEF Setup!Next

\* The fields of the screen that a request leaves alone.
Picked == <<city, asked, superseded, box, bounds, origin, measured, view>>

LEMMA SetupKeeps == SetupInv /\ UNCHANGED Picked /\ submitting' \in BOOLEAN => SetupInv'
BY DEF SetupInv, Picked, Setup!TypeOK, AskedFitsCity, BoxFitsCity, Setup!BoxFitsCity

LEMMA SetupInvStep == SetupInv /\ [Next]_vars => SetupInv'
<1> SUFFICES ASSUME SetupInv, [Next]_vars PROVE SetupInv'
  OBVIOUS
<1> USE SetupKeeps DEF Picked, setupVars
<1>0. submitting \in BOOLEAN
  BY DEF SetupInv, Setup!TypeOK
<1>1. UNCHANGED vars => SetupInv'
  BY <1>0 DEF vars
<1>2. Leave => SetupInv'
  BY RemountLemma DEF Leave, VisitSetup, VisitHome, VisitStatus, Go
<1>3. UseSetup => SetupInv'
  BY SetupStep DEF UseSetup
<1>4. \A m \in Markets : Create(m) => SetupInv'
  BY DEF Create, Setup!Submit
<1>5. \A m \in Markets : Accept(m) => SetupInv'
  BY <1>0 DEF Accept, Serve
<1>6. \A m \in Markets : Decline(m) => SetupInv'
  BY <1>0 DEF Decline, Serve
<1>7. \A m \in Markets : Accepted(m) => SetupInv'
  BY RemountLemma DEF Accepted, Go
<1>8. \A m \in Markets : NotAccepted(m) => SetupInv'
  BY <1>0 DEF NotAccepted, Setup!SubmitFailed
<1>9. \A m \in Markets : Discover(m) => SetupInv'
  BY <1>0 DEF Discover
<1>10. Read => SetupInv'
  BY <1>0 DEF Read, Poll
<1>11. Show => SetupInv'
  BY <1>0 DEF Show, Poll
<1>12. Fail => SetupInv'
  BY <1>0 DEF Fail, Poll
<1>13. PollAgain => SetupInv'
  BY <1>0 DEF PollAgain, Poll
<1>14. DropOrphan => SetupInv'
  BY <1>0 DEF DropOrphan, Poll
<1>15. Redirect => SetupInv'
  BY RemountLemma DEF Redirect, Go
<1>16. QED
  BY StepCases, <1>1, <1>2, <1>3, <1>4, <1>5, <1>6, <1>7, <1>8, <1>9, <1>10,
     <1>11, <1>12, <1>13, <1>14, <1>15

LEMMA SetupInvHolds == Spec => []SetupInv
<1>1. Init => SetupInv
  BY SetupInit DEF Init
<1>2. QED
  BY <1>1, SetupInvStep, PTL DEF Spec

\* A box on the setup screen that is not loading is the chosen city's, however
\* late the answers to earlier choices are (useRequest.ts:49-67).
THEOREM BoxFitsTheorem == Spec => []BoxFitsCity
<1>1. SetupInv => BoxFitsCity
  BY DEF SetupInv
<1>2. QED
  BY <1>1, SetupInvHolds, PTL

(***************************************************************************)
(* The rows, and the requests that create them                             *)
(***************************************************************************)

RequestsOK ==
  /\ page \in {"setup", "status", "dashboard", "home"}
  /\ post \in [Markets -> {"none", "sent", "accepted", "declined"}]
  /\ over \in [Markets -> BOOLEAN]
  /\ awaited \subseteq Markets
  /\ current \in awaited \union {NoMarket}
  /\ status \in [Markets -> Status!Statuses]

\* The row of m comes to say s, in place of one of the statuses in from.
RowMoves(m, from, s) ==
  status[m] \in from /\ status' = [status EXCEPT ![m] = s]

\* A row only moves on: it is created, processed, and settles once.
LEMMA RowSteps ==
  ASSUME [Next]_vars
  PROVE  \/ UNCHANGED status
         \/ \E m \in Markets :
              \/ RowMoves(m, {"none"}, "queued")
              \/ RowMoves(m, {"queued", "processing"}, "processing")
              \/ RowMoves(m, {"processing"}, "completed")
              \/ RowMoves(m, {"queued", "processing"}, "failed")
<1> DEFINE P == \/ UNCHANGED status
                \/ \E m \in Markets :
                     \/ RowMoves(m, {"none"}, "queued")
                     \/ RowMoves(m, {"queued", "processing"}, "processing")
                     \/ RowMoves(m, {"processing"}, "completed")
                     \/ RowMoves(m, {"queued", "processing"}, "failed")
<1> USE DEF RowMoves
<1>1. UNCHANGED vars => P
  BY DEF vars
<1>2. Leave => P
  BY DEF Leave
<1>3. UseSetup => P
  BY DEF UseSetup
<1>4. \A m \in Markets : Create(m) => P
  BY DEF Create
<1>5. \A m \in Markets : Accept(m) => P
  BY DEF Accept, Rows!Create, Rows!Update
<1>6. \A m \in Markets : Decline(m) => P
  BY DEF Decline, Rows!Create, Rows!Update
<1>7. \A m \in Markets : Accepted(m) => P
  BY DEF Accepted
<1>8. \A m \in Markets : NotAccepted(m) => P
  BY DEF NotAccepted
<1>9. \A m \in Markets : Discover(m) => P
  BY DEF Discover, Rows!Process, Rows!Complete, Rows!Fail, Rows!Update
<1>10. Read => P
  BY DEF Read, Poll
<1>11. Show => P
  BY DEF Show, Poll
<1>12. Fail => P
  BY DEF Fail, Poll
<1>13. PollAgain => P
  BY DEF PollAgain, Poll
<1>14. DropOrphan => P
  BY DEF DropOrphan, Poll
<1>15. Redirect => P
  BY DEF Redirect
<1> HIDE DEF P
<1>16. P
  BY StepCases, <1>1, <1>2, <1>3, <1>4, <1>5, <1>6, <1>7, <1>8, <1>9, <1>10,
     <1>11, <1>12, <1>13, <1>14, <1>15
<1>17. QED
  BY <1>16 DEF P

LEMMA RequestsStep == SetupInv /\ RequestsOK /\ [Next]_vars => RequestsOK'
<1> SUFFICES ASSUME SetupInv, RequestsOK, [Next]_vars PROVE RequestsOK'
  OBVIOUS
<1> DEFINE Rest == /\ page' \in {"setup", "status", "dashboard", "home"}
                   /\ post' \in [Markets -> {"none", "sent", "accepted", "declined"}]
                   /\ over' \in [Markets -> BOOLEAN]
                   /\ awaited' \subseteq Markets
                   /\ current' \in awaited' \union {NoMarket}
<1> USE DEF RequestsOK
<1>0. status' \in [Markets -> Status!Statuses]
  BY RowSteps DEF RowMoves, Status!Statuses
<1>1. UNCHANGED vars => Rest
  BY DEF vars
<1>2. Leave => Rest
  BY DEF Leave, VisitSetup, VisitHome, VisitStatus, Go
<1>3. UseSetup => Rest
  BY DEF UseSetup
<1>4. \A m \in Markets : Create(m) => Rest
  <2> SUFFICES ASSUME NEW m \in Markets, Create(m) PROVE Rest
    OBVIOUS
  <2>1. bounds.over \in BOOLEAN
    BY DEF Create, Setup!Submit, SetupInv, Setup!TypeOK
  <2>2. QED
    BY <2>1 DEF Create
<1>5. \A m \in Markets : Accept(m) => Rest
  BY DEF Accept, Serve
<1>6. \A m \in Markets : Decline(m) => Rest
  BY DEF Decline, Serve
<1>7. \A m \in Markets : Accepted(m) => Rest
  BY DEF Accepted, Go
<1>8. \A m \in Markets : NotAccepted(m) => Rest
  BY DEF NotAccepted
<1>9. \A m \in Markets : Discover(m) => Rest
  BY DEF Discover
<1>10. Read => Rest
  BY DEF Read, Poll
<1>11. Show => Rest
  BY DEF Show, Poll
<1>12. Fail => Rest
  BY DEF Fail, Poll
<1>13. PollAgain => Rest
  BY DEF PollAgain, Poll
<1>14. DropOrphan => Rest
  BY DEF DropOrphan, Poll
<1>15. Redirect => Rest
  BY DEF Redirect, Go
<1> HIDE DEF Rest
<1>16. Rest
  BY StepCases, <1>1, <1>2, <1>3, <1>4, <1>5, <1>6, <1>7, <1>8, <1>9, <1>10,
     <1>11, <1>12, <1>13, <1>14, <1>15
<1>17. QED
  BY <1>0, <1>16 DEF Rest

(***************************************************************************)
(* The status screen                                                       *)
(***************************************************************************)

\* There is a chain of polls exactly while there is a market in the URL.
ChainHasMarket == chain = "off" <=> market = NoMarket

\* An answer on its way has been true of the market in the URL.
ReplyWasTrue ==
  reply # "none" => market \in Markets /\ reply \in SaidBy(status[market])

StatusInv == Status!TypeOK /\ ChainHasMarket /\ ReplyWasTrue /\ ShownWasTrue

LEMMA StatusInit == Init => StatusInv
BY NoMarketAssumption
   DEF Init, Status!Init, StatusInv, Status!TypeOK, ChainHasMarket, ReplyWasTrue,
       ShownWasTrue, Status!Nothing, Status!Statuses

\* What a row has said it has said for good.
LEMMA SaidForGood ==
  ASSUME RequestsOK, [Next]_vars, NEW n \in Markets
  PROVE  SaidBy(status[n]) \subseteq SaidBy(status'[n])
<1>1. status \in [Markets -> Status!Statuses]
  BY DEF RequestsOK
<1>2. CASE UNCHANGED status
  BY <1>2
<1>3. ASSUME NEW m \in Markets,
             \/ RowMoves(m, {"none"}, "queued")
             \/ RowMoves(m, {"queued", "processing"}, "processing")
             \/ RowMoves(m, {"processing"}, "completed")
             \/ RowMoves(m, {"queued", "processing"}, "failed")
      PROVE  SaidBy(status[n]) \subseteq SaidBy(status'[n])
  <2>1. CASE n # m
    BY <1>1, <1>3, <2>1 DEF RowMoves
  <2>2. CASE n = m
    <3>1. \/ status[n] = "none" /\ status'[n] = "queued"
          \/ status[n] = "queued" /\ status'[n] \in {"processing", "failed"}
          \/ status[n] = "processing" /\ status'[n] \in {"processing", "completed", "failed"}
      BY <1>1, <1>3, <2>2 DEF RowMoves
    <3>2. QED
      BY <3>1 DEF SaidBy
  <2>3. QED
    BY <2>1, <2>2
<1>4. QED
  BY <1>2, <1>3, RowSteps

\* A step that leaves the screen as it is, whatever the rows do.
LEMMA StatusKeeps ==
  ASSUME RequestsOK, StatusInv, [Next]_vars, UNCHANGED <<market, chain, reply, shown>>,
         orphans' \subseteq Markets
  PROVE  StatusInv'
<1>1. Status!TypeOK'
  BY DEF StatusInv, Status!TypeOK
<1>2. ChainHasMarket'
  BY DEF StatusInv, ChainHasMarket
<1>3. ReplyWasTrue'
  BY SaidForGood DEF StatusInv, ReplyWasTrue
<1>4. ShownWasTrue'
  <2>1. shown # Status!Nothing => shown.market \in Markets
    BY DEF StatusInv, Status!TypeOK
  <2>2. QED
    BY <2>1, SaidForGood DEF StatusInv, ShownWasTrue
<1>5. QED
  BY <1>1, <1>2, <1>3, <1>4 DEF StatusInv

\* The screen of another market, or none: no answer counts yet.
LEMMA OpenLemma ==
  ASSUME RequestsOK, StatusInv, [Next]_vars, NEW m \in Markets, Status!Open(m)
  PROVE  StatusInv'
<1> USE DEF Status!Open
<1>1. Status!Abandoned \subseteq Markets
  BY NoMarketAssumption DEF StatusInv, Status!TypeOK, ChainHasMarket, Status!Abandoned
<1>2. Status!TypeOK'
  BY <1>1 DEF StatusInv, Status!TypeOK, Status!Statuses
<1>3. ChainHasMarket' /\ ReplyWasTrue'
  BY NoMarketAssumption DEF ChainHasMarket, ReplyWasTrue
<1>4. ShownWasTrue'
  <2>1. shown # Status!Nothing => shown.market \in Markets
    BY DEF StatusInv, Status!TypeOK
  <2>2. QED
    BY <2>1, SaidForGood DEF StatusInv, ShownWasTrue
<1>5. QED
  BY <1>2, <1>3, <1>4 DEF StatusInv

LEMMA CloseLemma ==
  ASSUME StatusInv,
         market' = NoMarket, chain' = "off", reply' = "none", shown' = Status!Nothing,
         orphans' \subseteq orphans \union Status!Abandoned
  PROVE  StatusInv'
<1>1. Status!Abandoned \subseteq Markets
  BY DEF StatusInv, Status!TypeOK, ChainHasMarket, Status!Abandoned
<1>2. QED
  BY <1>1 DEF StatusInv, Status!TypeOK, Status!Statuses, ChainHasMarket, ReplyWasTrue,
              ShownWasTrue

LEMMA ReadLemma == ASSUME RequestsOK, StatusInv, Read PROVE StatusInv'
<1>1. /\ market \in Markets /\ reply' = status[market]
      /\ UNCHANGED <<market, chain, shown, orphans, status>>
  BY DEF Read, Poll, Status!Read, StatusInv, Status!TypeOK, ChainHasMarket
<1>2. reply' \in Status!Statuses
  BY <1>1 DEF RequestsOK
<1>3. reply' # "none" => reply' \in SaidBy(status[market])
  BY <1>1, <1>2 DEF SaidBy, Status!Statuses
<1>4. QED
  BY <1>1, <1>2, <1>3
     DEF StatusInv, Status!TypeOK, ChainHasMarket, ReplyWasTrue, ShownWasTrue

LEMMA ShowLemma == ASSUME StatusInv, Show PROVE StatusInv'
<1>1. /\ chain = "asking" /\ reply # "none" /\ reply' = "none"
      /\ shown' = [market |-> market, status |-> reply]
      /\ chain' \in {"stopped", "waiting"}
      /\ UNCHANGED <<market, orphans, status>>
  BY DEF Show, Poll, Status!Show
<1>2. market \in Markets /\ reply \in SaidBy(status[market])
  BY <1>1 DEF StatusInv, ReplyWasTrue
<1>3. shown'.market = market /\ shown'.status = reply
  BY <1>1
<1>4. Status!TypeOK'
  BY <1>1, <1>2 DEF StatusInv, Status!TypeOK, Status!Statuses
<1>5. ChainHasMarket' /\ ReplyWasTrue'
  BY <1>1 DEF StatusInv, ChainHasMarket, ReplyWasTrue
<1>6. ShownWasTrue'
  BY <1>1, <1>2, <1>3 DEF ShownWasTrue
<1>7. QED
  BY <1>4, <1>5, <1>6 DEF StatusInv

LEMMA StatusStep ==
  ASSUME RequestsOK, StatusInv, [Next]_vars
  PROVE  StatusInv'
<1>0. orphans \subseteq Markets
  BY DEF StatusInv, Status!TypeOK
<1> USE StatusKeeps, <1>0 DEF statusVars
<1>1. UNCHANGED vars => StatusInv'
  BY DEF vars
<1>2. Leave => StatusInv'
  BY OpenLemma, CloseLemma DEF Leave, VisitSetup, VisitHome, VisitStatus, Status!Close
<1>3. UseSetup => StatusInv'
  BY DEF UseSetup
<1>4. \A m \in Markets : Create(m) => StatusInv'
  BY DEF Create
<1>5. \A m \in Markets : Accept(m) => StatusInv'
  BY DEF Accept, Serve
<1>6. \A m \in Markets : Decline(m) => StatusInv'
  BY DEF Decline, Serve
<1>7. \A m \in Markets : Accepted(m) => StatusInv'
  BY OpenLemma DEF Accepted
<1>8. \A m \in Markets : NotAccepted(m) => StatusInv'
  BY DEF NotAccepted
<1>9. \A m \in Markets : Discover(m) => StatusInv'
  BY DEF Discover
<1>10. Read => StatusInv'
  BY ReadLemma
<1>11. Show => StatusInv'
  BY ShowLemma
<1>12. Fail => StatusInv'
  BY DEF Fail, Poll, Status!Fail, StatusInv, Status!TypeOK, Status!Statuses,
         ChainHasMarket, ReplyWasTrue, ShownWasTrue
<1>13. PollAgain => StatusInv'
  BY DEF PollAgain, Poll, Status!PollAgain, StatusInv, Status!TypeOK, ChainHasMarket,
         ReplyWasTrue, ShownWasTrue
<1>14. DropOrphan => StatusInv'
  BY DEF DropOrphan, Poll, Status!DropOrphan
<1>15. Redirect => StatusInv'
  BY CloseLemma DEF Redirect, Status!Complete
<1>16. QED
  BY StepCases, <1>1, <1>2, <1>3, <1>4, <1>5, <1>6, <1>7, <1>8, <1>9, <1>10,
     <1>11, <1>12, <1>13, <1>14, <1>15

AppInv == SetupInv /\ RequestsOK /\ StatusInv

LEMMA AppInvHolds == Spec => []AppInv
<1>1. Init => AppInv
  <2> SUFFICES ASSUME Init PROVE SetupInv /\ RequestsOK /\ StatusInv
    BY DEF AppInv
  <2>1. SetupInv /\ StatusInv
    BY SetupInit, StatusInit DEF Init
  <2>2. RequestsOK
    BY DEF Init, Rows!Init, RequestsOK, Status!Statuses
  <2>3. QED
    BY <2>1, <2>2
<1>2. AppInv /\ [Next]_vars => AppInv'
  BY SetupInvStep, RequestsStep, StatusStep DEF AppInv
<1>3. QED
  BY <1>1, <1>2, PTL DEF Spec

\* The screens and the requests keep their types.
THEOREM AppTypeCorrect == Spec => []TypeOK
<1>1. AppInv => TypeOK
  BY DEF AppInv, SetupInv, RequestsOK, StatusInv, TypeOK
<1>2. QED
  BY <1>1, AppInvHolds, PTL

\* The status on show has been its market's, and a failure or success shown is the
\* row's last word, although the answers carry no market id
\* (StatusPage.tsx:44-58, 76-79).
THEOREM ShownTheorem == Spec => []ShownWasTrue
<1>1. AppInv => ShownWasTrue
  BY DEF AppInv, StatusInv
<1>2. QED
  BY <1>1, AppInvHolds, PTL

\* What comes on show is an answer about the market in the URL, never a late one
\* about a market polled before (StatusPage.tsx:46, 57, 75-78).
THEOREM ShowsTheorem == Spec => ShowsItsMarket
<1> DEFINE OfItsMarket == shown' \notin {shown, Status!Nothing} => shown'.market = market
<1>1. ASSUME [Next]_vars PROVE OfItsMarket
  <2>1. UNCHANGED shown => OfItsMarket
    OBVIOUS
  <2>2. shown' = Status!Nothing => OfItsMarket
    OBVIOUS
  <2>3. \A m \in Markets : Status!Open(m) => OfItsMarket
    BY DEF Status!Open
  <2>4. Show => OfItsMarket
    BY DEF Show, Poll, Status!Show
  <2> HIDE DEF OfItsMarket
  <2>5. QED
    BY <1>1, <2>1, <2>2, <2>3, <2>4
       DEF Next, vars, statusVars, Leave, VisitSetup, VisitHome, VisitStatus, Status!Close,
           UseSetup, Create, Accept, Decline, Serve, Accepted, NotAccepted, Discover,
           Read, Fail, PollAgain, DropOrphan, Poll, Status!Read, Status!Fail,
           Status!PollAgain, Status!DropOrphan, Redirect, Status!Complete
<1>2. [Next]_vars => [OfItsMarket]_(Status!vars)
  BY <1>1
<1>3. QED
  BY <1>2, PTL DEF Spec, ShowsItsMarket, Status!ShowsItsMarket
==============================================================================
