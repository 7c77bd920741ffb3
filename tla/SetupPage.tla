------------------------------ MODULE SetupPage ------------------------------
(***************************************************************************)
(* The setup screen (app/src/pages/SetupPage.tsx) with the request hook    *)
(* that asks for a city's box, the throttled area readout and the map.     *)
(* The categories are taken as chosen; countries and states only decide    *)
(* which cities are on offer.                                              *)
(*                                                                         *)
(* An action is an event, or the arrival of an answer, with the renders    *)
(* and effects that follow from it.  Of a rectangle the model keeps the    *)
(* city whose box it was drawn from and whether its area is over the cap.  *)
(***************************************************************************)
CONSTANTS Cities, NoCity

VARIABLES
  city,        \* the city chosen in the dropdown
  asked,       \* the city whose box is loading, by the call that counts
  superseded,  \* the cities of earlier calls still under way
  box,         \* the city of useRequest's data
  bounds,      \* the rectangle
  origin,      \* the rectangle where the move handle was picked up, its city
  measured,    \* the area of the throttled copy of the rectangle
  view,        \* the city the map is fitted to
  submitting

vars == <<city, asked, superseded, box, bounds, origin, measured, view, submitting>>

NoBounds == [of |-> NoCity, over |-> FALSE]

TypeOK ==
  /\ {city, asked, box, origin, view} \subseteq Cities \union {NoCity}
  /\ superseded \subseteq Cities
  /\ bounds \in {NoBounds} \union [of : Cities, over : BOOLEAN]
  /\ measured \in {"none", "fits", "over"}
  /\ submitting \in BOOLEAN

Init ==
  /\ city = NoCity /\ asked = NoCity /\ box = NoCity /\ view = NoCity
  /\ superseded = {}
  /\ bounds = NoBounds /\ origin = NoCity /\ measured = "none"
  /\ submitting = FALSE

\* The page is left and mounted anew when it is next shown: answers to its box
\* calls are nobody's.
Remount ==
  /\ city' = NoCity /\ asked' = NoCity /\ box' = NoCity /\ view' = NoCity
  /\ superseded' = {}
  /\ bounds' = NoBounds /\ origin' = NoCity /\ measured' = "none"
  /\ submitting' = FALSE

MapShown == bounds # NoBounds /\ city # NoCity

\* The box is gone, and with it the rectangle and the map.
ClearBox ==
  /\ box' = NoCity /\ view' = NoCity
  /\ bounds' = NoBounds /\ origin' = NoCity

\* The effect of useRequest: the call under way stops counting and, with a city
\* chosen, another begins; the data is kept until it is answered.  A map on
\* screen is fitted, as its token has changed, to the rectangle of the moment.
ChooseCity(c) ==
  /\ c # city /\ origin = NoCity
  /\ city' = c
  /\ asked' = c
  /\ superseded' = (superseded \union {asked}) \ {NoCity}
  /\ IF c = NoCity
     THEN ClearBox
     ELSE /\ view' = IF MapShown THEN bounds.of ELSE view
          /\ UNCHANGED <<box, bounds, origin>>
  /\ UNCHANGED <<measured, submitting>>

\* The rectangle becomes the city's box, shrunk to the cap.  A map that was not
\* on screen is fitted when it is mounted.
AnswerBox ==
  /\ asked # NoCity
  /\ box' = asked
  /\ bounds' = [of |-> asked, over |-> FALSE]
  /\ view' = IF MapShown THEN view ELSE asked
  /\ asked' = NoCity
  /\ UNCHANGED <<city, superseded, origin, measured, submitting>>

FailBox ==
  /\ asked # NoCity
  /\ asked' = NoCity
  /\ ClearBox
  /\ UNCHANGED <<city, superseded, measured, submitting>>

\* The hook without its `current` flag.
AnswerSupersededAnyway(c) ==
  /\ c \in superseded
  /\ superseded' = superseded \ {c}
  /\ box' = c
  /\ bounds' = [of |-> c, over |-> FALSE]
  /\ UNCHANGED <<city, asked, origin, measured, view, submitting>>

AnswerSuperseded(c) ==
  /\ c \in superseded
  /\ superseded' = superseded \ {c}
  /\ UNCHANGED <<city, asked, box, bounds, origin, measured, view, submitting>>

\* A corner handle or an edge field, normalised.
Resize ==
  /\ MapShown /\ origin = NoCity
  /\ \E over \in BOOLEAN : bounds' = [bounds EXCEPT !.over = over]
  /\ UNCHANGED <<city, asked, superseded, box, origin, measured, view, submitting>>

PickUp ==
  /\ MapShown /\ origin = NoCity
  /\ origin' = bounds.of
  /\ UNCHANGED <<city, asked, superseded, box, bounds, measured, view, submitting>>

\* The rectangle is the one picked up, shifted: nearer the equator it is larger.
Drag ==
  /\ MapShown /\ origin # NoCity
  /\ \E over \in BOOLEAN : bounds' = [of |-> origin, over |-> over]
  /\ UNCHANGED <<city, asked, superseded, box, origin, measured, view, submitting>>

Drop ==
  /\ origin # NoCity
  /\ origin' = NoCity
  /\ UNCHANGED <<city, asked, superseded, box, bounds, measured, view, submitting>>

Measure == IF bounds = NoBounds THEN "none" ELSE IF bounds.over THEN "over" ELSE "fits"

\* useThrottledValue catches up, at once or when its timer fires.
Publish ==
  /\ measured # Measure
  /\ measured' = Measure
  /\ UNCHANGED <<city, asked, superseded, box, bounds, origin, view, submitting>>

OverLimit == IF measured = "none" THEN bounds.over ELSE measured = "over"

\* Create is clicked, enabled: the rectangle goes to the server as it is now.
Submit ==
  /\ city # NoCity /\ bounds # NoBounds /\ ~OverLimit
  /\ ~submitting /\ origin = NoCity
  /\ submitting' = TRUE
  /\ UNCHANGED <<city, asked, superseded, box, bounds, origin, measured, view>>

\* The submission failed or timed out: its error is shown.
SubmitFailed ==
  /\ submitting
  /\ submitting' = FALSE
  /\ UNCHANGED <<city, asked, superseded, box, bounds, origin, measured, view>>

\* What the screen does without the market endpoints.
Next ==
  \/ \E c \in Cities \union {NoCity} : ChooseCity(c)
  \/ AnswerBox \/ FailBox \/ \E c \in Cities : AnswerSuperseded(c)
  \/ Resize \/ PickUp \/ Drag \/ Drop \/ Publish

(***************************************************************************)
(* Properties                                                              *)
(***************************************************************************)

\* Once the box has loaded it is the chosen city's, however the answers to
\* earlier choices were delayed (useRequest.ts:49-67).
BoxFitsCity == asked = NoCity /\ box # NoCity => box = city

\* As BoundaryEditor.tsx:57 has it, the map is re-centred when the city changes.
ViewFollowsCity == asked = NoCity /\ MapShown => view = city
=============================================================================
