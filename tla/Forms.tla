--------------------------------- MODULE Forms ---------------------------------
(***************************************************************************)
(* The two forms a user fills in, in their order: the portfolio's file     *)
(* (UploadPage), then the rectangle of a market (MarketBoundary).          *)
(***************************************************************************)
EXTENDS UploadPage, MarketBoundary

VARIABLE page  \* upload or setup

formVars == <<uploadVars, boundaryVars, page>>

FormsTypeOK == UploadTypeOK /\ BoundaryTypeOK /\ page \in {"upload", "setup"}

FormsInit == UploadInit /\ BoundaryInit /\ page = "upload"

FillUpload == page = "upload" /\ UploadNext /\ UNCHANGED <<boundaryVars, page>>

\* Bound: once the user goes on, neither the upload screen nor the portfolio is
\* followed any further.
Continue ==
  /\ page = "upload" /\ shown = "result"
  /\ page' = "setup"
  /\ file' = NoFile /\ uploading' = NoRequest /\ shown' = "none"
  /\ carries' = [r \in Requests |-> NoFile]
  /\ post' = [r \in Requests |-> "none"]
  /\ portfolio' = <<>>
  /\ UNCHANGED boundaryVars

FillSetup == page = "setup" /\ BoundaryNext /\ UNCHANGED <<uploadVars, page>>

FormsNext == FillUpload \/ Continue \/ FillSetup

FormsSpec == FormsInit /\ [][FormsNext]_formVars
=============================================================================
