------------------------------- MODULE UploadPage -------------------------------
(***************************************************************************)
(* The upload screen (app/src/pages/UploadPage.tsx) and the server's       *)
(* POST /portfolio/upload behind it.  The page waits 20 seconds for an     *)
(* answer; the request it gave up on goes on.  An upload replaces the      *)
(* portfolio in one step here; PortfolioUpload has its statements.         *)
(***************************************************************************)
EXTENDS PortfolioCsv

CONSTANTS
  Offered,   \* the files on the user's disk
  NoFile,
  Requests,  \* bound: how many times the form is sent
  NoRequest

ASSUME OfferedAssumption == Offered \subseteq Files /\ NoFile \notin Files
ASSUME RequestAssumption == NoRequest \notin Requests

VARIABLES
  file,       \* the file chosen
  uploading,  \* the request the page awaits, or NoRequest
  shown,      \* none, result or error
  carries,    \* what the server will make of the file of each request
  post,       \* how far each is: none, sent, imported or refused
  portfolio   \* portfolio_store

\* The verdict on a file and, for a good one, the rows stored of it.
Handled(f) ==
  [verdict |-> Verdict(f), rows |-> IF Verdict(f) = "ok" THEN StoredRows(f) ELSE <<>>]

uploadVars == <<file, uploading, shown, carries, post, portfolio>>

Rows == [named : BOOLEAN, addressed : BOOLEAN, located : BOOLEAN]

UploadTypeOK ==
  /\ file \in Offered \union {NoFile}
  /\ uploading \in Requests \union {NoRequest}
  /\ shown \in {"none", "result", "error"}
  /\ carries \in [Requests -> [verdict : Verdicts, rows : Seq(Rows)] \union {NoFile}]
  /\ post \in [Requests -> {"none", "sent", "imported", "refused"}]
  /\ portfolio \in Seq(Rows)

UploadInit ==
  /\ file = NoFile /\ uploading = NoRequest /\ shown = "none"
  /\ carries = [r \in Requests |-> NoFile]
  /\ post = [r \in Requests |-> "none"]
  /\ portfolio = <<>>

\* Another file, or none, is chosen, perhaps while one is uploading.
ChooseFile(f) ==
  /\ file' = f /\ shown' = "none"
  /\ UNCHANGED <<uploading, carries, post, portfolio>>

\* The button, which waits for a file and for the answer to the last request.
Upload(r) ==
  /\ file # NoFile /\ uploading = NoRequest /\ post[r] = "none"
  /\ uploading' = r /\ shown' = "none"
  /\ carries' = [carries EXCEPT ![r] = Handled(file)]
  /\ post' = [post EXCEPT ![r] = "sent"]
  /\ UNCHANGED <<file, portfolio>>

\* The handler is done with the request.
Reply(r, outcome) ==
  /\ post[r] = "sent"
  /\ post' = [post EXCEPT ![r] = outcome]
  /\ carries' = [carries EXCEPT ![r] = NoFile]
  /\ UNCHANGED <<file, uploading, shown>>

\* The reply is sent before the rows are in.
ImportAfterReply(r) == Reply(r, "imported") /\ UNCHANGED portfolio

\* A file that passes replaces the portfolio.
Import(r) ==
  /\ Reply(r, "imported")
  /\ carries[r].verdict = "ok"
  /\ portfolio' = carries[r].rows

Refuse(r) ==
  /\ Reply(r, "refused")
  /\ carries[r].verdict # "ok"
  /\ UNCHANGED portfolio

\* A statement fails: the replacement, which leaves the portfolio, or the
\* reclassification after it.
Fail(r) ==
  /\ Reply(r, "refused")
  /\ carries[r].verdict = "ok"
  /\ portfolio' \in {portfolio, carries[r].rows}

\* The answer arrives, and is shown whatever file is chosen by now.
Answer ==
  /\ uploading # NoRequest /\ post[uploading] \in {"imported", "refused"}
  /\ shown' = IF post[uploading] = "imported" THEN "result" ELSE "error"
  /\ uploading' = NoRequest
  /\ UNCHANGED <<file, carries, post, portfolio>>

\* The network fails, or 20 seconds are over.
GiveUp ==
  /\ uploading # NoRequest
  /\ shown' = "error" /\ uploading' = NoRequest
  /\ UNCHANGED <<file, carries, post, portfolio>>

UploadNext ==
  \/ \E f \in Offered \union {NoFile} : ChooseFile(f)
  \/ \E r \in Requests : Upload(r) \/ Import(r) \/ Refuse(r) \/ Fail(r)
  \/ Answer \/ GiveUp

(***************************************************************************)
(* Properties                                                              *)
(***************************************************************************)

\* Whatever file is chosen, it is imported exactly when all of it is usable, so
\* that "any invalid row rejects the whole file" (UploadPage.tsx:86-87).
AcceptsExactlyUsable == file # NoFile => AcceptedIffUsable(file)

\* The way on to the market setup opens only once stores have been imported, and
\* they are still there, whatever requests were given up and overtook each other
\* (UploadPage.tsx:63-72).
ContinueHasStores == shown = "result" => portfolio # <<>>
=============================================================================
