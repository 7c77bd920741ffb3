---------------------------- MODULE MCOverpassClient ----------------------------
(* An instance of OverpassClient: a Retry-After in the past, one within the  *)
(* cap on backoffs, and one beyond it.                                       *)
EXTENDS OverpassClient

RetryAfters == {-1, 2, 9}
=============================================================================
