------------------------------- MODULE MCMedia -------------------------------
(***************************************************************************)
(* An instance of MediaTokens: two sessions, two tokens and a builder that   *)
(* may replace the session table once.                                       *)
(***************************************************************************)
EXTENDS MediaTokens

CONSTANTS t1, t2

=============================================================================
