--------------------------- MODULE MCVerification ---------------------------
(***************************************************************************)
(* Two commands that ask for the same evidence directory: in directories   *)
(* of their own two smokes share nothing.                                  *)
(***************************************************************************)
EXTENDS Verification

CONSTANTS a, b, shared
=============================================================================
