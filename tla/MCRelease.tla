------------------------------ MODULE MCRelease ------------------------------
(***************************************************************************)
(* Two processes, two releases, two public Skills and a retired one.       *)
(***************************************************************************)
EXTENDS Release

CONSTANTS a, b
=============================================================================
