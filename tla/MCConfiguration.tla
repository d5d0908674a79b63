--------------------------- MODULE MCConfiguration ---------------------------
(***************************************************************************)
(* Two processes; the first commit of the Git center does not validate.   *)
(***************************************************************************)
EXTENDS Configuration

MCNewest == [git |-> 3, fornax |-> 1]
MCInvalid == {<<"git", 1>>}
=============================================================================
