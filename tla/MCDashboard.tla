----------------------------- MODULE MCDashboard -----------------------------
(* Two files of three versions; a flow needs a prompt that is at least as    *)
(* new.  Pages write the first two versions, the hand editor the third.      *)
EXTENDS Dashboard, TLC

Matching == {t \in Trees : t["flow"] <= t["prompt"]}
Symmetric == Permutations(Pages)
=============================================================================
