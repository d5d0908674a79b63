----------------------------- MODULE MCProjections -----------------------------
(***************************************************************************)
(* Two processes on one Requirement; they are interchangeable.             *)
(***************************************************************************)
EXTENDS Projections, TLC

CONSTANTS a, b

Symmetry == Permutations({a, b})
=============================================================================
