------------------------------- MODULE MCStore -------------------------------
(***************************************************************************)
(* Two processes and two configuration snapshots, of which the newer one   *)
(* accepts what was reported under the older one, and not the other way    *)
(* round.                                                                  *)
(***************************************************************************)
EXTENDS Store

CONSTANTS a, b, old, new

Reporters == [p \in Procs |-> {"report", "status"}]

\* A report that is refused has only loaded, as a status does.
Renderers == [p \in Procs |-> IF p = a THEN {"report"} ELSE {"report", "rebuild"}]

OneWay == [s \in Snapshots |-> IF s = new THEN {old, new} ELSE {old}]
=============================================================================
