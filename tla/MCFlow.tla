------------------------------- MODULE MCFlow -------------------------------
(***************************************************************************)
(* Two bundles after those of the repository, each with the Conditions     *)
(* that its Routes need:                                                   *)
(*   Controlled  internal/workflow/testdata/runtime-controls: three Steps, *)
(*               common controls, a self-Loop at the first Step            *)
(*   Example     examples/workflows/example: no controls, one Condition    *)
(*               shared by every Route (panorama_presented), two Loop      *)
(*               Routes of one Step; with Routes, added to it, that        *)
(*               publish the bound Trace document or claim a verification  *)
(*               outcome, and that only an exclusive group keeps apart     *)
(***************************************************************************)
EXTENDS TraceViews

CONSTANTS value, outcome, document, other

On(conditions, target) == [when |-> {conditions}, to |-> target]

AllowAll(conditions, values) == [c \in conditions |-> values]

CommonValid(steps) ==
    [start_confirmed |-> {value}, jump_requested |-> 1..steps]

ControlledConditions ==
    {"first_completed", "first_rework", "second_completed", "second_rework",
     "third_completed", "third_rework"}

Outcome ==
    [c \in ControlledConditions |->
       CASE c \in {"first_completed", "first_rework"} -> "first_outcome"
         [] c \in {"second_completed", "second_rework"} -> "second_outcome"
         [] OTHER -> "third_outcome"]

ControlledBundle(controls) ==
    [steps |-> 3, conditions |-> ControlledConditions,
     group |-> Outcome, key |-> [c \in ControlledConditions |-> c],
     source |-> AllowAll(ControlledConditions, "none"),
     valid |-> AllowAll(ControlledConditions, {value}),
     flows |-> << <<On({"first_completed"}, 2)>>, <<On({"second_completed"}, 3)>>,
                  <<On({"third_completed"}, Terminal)>> >>,
     loops |-> << <<On({"first_rework"}, 1)>>, <<On({"second_rework"}, 1)>>,
                  <<On({"third_rework"}, 2)>> >>,
     controls |-> controls, commonValid |-> CommonValid(3)]

Controlled == ControlledBundle(TRUE)

ExampleConditions ==
    {"analyzed", "incomplete", "revise", "panorama", "approved", "published", "verified"}

Example ==
    [steps |-> 2, conditions |-> ExampleConditions,
     group |-> [c \in ExampleConditions |->
                  IF c \in {"panorama", "revise"} THEN NoGroup ELSE "outcome"],
     key |-> [c \in ExampleConditions |-> IF c = "revise" THEN "incomplete" ELSE c],
     source |-> [c \in ExampleConditions |->
                   CASE c = "published" -> "trace_document_url"
                     [] c = "verified" -> "verify_evidence_outcome"
                     [] OTHER -> "none"],
     valid |-> [c \in ExampleConditions |->
                  CASE c = "published" -> {document}
                    [] c = "verified" -> {outcome}
                    [] OTHER -> {value}],
     flows |-> << <<On({"analyzed", "panorama"}, 2), On({"published"}, 2)>>,
                  <<On({"approved", "panorama"}, Terminal), On({"verified"}, Terminal),
                    On({"published"}, Terminal)>> >>,
     loops |-> << <<On({"incomplete", "panorama"}, 1)>>,
                  <<[when |-> {{"panorama"}, {"verified", "panorama"}}, to |-> 1],
                    On({"revise", "panorama"}, 2)>> >>,
     controls |-> FALSE, commonValid |-> CommonValid(2)]

\* What agents report: every Condition with each value it accepts, a value one
\* of them refuses, the start control and the jump targets.
Report(d, invalid) ==
    UNION {{[id |-> c, value |-> v] : v \in d.valid[c]} : c \in d.conditions}
    \cup invalid
    \cup {[id |-> "start_confirmed", value |-> value]}
    \cup IF d.controls
         THEN {[id |-> "jump_requested", value |-> s] : s \in Steps(d)} ELSE {}

ControlledReports ==
    Report(Controlled, {[id |-> "first_completed", value |-> document],
                        [id |-> "start_confirmed", value |-> document]})
ExampleReports == Report(Example, {[id |-> "panorama", value |-> document]})

ControlledValues == {value, document}
NoManifest == {NoValue}
ExampleValues == {value, outcome, document, other}
ExampleManifests == {NoValue, outcome}
\* What theorems PanoramaTrue and NeverStuck ask of a bundle: the first holds of
\* the bundle with controls, the second of the one without.
ASSUME BundlesAssumption == IF Definition.controls THEN OneStepAtATime ELSE Followable
=============================================================================
