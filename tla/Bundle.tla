------------------------------- MODULE Bundle -------------------------------
(***************************************************************************)
(* A Workflow bundle (internal/workflow): the ordered Steps, the business  *)
(* Conditions and the Flow and Loop Routes of each Step, with the checks   *)
(* that ValidateBundle makes before the runtime may run it.                *)
(*                                                                         *)
(* A definition d is a record:                                             *)
(*   steps       how many Steps; a Step is its position, 1..d.steps, since *)
(*               validateWorkflowTree makes StepIDs unique                 *)
(*   conditions  the business Conditions                                   *)
(*   group, key, source   the exclusive_group, Output key and Output       *)
(*               source of each Condition                                  *)
(*   valid       the values ValidateOutput accepts for each Condition      *)
(*   flows, loops  for each Step a sequence of Routes [when, to]; `when`   *)
(*               is a set (OR) of sets (AND) of Conditions, and a terminal *)
(*               Flow Route has to = Terminal                              *)
(*   controls    whether step_start and jump are declared (they are        *)
(*               declared together)                                        *)
(*   commonValid the values each common Condition accepts                  *)
(***************************************************************************)
EXTENDS Integers, Sequences, FiniteSets

Terminal == 0      \* the target of a terminal Flow Route
NoGroup == "no exclusive_group"

Steps(d) == 1..d.steps
FirstStepID == 1
Keys(d) == {d.key[c] : c \in d.conditions}

\* model.go, When.Matches: some AND group is wholly reported.
Matches(when, conditions) == \E group \in when : group \subseteq conditions

ConditionIDs(routes) == UNION {UNION routes[i].when : i \in DOMAIN routes}

RelevantConditionIDs(d, s) == ConditionIDs(d.flows[s]) \cup ConditionIDs(d.loops[s])

\* The Routes of a Step that lead to `target`, and those whose When also holds.
Available(routes, target) == {i \in DOMAIN routes : routes[i].to = target}
Matching(routes, target, conditions) ==
    {i \in Available(routes, target) : Matches(routes[i].when, conditions)}

-----------------------------------------------------------------------------
(* validate.go *)

\* No two different members share an exclusive_group.
NoExclusivePair(d, conditions) ==
    \A a, b \in conditions :
        a # b => d.group[a] = NoGroup \/ d.group[a] # d.group[b]

ValidWhen(d, when) ==
    /\ when # {}
    /\ \A group \in when :
          /\ group # {}
          /\ group \subseteq d.conditions
          /\ NoExclusivePair(d, group)

GroupsCompatible(d, left, right) == NoExclusivePair(d, left \cup right)

WhensOverlap(d, left, right) ==
    \E l \in left, r \in right : GroupsCompatible(d, l, r)

\* validateFlowAmbiguity and validateLoopAmbiguity: two Routes of one Step
\* with one target whose Whens could hold together.
AmbiguousRoutes(d, routes) ==
    \E i, j \in DOMAIN routes :
        /\ i < j
        /\ routes[i].to = routes[j].to
        /\ WhensOverlap(d, routes[i].when, routes[j].when)

\* validateFlowReachability: the Steps the breadth-first walk has visited
\* after n rounds; d.steps rounds visit all it can.
FlowTargets(d, steps) ==
    UNION {{d.flows[s][i].to : i \in DOMAIN d.flows[s]} : s \in steps}

Visited(d) ==
    LET round[n \in 0..d.steps] ==
          IF n = 0 THEN {FirstStepID}
          ELSE round[n - 1] \cup (FlowTargets(d, round[n - 1]) \ {Terminal})
    IN  round[d.steps]

FlowReachability(d) ==
    /\ Terminal \in FlowTargets(d, Visited(d))
    /\ Visited(d) = Steps(d)

ValidFlows(d) ==
    \A s \in Steps(d) :
        /\ d.flows[s] # << >>
        /\ \A i \in DOMAIN d.flows[s] :
              /\ ValidWhen(d, d.flows[s][i].when)
              /\ d.flows[s][i].to \in {Terminal} \cup (s + 1)..d.steps
        /\ ~AmbiguousRoutes(d, d.flows[s])

ValidLoops(d) ==
    \A s \in Steps(d) :
        /\ d.loops[s] # << >>
        /\ \A i \in DOMAIN d.loops[s] :
              /\ ValidWhen(d, d.loops[s][i].when)
              /\ d.loops[s][i].to \in 1..s
        /\ ~AmbiguousRoutes(d, d.loops[s])

ValidBundle(d) ==
    /\ d.steps >= 1
    /\ ValidFlows(d)
    /\ FlowReachability(d)
    /\ ValidLoops(d)
    /\ d.conditions = UNION {RelevantConditionIDs(d, s) : s \in Steps(d)}

\* The shape of a decoded bundle, before ValidateBundle looks at it.
IsBundle(d, values) ==
    /\ d.steps \in Nat
    /\ d.controls \in BOOLEAN
    /\ \A c \in d.conditions : d.valid[c] \subseteq values
    /\ \A s \in Steps(d) :
          /\ d.flows[s] \in Seq([when : SUBSET SUBSET d.conditions, to : Nat])
          /\ d.loops[s] \in Seq([when : SUBSET SUBSET d.conditions, to : Nat])
=============================================================================
