------------------------------ MODULE MCMirror ------------------------------
(***************************************************************************)
(* A personal source with one Skill, and a read_only source with two, on   *)
(* two pages: the first is released under the key of the personal Skill,   *)
(* the second is renamed to the Workflow of the first by its version 2.    *)
(***************************************************************************)
EXTENDS Mirror, TLC

CONSTANTS a, b, own, team, extra

Symmetric == Permutations(Procs)

Listed == <<own, team, extra>>
FoundBy == [k \in {own, team, extra} |-> IF k = own THEN 1 ELSE 2]
Keyed == [k \in {own, team, extra} |-> IF k = extra THEN "extra" ELSE "work"]
Accesses == <<"read_write", "read_only">>

Packed(id) == [id |-> id, directory |-> id, name |-> id, metadata |-> "", sound |-> TRUE]

Packages ==
    [k \in {own, team, extra} |->
        IF k = own THEN <<Packed("work"), Packed("work")>>
        ELSE IF k = team THEN <<Packed("work"), [Packed("work") EXCEPT !.name = "other"]>>
        ELSE <<Packed("extra"), Packed("work")>>]

Start(x, y, z) == [k \in {own, team, extra} |-> IF k = own THEN x ELSE IF k = team THEN y ELSE z]

Released ==
    {Start(0, 0, 0), Start(0, 1, 1), Start(2, 1, 0), Start(1, 0, 2)}
=============================================================================
