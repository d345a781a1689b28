--------------------------- MODULE MCEnvironment ----------------------------
(* Environment for TLC: files that define, override, refer to and move variables. *)
EXTENDS Environment, TLC

CONSTANTS A, d1, d2, p1, p2, x

MCNames == {A, Root, Port}
MCTexts == {d1, d2, p1, p2, x}
MCDirs == {d1, d2}
MCPorts == {p1, p2}
MCConfigs == {p1, p2, Missing}

Plain == <<EnvEntry(A, <<x>>), EnvEntry(Port, <<p1>>)>>
Refers == <<EnvEntry(A, <<Port, x>>), EnvEntry(Port, <<Root>>)>>
RefersBack == <<EnvEntry(Port, <<A, A>>)>>
Moves == <<EnvEntry(Root, <<d2>>)>>
MCContents == {<<>>, Plain, Refers, RefersBack, Moves, Missing}

MCWorlds ==
  {[system |-> s, home |-> h, argorc |-> Missing,
    project |-> (d1 :> p) @@ (d2 :> Plain),
    local |-> (d1 :> IF p = Refers THEN Moves ELSE Refers) @@ (d2 :> Missing),
    found |-> f, user_config |-> p1, project_config |-> (d1 :> p2) @@ (d2 :> Missing),
    workflow_config |-> (d1 :> Missing) @@ (d2 :> Missing)] :
    s \in {<<>>, RefersBack}, h \in {Missing, Moves}, p \in {Refers, RefersBack},
    f \in {d1, Missing}}
MCSetValues == {<<A>>}
=============================================================================
