------------------------------ MODULE MCJudge ------------------------------
(* One gated backend, every kind of statement, and calls that name it.     *)
EXTENDS Server, Samples

MCBytes == {"spaced", "edge", "low", "unscored", "failing", "plain",
            "garbage"}
MCSources == {"disk"}
MCNames == {0, 1}
MCMethods == {"tools/call"}
MCConfigFiles == {"local", "rollout"}
MCTargetLists == {<<1>>, <<1, 0>>, << >>}
MCCallers == {"h1"}
=============================================================================
