------------------------------ MODULE MCStore ------------------------------
(* The store on its own: every edit between every two steps of a reload.   *)
EXTENDS Store, Samples

MCBytes == {"spaced", "stdio", "beta", "edited", "mislabelled", "garbage"}
MCSources == {"disk", "url"}
MCNames == {0, 1, 2}
MCMethods == {"initialize"}
MCConfigFiles == {"both", "swapped", "rollout", "trailing",
                  "broken", "refused"}
=============================================================================
