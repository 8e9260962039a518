------------------------------ MODULE MCServer ------------------------------
(* Calls against a store that reloads under them.                          *)
EXTENDS Server, Samples

MCBytes == {"spaced"}
MCSources == {"disk"}
MCNames == {0, 1, 2}
MCMethods == {"initialize", "tools/call"}
MCConfigFiles == {"pair", "riap"}
MCTargetLists == {<<1, 2>>, <<2, 1, 0>>}
MCCallers == {"h1"}
=============================================================================
