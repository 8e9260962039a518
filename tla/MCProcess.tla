----------------------------- MODULE MCProcess -----------------------------
(* The command as a whole, with few files: what matters is who runs when.  *)
EXTENDS Process, Samples

MCBytes == {"alpha"}
MCSources == {"disk", "url"}
MCNames == {1, 2}
MCMethods == {"tools/call"}
MCTargetLists == {<<1, 2>>}

\* For the safety run: a local target, a remote one, an unreadable file.
MCConfigFiles == {"local", "remote", "broken"}
MCCallers == {"h1", "h2"}

\* For the liveness run: two targets of one name, an unreadable file, and a call
\* that asks for it.
HangupFiles == {"local", "rollout", "broken"}
OneSource == {"disk"}
OneCaller == {"h1"}
OneList == {<<1>>}
=============================================================================
