------------------------------- MODULE Source -------------------------------
(***************************************************************************)
(* What the store counts on when it loads an attestation, without how it   *)
(* is read: a load gives, once, an error, or all that its source held at   *)
(* some moment since it began; of a file that is written to meanwhile, it  *)
(* may give anything.  The context's end is an error of fetches.           *)
(***************************************************************************)
EXTENDS Integers

CONSTANT MaxLen

VARIABLES
  busy,       \* a load is under way
  scheme,     \* of its source
  held,       \* contents, as lengths, that the source had since it began
  written,    \* history: it was written to while it was read
  cancelled,  \* the caller's context ended
  outcome     \* what the load gives

sourceVars == <<busy, scheme, held, written, cancelled, outcome>>

None == [ok |-> FALSE, cause |-> "none", bytes |-> 0]
Contents(n) == [ok |-> TRUE, cause |-> "none", bytes |-> n]
Error(cause) == [ok |-> FALSE, cause |-> cause, bytes |-> 0]

\* What may go wrong with a source of each kind.
Causes(kind) ==
  IF kind \in {"file", "pipe"} THEN {"open", "read", "too large"}
  ELSE IF kind = "https"
       THEN {"request", "network", "status", "read", "too large", "context"}
       ELSE {"scheme"}

SourceInit ==
  /\ busy = FALSE /\ scheme = "file" /\ held = {}
  /\ written = FALSE /\ cancelled = FALSE /\ outcome = None

Begin ==
  /\ ~busy /\ busy' = TRUE
  /\ scheme' \in {"file", "pipe", "https", "other"}
  /\ held' \in {{}} \cup {{n} : n \in 0..MaxLen}
  /\ written' = FALSE /\ outcome' = None
  /\ UNCHANGED cancelled

\* The source is complete, or complete once more.
Hold ==
  /\ busy
  /\ \E n \in 0..MaxLen : held' = held \cup {n}
  /\ UNCHANGED <<busy, scheme, written, cancelled, outcome>>

\* Nothing keeps a file's writers out while it is read.
Write ==
  /\ busy /\ scheme = "file"
  /\ written' = TRUE
  /\ UNCHANGED <<busy, scheme, held, cancelled, outcome>>

EndContext ==
  /\ cancelled' = TRUE
  /\ UNCHANGED <<busy, scheme, held, written, outcome>>

Give ==
  /\ busy /\ outcome = None
  /\ \/ \E n \in IF written THEN 0..MaxLen ELSE held :
          outcome' = Contents(n) /\ scheme # "other"
     \/ \E cause \in Causes(scheme) : outcome' = Error(cause)
  /\ UNCHANGED <<busy, scheme, held, written, cancelled>>

Finished ==
  /\ busy /\ outcome # None
  /\ busy' = FALSE
  /\ UNCHANGED <<scheme, held, written, cancelled, outcome>>

SourceNext == Begin \/ Hold \/ Write \/ EndContext \/ Give \/ Finished

SourceSpec == SourceInit /\ [][SourceNext]_sourceVars
=============================================================================
