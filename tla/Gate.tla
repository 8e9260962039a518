-------------------------------- MODULE Gate --------------------------------
(***************************************************************************)
(* What the processor promises the gateway, without its mechanism: there   *)
(* is one table at a time, only a complete and sound one ever replaces it, *)
(* and a call is answered by one table, the one in service at one moment   *)
(* between its arrival and its reply.                                      *)
(***************************************************************************)
EXTENDS Policy

CONSTANTS Callers, TargetLists

VARIABLES table, calls

gateVars == <<table, calls>>

GateInit ==
  /\ table = NoSnapshot
  /\ calls = [h \in Callers |-> [pc |-> "idle"]]

Publish ==
  /\ table' \in Snapshot
  /\ TableComplete(table'.config, table'.entries)
  /\ TableSound(table'.config, table'.entries)
  /\ UNCHANGED calls

Arrive(h) ==
  /\ calls[h].pc = "idle"
  /\ \E method \in Methods, targets \in TargetLists :
       calls' = [calls EXCEPT ![h] = [pc |-> "waiting", method |-> method,
                                      targets |-> targets]]
  /\ UNCHANGED table

DecideCall(h) ==
  /\ calls[h].pc = "waiting"
  /\ calls' = [calls EXCEPT ![h] =
       [pc |-> "decided",
        answer |-> Answer(table, calls[h].method, calls[h].targets)]]
  /\ UNCHANGED table

\* Responses are passed whatever they say.
PassResponse(h) ==
  /\ calls[h].pc = "idle"
  /\ calls' = [calls EXCEPT ![h] = [pc |-> "decided", answer |-> Pass({})]]
  /\ UNCHANGED table

Reply(h) ==
  /\ calls[h].pc = "decided"
  /\ calls' = [calls EXCEPT ![h] = [pc |-> "idle"]]
  /\ UNCHANGED table

GateNext ==
  Publish
  \/ \E h \in Callers : Arrive(h) \/ DecideCall(h) \/ PassResponse(h) \/ Reply(h)

GateSpec == GateInit /\ [][GateNext]_gateVars
=============================================================================
