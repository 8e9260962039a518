------------------------------- MODULE Server -------------------------------
(***************************************************************************)
(* The ExtMcp service: one goroutine per call, each of which reads the     *)
(* store's snapshot once and decides the request's backends one by one on  *)
(* that snapshot, while the store may go on to install others.             *)
(***************************************************************************)
EXTENDS Store, Sequences

CONSTANTS
  Callers,      \* calls that may be in progress at the same time
  TargetLists   \* the service_names a request may carry

ASSUME ServerAssumption ==
  \A targets \in TargetLists : targets \in Seq(Names)

VARIABLE calls  \* the handler goroutines: their locals and where they are

serverVars == <<configFile, content, snap, build, cancelled, calls>>

NoCall == [pc |-> "idle"]
Scores == SUBSET (Names \X Int)

Answers ==
  {Unavailable}
  \cup [result : {"pass"}, scores : Scores]
  \cup [result : {"deny"}, target : Names, cause : Causes]

\* held is the local snap, next the loop's position, scores the local meta.
Call ==
  {NoCall}
  \cup [pc : {"received"}, method : Methods, targets : TargetLists]
  \cup [pc : {"deciding"}, method : Methods, targets : TargetLists,
        held : Snapshot, next : Nat, scores : Scores]
  \cup [pc : {"returning"}, answer : Answers]

ServerTypeOK == StoreTypeOK /\ calls \in [Callers -> Call]

ServerInit == StoreInit /\ calls = [h \in Callers |-> NoCall]

-----------------------------------------------------------------------------

Become(h, call) == calls' = [calls EXCEPT ![h] = call]
Deciding(c, held, next, scores) ==
  [pc |-> "deciding", method |-> c.method, targets |-> c.targets,
   held |-> held, next |-> next, scores |-> scores]
Returning(answer) == [pc |-> "returning", answer |-> answer]

\* gRPC starts a handler for a request.
Receive(h) ==
  /\ calls[h].pc = "idle"
  /\ \E method \in Methods, targets \in TargetLists :
       Become(h, [pc |-> "received", method |-> method, targets |-> targets])
  /\ UNCHANGED storeVars

\* The snapshot is read, and there is none: a gRPC error.
AnswerUnavailable(h) ==
  /\ calls[h].pc = "received" /\ snap = NoSnapshot
  /\ Become(h, Returning(Unavailable))
  /\ UNCHANGED storeVars

\* The snapshot is read, and passes the method without a decision.
AnswerPassthrough(h) ==
  /\ calls[h].pc = "received" /\ snap # NoSnapshot
  /\ Passthrough(snap, calls[h].method)
  /\ Become(h, Returning(Pass({})))
  /\ UNCHANGED storeVars

\* Fault: Reload holds the store's lock for as long as it builds.
TakeSnapshotBetweenReloads(h) ==
  /\ calls[h].pc = "received" /\ snap # NoSnapshot /\ build = Idle
  /\ ~Passthrough(snap, calls[h].method)
  /\ Become(h, Deciding(calls[h], snap, 1, {}))
  /\ UNCHANGED storeVars

\* The snapshot is read; the loop over the backends begins.
TakeSnapshot(h) ==
  /\ calls[h].pc = "received" /\ snap # NoSnapshot
  /\ ~Passthrough(snap, calls[h].method)
  /\ Become(h, Deciding(calls[h], snap, 1, {}))
  /\ UNCHANGED storeVars

\* Fault: every backend is decided on the snapshot then in service.
DecideOnCurrentSnapshot(h) ==
  /\ calls[h].pc = "deciding" /\ calls[h].next <= Len(calls[h].targets)
  /\ LET name == calls[h].targets[calls[h].next]
         d    == Decide(snap, name)
     IN  Become(h, IF d.allow
                   THEN Deciding(calls[h], calls[h].held, calls[h].next + 1,
                                 calls[h].scores \cup ScoreOf(snap, name))
                   ELSE Returning(Deny(name, d.cause)))
  /\ UNCHANGED storeVars

\* One turn of the loop: the first backend that does not pass ends the call.
DecideTarget(h) ==
  /\ calls[h].pc = "deciding" /\ calls[h].next <= Len(calls[h].targets)
  /\ LET name == calls[h].targets[calls[h].next]
         held == calls[h].held
         d    == Decide(held, name)
     IN  Become(h, IF d.allow
                   THEN Deciding(calls[h], held, calls[h].next + 1,
                                 calls[h].scores \cup ScoreOf(held, name))
                   ELSE Returning(Deny(name, d.cause)))
  /\ UNCHANGED storeVars

\* Every backend passed.
PassAll(h) ==
  /\ calls[h].pc = "deciding" /\ calls[h].next > Len(calls[h].targets)
  /\ Become(h, Returning(Pass(calls[h].scores)))
  /\ UNCHANGED storeVars

\* A response comes in: it is passed unread.
CheckResponse(h) ==
  /\ calls[h].pc = "idle"
  /\ Become(h, Returning(Pass({})))
  /\ UNCHANGED storeVars

\* The handler's answer goes out.
Return(h) ==
  /\ calls[h].pc = "returning"
  /\ Become(h, NoCall)
  /\ UNCHANGED storeVars

Admit(h) == Receive(h) \/ CheckResponse(h)

Handle(h) ==
  AnswerUnavailable(h) \/ AnswerPassthrough(h) \/ TakeSnapshot(h)
  \/ DecideTarget(h) \/ PassAll(h) \/ Return(h)

ServerNext ==
  \/ StoreNext /\ UNCHANGED calls
  \/ \E h \in Callers : Admit(h) \/ Handle(h)

ServerSpec == ServerInit /\ [][ServerNext]_serverVars

\* The handlers' goroutines run.  Nothing is assumed of the reload, which may
\* hang on a source, nor of calls coming in.
FairServerSpec == ServerSpec /\ \A h \in Callers : WF_serverVars(Handle(h))

-----------------------------------------------------------------------------

\* What a backend must show to be passed under a table, and all it must show.
Earned(sn, name) ==
  LET p == ConfigOf[sn.config].policy
      e == sn.entries[name]
  IN  IF ~Usable(e)
      THEN p.requireAttestation = "false"
      ELSE LET st == Decode[e.statement]
           IN  /\ Vouches(sn.config, name, e)
               /\ p.minScore > 0 => st.score # NoScore /\ st.score >= p.minScore
               /\ \A i \in DOMAIN st.verdicts :
                    ~(/\ st.verdicts[i].status = "fail"
                      /\ st.verdicts[i].phase \in p.denyFailIn)

\* A call goes past a backend only if that backend has a statement that
\* vouches for the server configured under its name and meets the policy; it
\* does without one only where the policy requires none.  And it is stopped only
\* at a backend of which that is not so: a score equal to the minimum, or none
\* where no minimum is set, is no reason to stop it (Evaluate, CheckRequest).
PassedAreEarned ==
  \A h \in Callers :
    calls[h].pc = "deciding" =>
      \A i \in DOMAIN calls[h].targets :
        LET held == calls[h].held
            name == calls[h].targets[i]
        IN  /\ i < calls[h].next => Earned(held, name)
            /\ i = calls[h].next /\ Earned(held, name) => Decide(held, name).allow

\* What a call in progress is to the gateway: its answer is settled by the
\* snapshot it took.
Settled(c) ==
  IF c.pc = "idle" THEN [pc |-> "idle"]
  ELSE IF c.pc = "received"
  THEN [pc |-> "waiting", method |-> c.method, targets |-> c.targets]
  ELSE [pc |-> "decided",
        answer |-> IF c.pc = "deciding"
                   THEN Answer(c.held, c.method, c.targets) ELSE c.answer]

G == INSTANCE Gate WITH table <- snap,
                        calls <- [h \in Callers |-> Settled(calls[h])]

\* The service keeps the gate's promises: a reload in progress never shows a
\* request half of the old table and half of the new (Store's comment), and
\* one answer never rests on two tables.
GateSpec == G!GateSpec

\* How many steps a handler has left to take, at most.
Remaining(c) ==
  IF c.pc = "received" THEN Len(c.targets) + 3
  ELSE IF c.pc = "deciding" THEN Len(c.targets) + 3 - c.next
  ELSE IF c.pc = "returning" THEN 1 ELSE 0

\* A call only ever moves on: whatever reloads do meanwhile, each step that
\* touches it is one less of the few it has, and none sends it back to a
\* backend or to another table (CheckRequest).
CallsMoveOn ==
  [][\A h \in Callers :
       calls'[h] # calls[h] =>
         \/ calls[h].pc = "idle"
         \/ Remaining(calls'[h]) \in 0..(Remaining(calls[h]) - 1)]_serverVars

\* Every request is answered, also while a reload hangs on a source: the lock
\* is held only to swap the pointer (Snapshot's comment).
CallsAnswered ==
  \A h \in Callers : calls[h].pc = "received" ~> calls[h].pc = "idle"
=============================================================================
