---------------------------- MODULE ServerProofs ----------------------------
(***************************************************************************)
(* Proofs about the service: what a call was passed for, and that handlers *)
(* which decide backend by backend on the snapshot they hold implement the *)
(* gate that answers each call from one table.                             *)
(***************************************************************************)
EXTENDS Server, StoreProofs

\* A table that may go into service.
Trustworthy(sn) ==
  /\ sn \in Snapshot
  /\ TableComplete(sn.config, sn.entries)
  /\ TableSound(sn.config, sn.entries)

LEMMA InServiceTrustworthy ==
  ASSUME StoreInvariant, snap # NoSnapshot
  PROVE  Trustworthy(snap)
  BY DEF StoreInvariant, StoreTypeOK, SnapshotSound, SnapshotComplete, Trustworthy

\* A usable entry of such a table carries a statement of the right type.
LEMMA UsableStatement ==
  ASSUME NEW sn, Trustworthy(sn), NEW name \in Names, Usable(sn.entries[name])
  PROVE  /\ Vouches(sn.config, name, sn.entries[name])
         /\ Decode[sn.entries[name].statement] \in Statement
<1>1. Vouches(sn.config, name, sn.entries[name])
  BY DEF Trustworthy, TableSound
<1>2. sn.entries[name] \in Entry
  BY DEF Trustworthy, Snapshot, Usable
<1>3. sn.entries[name].statement \in Bytes
  BY <1>2 DEF Entry, Usable
<1> QED
  BY <1>1, <1>3, DecodeAssumption DEF Vouches, Parses

\* The judgement of one statement, taken apart.
LEMMA JudgePasses ==
  ASSUME NEW p, NEW st, Judge(p, st) = "passes"
  PROVE  ~Unscored(p, st) /\ ~BelowMinimum(p, st) /\ FailingIn(p, st.verdicts) = {}
  BY DEF Judge

LEMMA EvaluateUsable ==
  ASSUME NEW p, NEW e, Usable(e)
  PROVE  /\ Evaluate(p, e).allow = (Judge(p, Decode[e.statement]) = "passes")
         /\ Evaluate(p, e).cause = Judge(p, Decode[e.statement])
         /\ Evaluate(p, e).score = Decode[e.statement].score
  BY DEF Evaluate

LEMMA EvaluateUnusable ==
  ASSUME NEW p, NEW e, ~Usable(e)
  PROVE  /\ Evaluate(p, e).allow = ~Requires(p)
         /\ Evaluate(p, e).cause \in {"not configured", "unusable"}
         /\ Evaluate(p, e).score = NoScore
  BY DEF Evaluate

\* The decision on a configured or unconfigured name, by its entry.
LEMMA DecideUsable ==
  ASSUME NEW sn, NEW name \in Names, Usable(sn.entries[name])
  PROVE  LET p  == ConfigOf[sn.config].policy
             st == Decode[sn.entries[name].statement]
         IN  /\ Decide(sn, name).allow = (Judge(p, st) = "passes")
             /\ Decide(sn, name).cause = Judge(p, st)
             /\ Decide(sn, name).score = st.score
<1> DEFINE p  == ConfigOf[sn.config].policy
           e  == sn.entries[name]
           st == Decode[e.statement]
<1>1. /\ Evaluate(p, e).allow = (Judge(p, st) = "passes")
      /\ Evaluate(p, e).cause = Judge(p, st)
      /\ Evaluate(p, e).score = st.score
  BY EvaluateUsable
<1>2. Decide(sn, name) = Evaluate(p, e)
  BY DEF Decide
<1> QED
  BY <1>1, <1>2

LEMMA DecideUnusable ==
  ASSUME NEW sn, NEW name \in Names, ~Usable(sn.entries[name])
  PROVE  /\ Decide(sn, name).allow = ~Requires(ConfigOf[sn.config].policy)
         /\ Decide(sn, name).cause \in {"not configured", "unusable"}
         /\ Decide(sn, name).score = NoScore
<1> DEFINE p == ConfigOf[sn.config].policy
           e == sn.entries[name]
<1>1. /\ Evaluate(p, e).allow = ~Requires(p)
      /\ Evaluate(p, e).cause \in {"not configured", "unusable"}
      /\ Evaluate(p, e).score = NoScore
  BY EvaluateUnusable
<1>2. Decide(sn, name) = Evaluate(p, e)
  BY DEF Decide
<1> QED
  BY <1>1, <1>2

\* A backend that a trustworthy table allows has earned it.
LEMMA AllowedIsEarned ==
  ASSUME NEW sn, Trustworthy(sn), NEW name \in Names, Decide(sn, name).allow
  PROVE  Earned(sn, name)
<1> DEFINE p  == ConfigOf[sn.config].policy
           e  == sn.entries[name]
           st == Decode[e.statement]
<1>1. CASE ~Usable(e)
  <2>1. ~Requires(p)
    BY <1>1, DecideUnusable
  <2> QED
    BY <1>1, <2>1 DEF Earned, Requires
<1>2. CASE Usable(e)
  <2>1. Judge(p, st) = "passes"
    BY <1>2, DecideUsable
  <2>2. /\ ~Unscored(p, st) /\ ~BelowMinimum(p, st)
        /\ FailingIn(p, st.verdicts) = {}
    BY <2>1, JudgePasses
  <2>3. Vouches(sn.config, name, e) /\ st \in Statement
    BY <1>2, UsableStatement
  <2>4. p.minScore \in Int
    BY PolicyAssumption DEF Trustworthy, Snapshot
  <2>5. p.minScore > 0 => st.score # NoScore /\ st.score >= p.minScore
    BY <2>2, <2>3, <2>4 DEF Unscored, BelowMinimum, Statement
  <2>6. \A i \in DOMAIN st.verdicts :
          ~(st.verdicts[i].status = "fail" /\ st.verdicts[i].phase \in p.denyFailIn)
    BY <2>2 DEF FailingIn
  <2> QED
    BY <1>2, <2>3, <2>5, <2>6 DEF Earned
<1> QED
  BY <1>1, <1>2

\* And one that has earned it is allowed.
LEMMA EarnedIsAllowed ==
  ASSUME NEW sn, Trustworthy(sn), NEW name \in Names, Earned(sn, name)
  PROVE  Decide(sn, name).allow
<1> DEFINE p  == ConfigOf[sn.config].policy
           e  == sn.entries[name]
           st == Decode[e.statement]
<1>1. CASE ~Usable(e)
  <2>1. ~Requires(p)
    BY <1>1 DEF Earned, Requires
  <2> QED
    BY <1>1, <2>1, DecideUnusable
<1>2. CASE Usable(e)
  <2>1. /\ p.minScore > 0 => st.score # NoScore /\ st.score >= p.minScore
        /\ \A i \in DOMAIN st.verdicts :
             ~(/\ st.verdicts[i].status = "fail"
               /\ st.verdicts[i].phase \in p.denyFailIn)
    BY <1>2 DEF Earned
  <2>2. st \in Statement /\ p.minScore \in Int
    BY <1>2, UsableStatement, PolicyAssumption DEF Trustworthy, Snapshot
  <2>3. ~Unscored(p, st) /\ ~BelowMinimum(p, st)
    BY <2>1, <2>2 DEF Unscored, BelowMinimum, Statement
  <2>4. FailingIn(p, st.verdicts) = {}
    BY <2>1 DEF FailingIn
  <2>5. Judge(p, st) = "passes"
    BY <2>3, <2>4 DEF Judge
  <2> QED
    BY <1>2, <2>5, DecideUsable
<1> QED
  BY <1>1, <1>2

-----------------------------------------------------------------------------
(* The gate is monotone: asking less of no more backends never denies what *)
(* passed before.                                                          *)

\* Whatever q asks of a backend, p asks as well.
Stricter(p, q) ==
  /\ q.minScore <= p.minScore
  /\ q.denyFailIn \subseteq p.denyFailIn
  /\ Requires(q) => Requires(p)

LEMMA EvaluateLooser ==
  ASSUME NEW p, NEW q, Stricter(p, q), p.minScore \in Int, q.minScore \in Int,
         NEW e, Usable(e) => Decode[e.statement].score \in Int \cup {NoScore},
         Evaluate(p, e).allow
  PROVE  Evaluate(q, e).allow
<1> DEFINE st == Decode[e.statement]
<1>1. CASE ~Usable(e)
  BY <1>1, EvaluateUnusable DEF Stricter
<1>2. CASE Usable(e)
  <2>1. /\ ~Unscored(p, st) /\ ~BelowMinimum(p, st)
        /\ FailingIn(p, st.verdicts) = {}
    BY <1>2, EvaluateUsable, JudgePasses
  <2>2. st.score \in Int \cup {NoScore}
    BY <1>2
  <2>3. ~Unscored(q, st) /\ ~BelowMinimum(q, st)
    BY <2>1, <2>2 DEF Unscored, BelowMinimum, Stricter
  <2>4. FailingIn(q, st.verdicts) = {}
    BY <2>1 DEF FailingIn, Stricter
  <2>5. Judge(q, st) = "passes"
    BY <2>3, <2>4 DEF Judge
  <2> QED
    BY <1>2, <2>5, EvaluateUsable
<1> QED
  BY <1>1, <1>2

\* Which answer a loaded table gives.
LEMMA AnswerPasses ==
  ASSUME NEW sn, sn # NoSnapshot, NEW method, NEW targets
  PROVE  Answer(sn, method, targets).result = "pass"
           <=> Passthrough(sn, method) \/ Denied(sn, targets) = {}
  BY DEF Answer, Pass, Deny

\* A policy that asks less, of the same entries and for no other backends,
\* never denies a call that passed: no lower minimum, no category less in
\* denyFailIn, no backend less in a request can turn a pass into a denial, in
\* whatever order the backends come (Evaluate, CheckRequest).
THEOREM AskingLessPasses ==
  ASSUME NEW sn, Trustworthy(sn), NEW sm \in Snapshot,
         sm.entries = sn.entries,
         Stricter(ConfigOf[sn.config].policy, ConfigOf[sm.config].policy),
         NEW method, Passthrough(sn, method) => Passthrough(sm, method),
         NEW targets, NEW fewer,
         \A j \in DOMAIN fewer : \E i \in DOMAIN targets : fewer[j] = targets[i],
         Answer(sn, method, targets).result = "pass"
  PROVE  Answer(sm, method, fewer).result = "pass"
<1> DEFINE p == ConfigOf[sn.config].policy
           q == ConfigOf[sm.config].policy
<1>1. sn # NoSnapshot /\ sm # NoSnapshot
  BY PolicyAssumption DEF Trustworthy
<1>2. sn.config \in ConfigFiles /\ sm.config \in ConfigFiles
  BY DEF Trustworthy, Snapshot
<1>3. p.minScore \in Int /\ q.minScore \in Int
  BY <1>2, PolicyAssumption
<1>4. ASSUME NEW name, Decide(sn, name).allow
      PROVE  Decide(sm, name).allow
  <2> DEFINE e == IF name \in Names THEN sn.entries[name] ELSE NoEntry
  <2>1. Evaluate(p, e).allow /\ Decide(sm, name) = Evaluate(q, e)
    BY <1>4 DEF Decide
  <2>2. Usable(e) => Decode[e.statement].score \in Int \cup {NoScore}
    BY UsableStatement DEF Usable, Statement
  <2> HIDE DEF e, p, q
  <2>3. Stricter(p, q)
    BY DEF p, q
  <2> QED
    BY <1>3, <2>1, <2>2, <2>3, EvaluateLooser
<1>5. Passthrough(sn, method) \/ Denied(sn, targets) = {}
  BY <1>1, AnswerPasses
<1>6. CASE Passthrough(sn, method)
  BY <1>1, <1>6, AnswerPasses
<1>7. CASE Denied(sn, targets) = {}
  <2>1. \A i \in DOMAIN targets : Decide(sn, targets[i]).allow
    BY <1>7 DEF Denied
  <2>2. \A j \in DOMAIN fewer : Decide(sm, fewer[j]).allow
    BY <1>4, <2>1
  <2>3. Denied(sm, fewer) = {}
    BY <2>2 DEF Denied
  <2> QED
    BY <1>1, <2>3, AnswerPasses
<1> QED
  BY <1>5, <1>6, <1>7

-----------------------------------------------------------------------------
(* What a call holds while it is decided.                                  *)

\* What a decision adds to the metadata, and what it names as the cause.
LEMMA DecisionType ==
  ASSUME NEW sn, Trustworthy(sn), NEW name \in Names
  PROVE  /\ ScoreOf(sn, name) \in Scores
         /\ ~Decide(sn, name).allow => Decide(sn, name).cause \in Causes
<1> DEFINE p  == ConfigOf[sn.config].policy
           e  == sn.entries[name]
           st == Decode[e.statement]
<1>1. CASE ~Usable(e)
  <2>1. Decide(sn, name).score = NoScore
    BY <1>1, DecideUnusable
  <2>2. Decide(sn, name).cause \in {"not configured", "unusable"}
    BY <1>1, DecideUnusable
  <2> QED
    BY <2>1, <2>2 DEF ScoreOf, Causes, Scores
<1>2. CASE Usable(e)
  <2>1. Decide(sn, name).score = st.score
    BY <1>2, DecideUsable
  <2>2. st.score \in Int \cup {NoScore}
    BY <1>2, UsableStatement DEF Statement
  <2>3. ScoreOf(sn, name) \subseteq Names \X Int
    BY <2>1, <2>2 DEF ScoreOf
  <2>4. /\ Decide(sn, name).allow = (Judge(p, st) = "passes")
        /\ Decide(sn, name).cause = Judge(p, st)
    BY <1>2, DecideUsable
  <2>5. ~Decide(sn, name).allow => Decide(sn, name).cause \in Causes
    BY <2>4 DEF Causes, Judge
  <2> QED
    BY <2>3, <2>5 DEF Scores
<1> QED
  BY <1>1, <1>2

-----------------------------------------------------------------------------
(* The loop of a call: what holds of its locals.                           *)

LEMMA ReceivedShape ==
  ASSUME NEW c \in Call, c.pc = "received"
  PROVE  c.method \in Methods /\ c.targets \in TargetLists
  BY DEF Call, NoCall

LEMMA DecidingShape ==
  ASSUME NEW c \in Call, c.pc = "deciding"
  PROVE  /\ c.method \in Methods /\ c.targets \in TargetLists
         /\ c.held \in Snapshot /\ c.next \in Nat /\ c.scores \in Scores
         /\ c.targets \in Seq(Names)
  BY ServerAssumption DEF Call, NoCall

\* The backends before position next are passed by the table the call holds,
\* and their scores, no others, are collected.
Progress(c) ==
  /\ Trustworthy(c.held)
  /\ ~Passthrough(c.held, c.method)
  /\ c.next \in 1..(Len(c.targets) + 1)
  /\ \A i \in 1..(c.next - 1) : Decide(c.held, c.targets[i]).allow
  /\ c.scores = UNION {ScoreOf(c.held, c.targets[i]) : i \in 1..(c.next - 1)}

CallsProgress ==
  \A h \in Callers : calls[h].pc = "deciding" => Progress(calls[h])

ServerInvariant ==
  /\ StoreInvariant
  /\ calls \in [Callers -> Call]
  /\ CallsProgress

\* One backend more.
LEMMA NextBackend ==
  ASSUME NEW c \in Call, c.pc = "deciding", Progress(c),
         c.next <= Len(c.targets),
         Decide(c.held, c.targets[c.next]).allow
  PROVE  LET r == Deciding(c, c.held, c.next + 1,
                           c.scores \cup ScoreOf(c.held, c.targets[c.next]))
         IN  r \in Call /\ Progress(r)
<1> DEFINE r == Deciding(c, c.held, c.next + 1,
                         c.scores \cup ScoreOf(c.held, c.targets[c.next]))
<1>1. /\ c.targets \in Seq(Names) /\ c.next \in Nat /\ c.scores \in Scores
      /\ c.method \in Methods /\ c.targets \in TargetLists
      /\ c.held \in Snapshot
  BY DecidingShape
<1>2. /\ Trustworthy(c.held) /\ ~Passthrough(c.held, c.method)
      /\ c.next \in 1..(Len(c.targets) + 1)
      /\ \A i \in 1..(c.next - 1) : Decide(c.held, c.targets[i]).allow
      /\ c.scores = UNION {ScoreOf(c.held, c.targets[i]) : i \in 1..(c.next - 1)}
  BY DEF Progress
<1>3. c.next \in 1..Len(c.targets)
  BY <1>1, <1>2
<1>4. c.targets[c.next] \in Names
  BY <1>1, <1>3
<1>5. ScoreOf(c.held, c.targets[c.next]) \in Scores
  BY <1>2, <1>4, DecisionType
<1>6. r \in Call
  <2>1. c.scores \cup ScoreOf(c.held, c.targets[c.next]) \in Scores
    BY <1>1, <1>5 DEF Scores
  <2> QED
    BY <1>1, <2>1 DEF Call, Deciding
<1>7. Progress(r)
  <2>1. 1..((c.next + 1) - 1) = (1..(c.next - 1)) \cup {c.next}
    BY <1>1, <1>3
  <2>2. UNION {ScoreOf(c.held, c.targets[i]) : i \in 1..((c.next + 1) - 1)}
          = (UNION {ScoreOf(c.held, c.targets[i]) : i \in 1..(c.next - 1)})
              \cup ScoreOf(c.held, c.targets[c.next])
    BY <2>1
  <2>3. \A i \in 1..((c.next + 1) - 1) : Decide(c.held, c.targets[i]).allow
    BY <1>2, <2>1
  <2>4. c.next + 1 \in 1..(Len(c.targets) + 1)
    BY <1>1, <1>3
  <2>5. /\ r.held = c.held /\ r.method = c.method /\ r.targets = c.targets
        /\ r.next = c.next + 1
        /\ r.scores = c.scores \cup ScoreOf(c.held, c.targets[c.next])
    BY DEF Deciding
  <2> HIDE DEF r
  <2> QED
    BY <1>2, <2>2, <2>3, <2>4, <2>5 DEF Progress
<1> QED
  BY <1>6, <1>7

\* The answers have their type.
LEMMA DenyType ==
  ASSUME NEW c \in Call, c.pc = "deciding", Progress(c),
         c.next <= Len(c.targets),
         ~Decide(c.held, c.targets[c.next]).allow
  PROVE  Returning(Deny(c.targets[c.next],
                        Decide(c.held, c.targets[c.next]).cause)) \in Call
<1>1. c.targets[c.next] \in Names
  BY DecidingShape DEF Progress
<1>2. Decide(c.held, c.targets[c.next]).cause \in Causes
  BY <1>1, DecisionType DEF Progress
<1> QED
  BY <1>1, <1>2 DEF Returning, Deny, Answers, Call

LEMMA PassType ==
  ASSUME NEW scores \in Scores
  PROVE  Returning(Pass(scores)) \in Call
  BY DEF Returning, Pass, Answers, Call

LEMMA NoScoresType == {} \in Scores
  BY DEF Scores

\* A handler's step keeps the invariant of the calls.
LEMMA BecomeStep ==
  ASSUME calls \in [Callers -> Call], CallsProgress,
         NEW h \in Callers, NEW c \in Call, c.pc = "deciding" => Progress(c),
         Become(h, c)
  PROVE  (calls \in [Callers -> Call])' /\ CallsProgress'
  BY DEF Become, CallsProgress

LEMMA CallsStep ==
  ASSUME ServerInvariant, NEW h \in Callers, Admit(h) \/ Handle(h)
  PROVE  (calls \in [Callers -> Call])' /\ CallsProgress'
<1> USE DEF ServerInvariant
<1>0. calls[h] \in Call
  OBVIOUS
<1>1. CASE Receive(h)
  <2>1. PICK method \in Methods, targets \in TargetLists :
          Become(h, [pc |-> "received", method |-> method, targets |-> targets])
    BY <1>1 DEF Receive
  <2>2. [pc |-> "received", method |-> method, targets |-> targets] \in Call
    BY DEF Call
  <2> QED
    BY <2>1, <2>2, BecomeStep
<1>2. CASE AnswerUnavailable(h)
  <2>1. Returning(Unavailable) \in Call
    BY DEF Returning, Unavailable, Answers, Call
  <2>2. Returning(Unavailable).pc # "deciding"
    BY DEF Returning
  <2> QED
    BY <1>2, <2>1, <2>2, BecomeStep DEF AnswerUnavailable
<1>3. CASE AnswerPassthrough(h) \/ CheckResponse(h)
  <2>1. Returning(Pass({})) \in Call
    BY NoScoresType, PassType
  <2>2. Returning(Pass({})).pc # "deciding"
    BY DEF Returning
  <2> QED
    BY <1>3, <2>1, <2>2, BecomeStep DEF AnswerPassthrough, CheckResponse
<1>4. CASE TakeSnapshot(h)
  <2> DEFINE c == Deciding(calls[h], snap, 1, {})
  <2>1. /\ calls[h].pc = "received" /\ snap # NoSnapshot
        /\ ~Passthrough(snap, calls[h].method)
        /\ Become(h, c)
    BY <1>4 DEF TakeSnapshot
  <2>2. Trustworthy(snap) /\ snap \in Snapshot
    BY <2>1, InServiceTrustworthy DEF Trustworthy
  <2>3. /\ calls[h].method \in Methods /\ calls[h].targets \in TargetLists
        /\ calls[h].targets \in Seq(Names)
    BY <1>0, <2>1, ReceivedShape, ServerAssumption
  <2>4. c \in Call
    BY <2>2, <2>3, NoScoresType DEF Call, Deciding
  <2>5. Progress(c)
    BY <2>1, <2>2, <2>3 DEF Progress, Deciding
  <2> QED
    BY <2>1, <2>4, <2>5, BecomeStep
<1>5. CASE DecideTarget(h)
  <2> DEFINE c == calls[h]
             name == c.targets[c.next]
             d == Deciding(c, c.held, c.next + 1,
                           c.scores \cup ScoreOf(c.held, name))
  <2>1. /\ c.pc = "deciding" /\ c.next <= Len(c.targets) /\ Progress(c)
        /\ Become(h, IF Decide(c.held, name).allow THEN d
                     ELSE Returning(Deny(name, Decide(c.held, name).cause)))
    BY <1>5 DEF DecideTarget, CallsProgress
  <2>2. CASE Decide(c.held, name).allow
    <3>1. d \in Call /\ Progress(d)
      BY <1>0, <2>1, <2>2, NextBackend
    <3>2. Become(h, d)
      BY <2>1, <2>2
    <3> QED
      BY <3>1, <3>2, BecomeStep
  <2>3. CASE ~Decide(c.held, name).allow
    <3> DEFINE r == Returning(Deny(name, Decide(c.held, name).cause))
    <3>1. r \in Call
      BY <1>0, <2>1, <2>3, DenyType
    <3>2. r.pc # "deciding"
      BY DEF Returning
    <3>3. Become(h, r)
      BY <2>1, <2>3
    <3> QED
      BY <3>1, <3>2, <3>3, BecomeStep
  <2> QED
    BY <2>2, <2>3
<1>6. CASE PassAll(h)
  <2>1. calls[h].pc = "deciding" /\ Become(h, Returning(Pass(calls[h].scores)))
    BY <1>6 DEF PassAll
  <2>2. Returning(Pass(calls[h].scores)) \in Call
    BY <1>0, <2>1, DecidingShape, PassType
  <2>3. Returning(Pass(calls[h].scores)).pc # "deciding"
    BY DEF Returning
  <2> QED
    BY <2>1, <2>2, <2>3, BecomeStep
<1>7. CASE Return(h)
  <2>1. NoCall \in Call /\ NoCall.pc # "deciding"
    BY DEF NoCall, Call
  <2> QED
    BY <1>7, <2>1, BecomeStep DEF Return
<1> QED
  BY <1>1, <1>2, <1>3, <1>4, <1>5, <1>6, <1>7 DEF Admit, Handle

-----------------------------------------------------------------------------
(* The invariant of the whole server.                                      *)

LEMMA HandlersLeaveStore ==
  ASSUME NEW h \in Callers, Admit(h) \/ Handle(h)
  PROVE  UNCHANGED storeVars
  BY DEF Admit, Handle, Receive, CheckResponse, AnswerUnavailable,
         AnswerPassthrough, TakeSnapshot, DecideTarget, PassAll, Return

LEMMA ServerInvariantInit == ServerInit => ServerInvariant
<1> SUFFICES ASSUME ServerInit
             PROVE  ServerInvariant
  OBVIOUS
<1>1. StoreInvariant
  BY StoreInvariantInit DEF ServerInit
<1>2. calls = [h \in Callers |-> NoCall]
  BY DEF ServerInit
<1>3. NoCall \in Call /\ NoCall.pc # "deciding"
  BY DEF NoCall, Call
<1>4. calls \in [Callers -> Call]
  BY <1>2, <1>3
<1>5. CallsProgress
  BY <1>2, <1>3 DEF CallsProgress
<1> QED
  BY <1>1, <1>4, <1>5 DEF ServerInvariant

LEMMA ServerInvariantStep ==
  ServerInvariant /\ [ServerNext]_serverVars => ServerInvariant'
<1> SUFFICES ASSUME ServerInvariant, [ServerNext]_serverVars
             PROVE  ServerInvariant'
  OBVIOUS
<1>1. CASE (StoreNext /\ UNCHANGED calls) \/ UNCHANGED serverVars
  <2>1. [StoreNext]_storeVars /\ UNCHANGED calls
    BY <1>1 DEF serverVars, storeVars
  <2>2. StoreInvariant'
    BY <2>1, StoreInvariantStep DEF ServerInvariant
  <2>3. (calls \in [Callers -> Call])' /\ CallsProgress'
    BY <2>1 DEF ServerInvariant, CallsProgress
  <2> QED
    BY <2>2, <2>3 DEF ServerInvariant
<1>2. ASSUME NEW h \in Callers, Admit(h) \/ Handle(h)
      PROVE  ServerInvariant'
  <2>1. UNCHANGED storeVars
    BY <1>2, HandlersLeaveStore
  <2>2. StoreInvariant'
    BY <2>1, StoreInvariantStep DEF ServerInvariant
  <2>3. (calls \in [Callers -> Call])' /\ CallsProgress'
    BY <1>2, CallsStep
  <2> QED
    BY <2>2, <2>3 DEF ServerInvariant
<1> QED
  BY <1>1, <1>2 DEF ServerNext

\* The snapshot a call holds was fit for service, and the loop has passed the
\* backends before its position by it, and collected their scores, whatever
\* the store did since (CheckRequest).
THEOREM ServerInvariantHolds == ServerSpec => []ServerInvariant
  BY ServerInvariantInit, ServerInvariantStep, PTL DEF ServerSpec

\* The store's and the handlers' variables keep their types while calls come
\* and go: what a handler answers is one of CheckRequest's three answers.
THEOREM ServerTypeCorrect == ServerSpec => []ServerTypeOK
<1>1. ServerInvariant => ServerTypeOK
  BY DEF ServerInvariant, ServerTypeOK, StoreInvariant
<1> QED
  BY <1>1, ServerInvariantHolds, PTL

\* Every backend a call has gone past earned it: its statement vouches for
\* the server configured under that name and meets the policy of the table
\* the call holds; and a backend that stops it has not (Evaluate, CheckRequest),
\* for any number of calls, targets and reloads.
THEOREM CallsPassedAreEarned == ServerSpec => []PassedAreEarned
<1>1. ASSUME ServerInvariant
      PROVE  PassedAreEarned
  <2> SUFFICES ASSUME NEW h \in Callers, calls[h].pc = "deciding",
                      NEW i \in DOMAIN calls[h].targets
               PROVE  LET held == calls[h].held
                          name == calls[h].targets[i]
                      IN  /\ i < calls[h].next => Earned(held, name)
                          /\ Earned(held, name) => Decide(held, name).allow
    BY DEF PassedAreEarned
  <2>1. Progress(calls[h]) /\ calls[h] \in Call
    BY <1>1 DEF ServerInvariant, CallsProgress
  <2>2. calls[h].targets \in Seq(Names) /\ calls[h].next \in Nat
    BY <2>1, DecidingShape
  <2>3. /\ calls[h].targets[i] \in Names
        /\ i < calls[h].next => i \in 1..(calls[h].next - 1)
    BY <2>2
  <2>4. /\ Trustworthy(calls[h].held)
        /\ i < calls[h].next => Decide(calls[h].held, calls[h].targets[i]).allow
    BY <2>1, <2>3 DEF Progress
  <2> QED
    BY <2>3, <2>4, AllowedIsEarned, EarnedIsAllowed
<1> QED
  BY <1>1, ServerInvariantHolds, PTL

-----------------------------------------------------------------------------
(* Calls move on, and the store under them is the store.                   *)

LEMMA LengthType ==
  ASSUME NEW c \in Call, c.pc \in {"received", "deciding"}
  PROVE  Len(c.targets) \in Nat
<1>1. c.targets \in Seq(Names)
  BY ReceivedShape, DecidingShape, ServerAssumption
<1> QED
  BY <1>1

LEMMA HandleMovesOn ==
  ASSUME ServerInvariant, NEW h \in Callers, Handle(h)
  PROVE  Remaining(calls'[h]) \in 0..(Remaining(calls[h]) - 1)
<1> DEFINE c == calls[h]
<1>0. c \in Call /\ calls \in [Callers -> Call]
  BY DEF ServerInvariant
<1>1. ASSUME NEW r, Become(h, r)
      PROVE  calls'[h] = r
  BY <1>0, <1>1 DEF Become
<1>2. CASE AnswerUnavailable(h) \/ AnswerPassthrough(h)
  <2>1. c.pc = "received" /\ calls'[h].pc = "returning"
    BY <1>1, <1>2 DEF AnswerUnavailable, AnswerPassthrough, Returning
  <2>2. Len(c.targets) \in Nat
    BY <1>0, <2>1, LengthType
  <2> QED
    BY <2>1, <2>2 DEF Remaining
<1>3. CASE TakeSnapshot(h)
  <2>1. /\ c.pc = "received" /\ calls'[h].pc = "deciding"
        /\ calls'[h].next = 1 /\ calls'[h].targets = c.targets
    BY <1>1, <1>3 DEF TakeSnapshot, Deciding
  <2>2. Len(c.targets) \in Nat
    BY <1>0, <2>1, LengthType
  <2> QED
    BY <2>1, <2>2 DEF Remaining
<1>4. CASE DecideTarget(h)
  <2>1. c.pc = "deciding" /\ c.next <= Len(c.targets)
    BY <1>4 DEF DecideTarget
  <2>2. Len(c.targets) \in Nat /\ c.next \in Nat
    BY <1>0, <2>1, LengthType, DecidingShape
  <2>3. \/ /\ calls'[h].pc = "deciding" /\ calls'[h].next = c.next + 1
           /\ calls'[h].targets = c.targets
        \/ calls'[h].pc = "returning"
    BY <1>1, <1>4 DEF DecideTarget, Deciding, Returning
  <2>4. Remaining(c) = Len(c.targets) + 3 - c.next
    BY <2>1 DEF Remaining
  <2>5. Remaining(calls'[h]) \in {Len(c.targets) + 3 - (c.next + 1), 1}
    BY <2>3 DEF Remaining
  <2> QED
    BY <2>1, <2>2, <2>4, <2>5
<1>5. CASE PassAll(h)
  <2>1. c.pc = "deciding" /\ calls'[h].pc = "returning"
    BY <1>1, <1>5 DEF PassAll, Returning
  <2>2. Len(c.targets) \in Nat /\ c.next \in 1..(Len(c.targets) + 1)
    BY <1>0, <2>1, LengthType DEF ServerInvariant, CallsProgress, Progress
  <2> QED
    BY <2>1, <2>2 DEF Remaining
<1>6. CASE Return(h)
  <2>1. c.pc = "returning" /\ calls'[h].pc = "idle"
    BY <1>1, <1>6 DEF Return, NoCall
  <2> QED
    BY <2>1 DEF Remaining
<1> QED
  BY <1>2, <1>3, <1>4, <1>5, <1>6 DEF Handle

\* A request is answered within as many steps of its handler as it names
\* backends and three more, however many reloads come and go or hang
\* meanwhile: what is left for fairness to add is that the handler runs.
THEOREM CallsGetOn == ServerSpec => CallsMoveOn
<1> DEFINE Moves(h) == calls'[h] # calls[h] =>
                         \/ calls[h].pc = "idle"
                         \/ Remaining(calls'[h]) \in 0..(Remaining(calls[h]) - 1)
<1>1. ASSUME ServerInvariant, [ServerNext]_serverVars, NEW h \in Callers
      PROVE  Moves(h)
  <2>1. CASE UNCHANGED calls
    BY <2>1
  <2>2. ASSUME NEW g \in Callers, Admit(g) \/ Handle(g)
        PROVE  Moves(h)
    <3>1. CASE g # h
      <4>1. PICK r : Become(g, r)
        BY <2>2 DEF Admit, Handle, Receive, CheckResponse, AnswerUnavailable,
                    AnswerPassthrough, TakeSnapshot, DecideTarget, PassAll, Return
      <4> QED
        BY <3>1, <4>1 DEF Become, ServerInvariant
    <3>2. CASE g = h /\ Admit(h)
      BY <3>2 DEF Admit, Receive, CheckResponse
    <3>3. CASE g = h /\ Handle(h)
      BY <1>1, <3>3, HandleMovesOn
    <3> QED
      BY <2>2, <3>1, <3>2, <3>3
  <2> QED
    BY <1>1, <2>1, <2>2 DEF ServerNext, serverVars
<1>2. ServerInvariant /\ [ServerNext]_serverVars
        => [\A h \in Callers : Moves(h)]_serverVars
  BY <1>1
<1> QED
  BY <1>2, ServerInvariantHolds, PTL DEF ServerSpec, CallsMoveOn

\* The handlers only read the store: beneath the service, it is the store
\* that was proved about by itself (Snapshot, Reload).
THEOREM ServerImplementsStore == ServerSpec => StoreSpec
<1>1. ServerInit => StoreInit
  BY DEF ServerInit
<1>2. [ServerNext]_serverVars => [StoreNext]_storeVars
  BY HandlersLeaveStore DEF ServerNext, serverVars, storeVars
<1> QED
  BY <1>1, <1>2, PTL DEF ServerSpec, StoreSpec

-----------------------------------------------------------------------------
(* The service implements the gate: a handler that decides backend by      *)
(* backend, on the snapshot it holds, answers as if it had decided all at  *)
(* once on the table in service when it took the snapshot.                 *)

\* The gate's operators, taken over the server's constants, are the server's.
LEMMA GateAnswer ==
  ASSUME NEW sn, NEW method, NEW targets
  PROVE  G!Answer(sn, method, targets) = Answer(sn, method, targets)
<1>1. ASSUME NEW p, NEW st
      PROVE  G!Judge(p, st) = Judge(p, st)
  BY DEF G!Judge, Judge, G!Unscored, Unscored, G!BelowMinimum, BelowMinimum,
         G!FailingIn, FailingIn
<1>2. ASSUME NEW p, NEW e
      PROVE  G!Evaluate(p, e) = Evaluate(p, e)
  BY <1>1 DEF G!Evaluate, Evaluate, G!Usable, Usable, G!Requires, Requires
<1>3. ASSUME NEW t, NEW name
      PROVE  G!Decide(t, name) = Decide(t, name)
  BY <1>2 DEF G!Decide, Decide
<1> QED
  BY <1>3 DEF G!Answer, Answer, G!Denied, Denied, G!Passthrough, Passthrough,
              G!ScoreOf, ScoreOf, G!Pass, Pass, G!Deny, Deny,
              G!Unavailable, Unavailable

\* So are what is asked of a table and the types it is made of.
LEMMA GateTable ==
  ASSUME NEW sn, Trustworthy(sn)
  PROVE  /\ sn \in G!Snapshot
         /\ G!TableComplete(sn.config, sn.entries)
         /\ G!TableSound(sn.config, sn.entries)
<1>1. sn \in G!Snapshot
  BY DEF Trustworthy, Snapshot, G!Snapshot, Entry, G!Entry, Reasons, G!Reasons
<1>2. G!TableComplete(sn.config, sn.entries)
  <2>1. ASSUME NEW c
        PROVE  G!ConfigValid(c) = ConfigValid(c)
    BY DEF G!ConfigValid, ConfigValid
  <2> QED
    BY <2>1 DEF Trustworthy, TableComplete, G!TableComplete
<1>3. G!TableSound(sn.config, sn.entries)
  <2>1. ASSUME NEW f, NEW n, NEW e
        PROVE  G!Vouches(f, n, e) = Vouches(f, n, e)
    <3>1. ASSUME NEW sub, NEW t
          PROVE  G!SubjectIsAbout(sub, t) = SubjectIsAbout(sub, t)
      BY DEF G!SubjectIsAbout, SubjectIsAbout, G!Digest, Digest,
             G!Descriptor, Descriptor
    <3>2. ASSUME NEW verdicts
          PROVE  G!Counted(verdicts) = Counted(verdicts)
      BY DEF G!Counted, Counted, G!Statuses, Statuses,
             G!Cardinality, Cardinality
    <3>3. ASSUME NEW s
          PROVE  G!Validate(s) = Validate(s)
      BY <3>1, <3>2 DEF G!Validate, Validate, G!HeaderFields, HeaderFields,
                        G!Statuses, Statuses
    <3>4. G!Parses(e.statement) = Parses(e.statement)
      BY <3>3 DEF G!Parses, Parses
    <3> QED
      BY <3>4 DEF G!Vouches, Vouches, G!Describes, Describes,
                  G!TransportOf, TransportOf
  <2>2. ASSUME NEW e
        PROVE  G!Usable(e) = Usable(e)
    BY DEF G!Usable, Usable
  <2> QED
    BY <2>1, <2>2 DEF Trustworthy, TableSound, G!TableSound
<1> QED
  BY <1>1, <1>2, <1>3

-----------------------------------------------------------------------------
(* The loop's result is the answer of the table it ran on.                 *)

LEMMA HeldAnswer ==
  ASSUME NEW c \in Call, c.pc = "deciding", Progress(c)
  PROVE  Answer(c.held, c.method, c.targets)
           = IF Denied(c.held, c.targets) = {}
             THEN Pass(UNION {ScoreOf(c.held, c.targets[i]) :
                                i \in DOMAIN c.targets})
             ELSE LET first == CHOOSE i \in Denied(c.held, c.targets) :
                                 \A j \in Denied(c.held, c.targets) : i <= j
                  IN  Deny(c.targets[first],
                           Decide(c.held, c.targets[first]).cause)
<1>1. c.held # NoSnapshot
  BY PolicyAssumption DEF Progress, Trustworthy
<1>2. ~Passthrough(c.held, c.method)
  BY DEF Progress
<1> QED
  BY <1>1, <1>2 DEF Answer

LEMMA PassAllAnswer ==
  ASSUME NEW c \in Call, c.pc = "deciding", Progress(c),
         c.next > Len(c.targets)
  PROVE  Answer(c.held, c.method, c.targets) = Pass(c.scores)
<1>1. c.targets \in Seq(Names) /\ c.next \in Nat
  BY DecidingShape
<1>2. /\ c.next \in 1..(Len(c.targets) + 1)
      /\ \A i \in 1..(c.next - 1) : Decide(c.held, c.targets[i]).allow
      /\ c.scores = UNION {ScoreOf(c.held, c.targets[i]) : i \in 1..(c.next - 1)}
  BY DEF Progress
<1>3. DOMAIN c.targets = 1..(c.next - 1)
  BY <1>1, <1>2
<1>4. Denied(c.held, c.targets) = {}
  BY <1>2, <1>3 DEF Denied
<1>5. Answer(c.held, c.method, c.targets)
        = Pass(UNION {ScoreOf(c.held, c.targets[i]) : i \in DOMAIN c.targets})
  BY <1>4, HeldAnswer
<1> QED
  BY <1>2, <1>3, <1>5

LEMMA DenyAnswer ==
  ASSUME NEW c \in Call, c.pc = "deciding", Progress(c),
         c.next <= Len(c.targets),
         ~Decide(c.held, c.targets[c.next]).allow
  PROVE  Answer(c.held, c.method, c.targets)
           = Deny(c.targets[c.next], Decide(c.held, c.targets[c.next]).cause)
<1> DEFINE D == Denied(c.held, c.targets)
           first == CHOOSE i \in D : \A j \in D : i <= j
<1>1. c.targets \in Seq(Names) /\ c.next \in Nat
  BY DecidingShape
<1>2. /\ c.next \in 1..(Len(c.targets) + 1)
      /\ \A i \in 1..(c.next - 1) : Decide(c.held, c.targets[i]).allow
  BY DEF Progress
<1>3. c.next \in D
  BY <1>1, <1>2 DEF Denied
<1>4. \A j \in D : j \in Nat /\ c.next <= j
  BY <1>1, <1>2 DEF Denied
<1>5. first = c.next
  <2> HIDE DEF D
  <2>1. first \in D /\ \A j \in D : first <= j
    BY <1>3, <1>4
  <2> QED
    BY <1>1, <1>3, <1>4, <2>1
<1>6. Answer(c.held, c.method, c.targets)
        = Deny(c.targets[first], Decide(c.held, c.targets[first]).cause)
  BY <1>3, HeldAnswer
<1> QED
  BY <1>5, <1>6

-----------------------------------------------------------------------------
(* Every step of the server is a step of the gate, or none.                *)

\* The gate's view of the calls.
Seen == [h \in Callers |-> Settled(calls[h])]

LEMMA BecomeSeen ==
  ASSUME calls \in [Callers -> Call], NEW h \in Callers, NEW c, Become(h, c)
  PROVE  Seen' = [Seen EXCEPT ![h] = Settled(c)]
  BY DEF Become, Seen

LEMMA ReturningSeen ==
  ASSUME NEW answer
  PROVE  Settled(Returning(answer)) = [pc |-> "decided", answer |-> answer]
  BY DEF Settled, Returning

LEMMA DecidingSeen ==
  ASSUME NEW c, c.pc = "deciding"
  PROVE  Settled(c) = [pc |-> "decided",
                       answer |-> Answer(c.held, c.method, c.targets)]
  BY DEF Settled

LEMMA ReceivedSeen ==
  ASSUME NEW c, c.pc = "received"
  PROVE  Settled(c) = [pc |-> "waiting", method |-> c.method,
                       targets |-> c.targets]
  BY DEF Settled

\* Answering a received call, now or after the loop on the snapshot in
\* service, is the gate's DecideCall.
LEMMA DecideIsDecideCall ==
  ASSUME calls \in [Callers -> Call], UNCHANGED snap,
         NEW h \in Callers, calls[h].pc = "received", NEW c, Become(h, c),
         Settled(c) = [pc |-> "decided",
                       answer |-> Answer(snap, calls[h].method, calls[h].targets)]
  PROVE  G!DecideCall(h)
<1>1. Seen[h] = [pc |-> "waiting", method |-> calls[h].method,
                 targets |-> calls[h].targets]
  BY ReceivedSeen DEF Seen
<1>2. Seen' = [Seen EXCEPT ![h] =
        [pc |-> "decided",
         answer |-> Answer(snap, calls[h].method, calls[h].targets)]]
  BY BecomeSeen
<1>3. Seen[h].pc = "waiting" /\ Seen[h].method = calls[h].method
      /\ Seen[h].targets = calls[h].targets
  BY <1>1
<1>4. Seen' = [Seen EXCEPT ![h] =
        [pc |-> "decided",
         answer |-> G!Answer(snap, Seen[h].method, Seen[h].targets)]]
  BY <1>2, <1>3, GateAnswer
<1> QED
  BY <1>3, <1>4 DEF G!DecideCall, Seen

\* A step that leaves what the gate sees of the call leaves the gate alone.
LEMMA SameSeen ==
  ASSUME calls \in [Callers -> Call], NEW h \in Callers, NEW c, Become(h, c),
         Settled(c) = Settled(calls[h])
  PROVE  Seen' = Seen
  BY DEF Become, Seen

LEMMA AdmitStep ==
  ASSUME ServerInvariant, NEW h \in Callers, Admit(h)
  PROVE  G!Arrive(h) \/ G!PassResponse(h)
<1> USE DEF ServerInvariant
<1>1. calls[h].pc = "idle" => Seen[h].pc = "idle"
  BY DEF Seen, Settled
<1>2. CASE Receive(h)
  <2>1. PICK method \in Methods, targets \in TargetLists :
          Become(h, [pc |-> "received", method |-> method, targets |-> targets])
    BY <1>2 DEF Receive
  <2> DEFINE c == [pc |-> "received", method |-> method, targets |-> targets]
  <2>2. Settled(c) = [pc |-> "waiting", method |-> method, targets |-> targets]
    BY ReceivedSeen
  <2>3. Seen' = [Seen EXCEPT ![h] = Settled(c)]
    BY <2>1, BecomeSeen
  <2>4. UNCHANGED snap /\ Seen[h].pc = "idle"
    BY <1>1, <1>2 DEF Receive, storeVars
  <2> QED
    BY <2>2, <2>3, <2>4 DEF G!Arrive, Seen
<1>3. CASE CheckResponse(h)
  <2>1. Become(h, Returning(Pass({}))) /\ calls[h].pc = "idle" /\ UNCHANGED snap
    BY <1>3 DEF CheckResponse, storeVars
  <2>2. Seen' = [Seen EXCEPT ![h] = Settled(Returning(Pass({})))]
    BY <2>1, BecomeSeen
  <2>3. Settled(Returning(Pass({}))) = [pc |-> "decided", answer |-> G!Pass({})]
    BY ReturningSeen DEF Pass, G!Pass
  <2> QED
    BY <1>1, <2>1, <2>2, <2>3 DEF G!PassResponse, Seen
<1> QED
  BY <1>2, <1>3 DEF Admit

LEMMA HandleStep ==
  ASSUME ServerInvariant, NEW h \in Callers, Handle(h)
  PROVE  G!DecideCall(h) \/ G!Reply(h) \/ Seen' = Seen
<1> USE DEF ServerInvariant
<1>0. UNCHANGED snap /\ calls[h] \in Call
  BY HandlersLeaveStore DEF storeVars
<1>1. CASE AnswerUnavailable(h)
  <2>1. /\ calls[h].pc = "received" /\ snap = NoSnapshot
        /\ Become(h, Returning(Unavailable))
    BY <1>1 DEF AnswerUnavailable
  <2>2. Answer(snap, calls[h].method, calls[h].targets) = Unavailable
    BY <2>1 DEF Answer
  <2>3. Settled(Returning(Unavailable)) =
          [pc |-> "decided",
           answer |-> Answer(snap, calls[h].method, calls[h].targets)]
    BY <2>2, ReturningSeen
  <2> QED
    BY <1>0, <2>1, <2>3, DecideIsDecideCall
<1>2. CASE AnswerPassthrough(h)
  <2>1. /\ calls[h].pc = "received" /\ snap # NoSnapshot
        /\ Passthrough(snap, calls[h].method)
        /\ Become(h, Returning(Pass({})))
    BY <1>2 DEF AnswerPassthrough
  <2>2. Answer(snap, calls[h].method, calls[h].targets) = Pass({})
    BY <2>1 DEF Answer
  <2>3. Settled(Returning(Pass({}))) =
          [pc |-> "decided",
           answer |-> Answer(snap, calls[h].method, calls[h].targets)]
    BY <2>2, ReturningSeen
  <2> QED
    BY <1>0, <2>1, <2>3, DecideIsDecideCall
<1>3. CASE TakeSnapshot(h)
  <2> DEFINE c == Deciding(calls[h], snap, 1, {})
  <2>1. calls[h].pc = "received" /\ Become(h, c)
    BY <1>3 DEF TakeSnapshot
  <2>2. /\ c.pc = "deciding" /\ c.held = snap
        /\ c.method = calls[h].method /\ c.targets = calls[h].targets
    BY DEF Deciding
  <2>3. Settled(c) = [pc |-> "decided",
                      answer |-> Answer(snap, calls[h].method, calls[h].targets)]
    <3> HIDE DEF c
    <3> QED
      BY <2>2, DecidingSeen
  <2> QED
    BY <1>0, <2>1, <2>3, DecideIsDecideCall
<1>4. CASE DecideTarget(h)
  <2> DEFINE c == calls[h]
             name == c.targets[c.next]
             d == Deciding(c, c.held, c.next + 1,
                           c.scores \cup ScoreOf(c.held, name))
  <2>1. /\ c.pc = "deciding" /\ c.next <= Len(c.targets) /\ Progress(c)
        /\ Become(h, IF Decide(c.held, name).allow THEN d
                     ELSE Returning(Deny(name, Decide(c.held, name).cause)))
    BY <1>4 DEF DecideTarget, CallsProgress
  <2>2. Settled(c) = [pc |-> "decided",
                      answer |-> Answer(c.held, c.method, c.targets)]
    BY <2>1, DecidingSeen
  <2>3. CASE Decide(c.held, name).allow
    <3>1. /\ d.pc = "deciding" /\ d.held = c.held
          /\ d.method = c.method /\ d.targets = c.targets
      BY DEF Deciding
    <3>2. Settled(d) = Settled(c)
      <4> HIDE DEF d
      <4> QED
        BY <2>2, <3>1, DecidingSeen
    <3>3. Become(h, d)
      BY <2>1, <2>3
    <3> QED
      BY <3>2, <3>3, SameSeen
  <2>4. CASE ~Decide(c.held, name).allow
    <3> DEFINE r == Returning(Deny(name, Decide(c.held, name).cause))
    <3>1. Answer(c.held, c.method, c.targets)
            = Deny(name, Decide(c.held, name).cause)
      BY <1>0, <2>1, <2>4, DenyAnswer
    <3>2. Settled(r) = Settled(c)
      BY <2>2, <3>1, ReturningSeen
    <3>3. Become(h, r)
      BY <2>1, <2>4
    <3> QED
      BY <3>2, <3>3, SameSeen
  <2> QED
    BY <2>3, <2>4
<1>5. CASE PassAll(h)
  <2>1. /\ calls[h].pc = "deciding" /\ calls[h].next > Len(calls[h].targets)
        /\ Progress(calls[h]) /\ Become(h, Returning(Pass(calls[h].scores)))
    BY <1>5 DEF PassAll, CallsProgress
  <2>2. Answer(calls[h].held, calls[h].method, calls[h].targets)
          = Pass(calls[h].scores)
    BY <1>0, <2>1, PassAllAnswer
  <2>3. Settled(Returning(Pass(calls[h].scores))) = Settled(calls[h])
    BY <2>1, <2>2, ReturningSeen, DecidingSeen
  <2> QED
    BY <2>1, <2>3, SameSeen
<1>6. CASE Return(h)
  <2>1. calls[h].pc = "returning" /\ Become(h, NoCall)
    BY <1>6 DEF Return
  <2>2. Seen[h].pc = "decided"
    BY <2>1 DEF Seen, Settled
  <2>3. Seen' = [Seen EXCEPT ![h] = Settled(NoCall)]
    BY <2>1, BecomeSeen
  <2>4. Settled(NoCall) = [pc |-> "idle"]
    BY DEF Settled, NoCall
  <2> QED
    BY <1>0, <2>2, <2>3, <2>4 DEF G!Reply, Seen
<1> QED
  BY <1>1, <1>2, <1>3, <1>4, <1>5, <1>6 DEF Handle

LEMMA StoreStep ==
  ASSUME ServerInvariant, ServerInvariant', StoreNext, UNCHANGED calls
  PROVE  G!Publish \/ UNCHANGED <<snap, Seen>>
<1>1. Seen' = Seen
  BY DEF Seen
<1>2. CASE Install
  <2>1. snap' \in Snapshot
    BY <1>2, NextShape
       DEF ServerInvariant, StoreInvariant, StoreTypeOK, Install, Snapshot,
           EntryTable
  <2>2. snap' # NoSnapshot
    BY <2>1, PolicyAssumption
  <2>3. Trustworthy(snap')
    BY <2>1, <2>2
       DEF ServerInvariant, StoreInvariant, SnapshotSound, SnapshotComplete,
           Trustworthy
  <2>4. /\ snap' \in G!Snapshot
        /\ G!TableComplete(snap'.config, snap'.entries)
        /\ G!TableSound(snap'.config, snap'.entries)
    BY <2>3, GateTable
  <2> QED
    BY <1>1, <2>4 DEF G!Publish, Seen
<1>3. CASE ~Install
  BY <1>1, <1>3
     DEF StoreNext, ReloadStep, Edit, EditConfig, EditSource, Cancel,
         StartReload, RefuseConfig, AcceptConfig, NextTarget, AbandonBuild,
         FinishTarget
<1> QED
  BY <1>2, <1>3

LEMMA GateInitStep == ServerInit => G!GateInit
<1> SUFFICES ASSUME ServerInit
             PROVE  G!GateInit
  OBVIOUS
<1>1. snap = NoSnapshot /\ calls = [h \in Callers |-> NoCall]
  BY DEF ServerInit, StoreInit
<1>2. Settled(NoCall) = [pc |-> "idle"]
  BY DEF Settled, NoCall
<1>3. Seen = [h \in Callers |-> [pc |-> "idle"]]
  BY <1>1, <1>2 DEF Seen
<1> QED
  BY <1>1, <1>3 DEF G!GateInit, Seen

LEMMA GateNextStep ==
  ServerInvariant /\ ServerInvariant' /\ [ServerNext]_serverVars
    => [G!GateNext]_(G!gateVars)
<1> SUFFICES ASSUME ServerInvariant, ServerInvariant', [ServerNext]_serverVars
             PROVE  [G!GateNext]_(G!gateVars)
  OBVIOUS
<1>0. UNCHANGED <<snap, Seen>> => UNCHANGED G!gateVars
  BY DEF G!gateVars, Seen
<1>1. CASE StoreNext /\ UNCHANGED calls
  BY <1>0, <1>1, StoreStep DEF G!GateNext
<1>2. ASSUME NEW h \in Callers, Admit(h)
      PROVE  G!GateNext
  BY <1>2, AdmitStep DEF G!GateNext
<1>3. ASSUME NEW h \in Callers, Handle(h)
      PROVE  G!GateNext \/ UNCHANGED G!gateVars
  <2>1. UNCHANGED snap
    BY <1>3, HandlersLeaveStore DEF storeVars
  <2> QED
    BY <1>0, <1>3, <2>1, HandleStep DEF G!GateNext
<1>4. CASE UNCHANGED serverVars
  BY <1>0, <1>4 DEF serverVars, Seen
<1> QED
  BY <1>1, <1>2, <1>3, <1>4 DEF ServerNext

\* The service implements the gate: whatever the interleaving of calls,
\* edits and reloads, a call is answered as one table would answer it alone,
\* and that table was in service between the call's arrival and its reply
\* (CheckRequest, Store.Snapshot, Store.Reload).
THEOREM ServerImplementsGate == ServerSpec => GateSpec
<1>1. ServerSpec => []ServerInvariant
  BY ServerInvariantHolds
<1> QED
  BY <1>1, GateInitStep, GateNextStep, PTL
     DEF ServerSpec, GateSpec, G!GateSpec
=============================================================================
