------------------------------- MODULE Drift -------------------------------
(***************************************************************************)
(* Drift: Compare tells how a later statement about a target differs from  *)
(* an earlier one, check by check.  A consumer that admitted a server on   *)
(* one statement compares every new one with the one before it; reported   *)
(* is what those comparisons have said since.                              *)
(***************************************************************************)
EXTENDS Integers, Sequences

CONSTANTS
  Ids,         \* check ids
  Severities,  \* severities; "" is none
  Versions,    \* of a rubric and of a check inventory
  NoScore,     \* a statement whose score pointer is nil
  Statements   \* the statements producers may issue about the target

Verdict == [id : Ids, severity : Severities,
            status : {"pass", "warn", "fail", "skip", "info"}]

\* What Compare reads of a statement.
Compared == [verdicts : Seq(Verdict), score : Int \cup {NoScore},
             rubric : Versions, checkInventory : Versions]

ASSUME DriftAssumption ==
  /\ "" \in Severities
  /\ NoScore \notin Int
  /\ Statements \subseteq Compared

-----------------------------------------------------------------------------

Rank == [pass |-> 1, info |-> 1, warn |-> 2, fail |-> 3]

\* A map's zero value stands for what it does not hold: a skipped check, or
\* none at all, is unranked.
RankOf(verdict) ==
  IF verdict.status \in DOMAIN Rank THEN Rank[verdict.status] ELSE 0
Ranked(verdict) == RankOf(verdict) > 0

ZeroVerdict == [id |-> "", severity |-> "", status |-> ""]

IdsIn(s) == {s.verdicts[i].id : i \in DOMAIN s.verdicts}

FirstWith(verdicts, id) ==
  CHOOSE i \in DOMAIN verdicts :
    /\ verdicts[i].id = id
    /\ \A j \in DOMAIN verdicts : verdicts[j].id = id => i <= j

NoSuchCheck == ZeroVerdict

\* The outcome of a check by its id; not measured is an error of its own.
VerdictFor(s, id) ==
  IF id \in IdsIn(s) THEN s.verdicts[FirstWith(s.verdicts, id)]
  ELSE NoSuchCheck

\* Fault: a later verdict of an id overwrites an earlier one.
VerdictIndexLast(s) ==
  [id \in IdsIn(s) |->
     s.verdicts[CHOOSE i \in DOMAIN s.verdicts :
                  /\ s.verdicts[i].id = id
                  /\ \A j \in DOMAIN s.verdicts :
                       s.verdicts[j].id = id => j <= i]]

VerdictIndex(s) ==
  [id \in IdsIn(s) |-> s.verdicts[FirstWith(s.verdicts, id)]]

Lookup(index, id) == IF id \in DOMAIN index THEN index[id] ELSE ZeroVerdict

-----------------------------------------------------------------------------

Kinds == {"regressed", "improved", "severityChanged", "unassessed", "added"}

\* Fault: a failure's severity is not looked at.
KindByRank(was, now) ==
  IF RankOf(now) > RankOf(was) THEN "regressed"
  ELSE IF RankOf(now) < RankOf(was) THEN "improved" ELSE "none"

\* How a check changed that was measured both times.
KindOfRanked(was, now) ==
  IF RankOf(now) > RankOf(was) THEN "regressed"
  ELSE IF RankOf(now) < RankOf(was) THEN "improved"
  ELSE IF was.status = "fail" /\ was.severity # now.severity
       THEN "severityChanged" ELSE "none"

\* Fault: only a check that is absent later is unassessed.
KindSkipCompared(b, a, id) ==
  LET was == Lookup(b, id)
      now == Lookup(a, id)
  IN  IF id \notin DOMAIN b \/ ~Ranked(was)
      THEN IF Ranked(now) THEN "added" ELSE "none"
      ELSE IF id \notin DOMAIN a THEN "unassessed"
           ELSE KindOfRanked(was, now)

\* Fault: only a check that was absent is added.
KindSkipWasRanked(b, a, id) ==
  LET was == Lookup(b, id)
      now == Lookup(a, id)
  IN  IF id \notin DOMAIN b
      THEN IF Ranked(now) THEN "added" ELSE "none"
      ELSE IF id \notin DOMAIN a \/ ~Ranked(now) THEN "unassessed"
           ELSE KindOfRanked(was, now)

\* How one check's outcome changed, in the order Compare tries the cases.
Kind(b, a, id) ==
  LET was == Lookup(b, id)
      now == Lookup(a, id)
  IN  IF id \notin DOMAIN b \/ ~Ranked(was)
      THEN IF Ranked(now) THEN "added" ELSE "none"
      ELSE IF id \notin DOMAIN a \/ ~Ranked(now) THEN "unassessed"
           ELSE KindOfRanked(was, now)

Change(b, a, id) ==
  [id |-> id,
   from |-> Lookup(b, id).status, to |-> Lookup(a, id).status,
   fromSeverity |-> Lookup(b, id).severity,
   toSeverity |-> Lookup(a, id).severity]

Comparable(before, after) ==
  /\ before.rubric = after.rubric
  /\ before.checkInventory = after.checkInventory

\* The changes of each kind; their order, by id, carries nothing.
Changes(before, after, kind) ==
  LET b == VerdictIndex(before)
      a == VerdictIndex(after)
  IN  {Change(b, a, id) :
         id \in {i \in IdsIn(before) \cup IdsIn(after) : Kind(b, a, i) = kind}}

ScoresCompared(before, after) ==
  /\ Comparable(before, after)
  /\ before.score # NoScore /\ after.score # NoScore

Compare(before, after) ==
  [comparable |-> Comparable(before, after),
   changes |-> [kind \in Kinds |-> Changes(before, after, kind)],
   scoreFrom |-> IF ScoresCompared(before, after) THEN before.score ELSE NoScore,
   scoreTo |-> IF ScoresCompared(before, after) THEN after.score ELSE NoScore]

ChangedIds(delta, kind) == {c.id : c \in delta.changes[kind]}

-----------------------------------------------------------------------------

VARIABLES
  admitted,  \* the statement the server was admitted on
  latest,    \* the newest one about it
  reported   \* history: ids of each kind of change, over all comparisons

driftVars == <<admitted, latest, reported>>

DriftTypeOK ==
  /\ admitted \in Statements /\ latest \in Statements
  /\ reported \in [Kinds -> SUBSET Ids]

DriftInit ==
  /\ admitted \in Statements
  /\ latest = admitted
  /\ reported = [kind \in Kinds |-> {}]

\* A new statement is compared with the newest so far and takes its place.
Reevaluate ==
  \E s \in Statements :
    /\ reported' = [kind \in Kinds |->
         reported[kind] \cup ChangedIds(Compare(latest, s), kind)]
    /\ latest' = s
    /\ UNCHANGED admitted

DriftSpec == DriftInit /\ [][Reevaluate]_driftVars

-----------------------------------------------------------------------------
(* Outcomes as VerdictFor gives them: of an id with several verdicts, the   *)
(* first.  (The processor's policy reads no outcome by id, but every        *)
(* verdict: see Policy.)                                                   *)

Measured(s, id) == Ranked(VerdictFor(s, id))
Fails(s, id) == VerdictFor(s, id).status = "fail"

\* The check was measured both times and came out worse the second time.
Worse(before, after, id) ==
  /\ Measured(before, id) /\ Measured(after, id)
  /\ RankOf(VerdictFor(after, id)) > RankOf(VerdictFor(before, id))

SameOutcome(before, after, id) ==
  /\ RankOf(VerdictFor(before, id)) = RankOf(VerdictFor(after, id))
  /\ Fails(before, id) =>
       VerdictFor(before, id).severity = VerdictFor(after, id).severity

\* A check that got worse since admission was reported on the way: as
\* regressed, or as unassessed if a run without it came in between ("did
\* anything regress since the version we admitted", docs/verify.md; Delta).
\* Regressed alone does not say it: pass, skip, fail has no regression.
DriftIsReported ==
  \A id \in Ids :
    Worse(admitted, latest, id) =>
      id \in reported["regressed"] \cup reported["unassessed"]

\* A check that fails now and did not on admission is among the regressed or
\* the added: no order of runs makes a new failure look like an improvement
\* or like nothing.  Of a family's verdicts this sees the first, as the code
\* does (Compare, verdictIndex against VerdictFor).
NewFailuresReported ==
  \A id \in Ids :
    (Fails(latest, id) /\ ~Fails(admitted, id)) =>
      id \in reported["regressed"] \cup reported["added"]

\* If no comparison reported anything, nothing has changed since admission,
\* in outcome or in a failure's severity: small unreported steps do not add
\* up (the cases of Compare's switch leave none out).
QuietSeriesUnchanged ==
  (\A kind \in Kinds : reported[kind] = {}) =>
    \A id \in Ids : SameOutcome(admitted, latest, id)

Mirror(c) ==
  [id |-> c.id, from |-> c.to, to |-> c.from,
   fromSeverity |-> c.toSeverity, toSeverity |-> c.fromSeverity]
Mirrored(changes) == {Mirror(c) : c \in changes}

Opposite == [regressed |-> "improved", improved |-> "regressed",
             unassessed |-> "added", added |-> "unassessed",
             severityChanged |-> "severityChanged"]

\* Compared the other way round, two statements show the opposite changes:
\* what got worse got better, what was lost was added, with the same scores
\* (the order in which Compare tries its cases favours neither side).
OppositeDeltas ==
  LET forth == Compare(admitted, latest)
      back == Compare(latest, admitted)
  IN  /\ \A kind \in Kinds :
           back.changes[Opposite[kind]] = Mirrored(forth.changes[kind])
      /\ back.comparable = forth.comparable
      /\ back.scoreFrom = forth.scoreTo /\ back.scoreTo = forth.scoreFrom
=============================================================================
