---------------------------- MODULE DriftProofs ----------------------------
(***************************************************************************)
(* What a series of comparisons cannot hide, for any ids, severities and   *)
(* statements, and however long the series.                                *)
(***************************************************************************)
EXTENDS Drift, TLAPS

LEMMA RankType == ASSUME NEW v PROVE RankOf(v) \in 0..3
  BY DEF RankOf, Rank

LEMMA ZeroUnranked == ~Ranked(ZeroVerdict) /\ RankOf(ZeroVerdict) = 0
  BY DEF Ranked, RankOf, Rank, ZeroVerdict

LEMMA FailRanked ==
  ASSUME NEW v PROVE v.status = "fail" <=> RankOf(v) = 3
  BY DEF RankOf, Rank

\* What Compare looks up is what VerdictFor answers.
LEMMA LookupIsVerdictFor ==
  ASSUME NEW s, NEW id
  PROVE  Lookup(VerdictIndex(s), id) = VerdictFor(s, id)
  BY DEF Lookup, VerdictIndex, VerdictFor, NoSuchCheck

LEMMA MeasuredIsThere ==
  ASSUME NEW s, NEW id, Measured(s, id)
  PROVE  id \in IdsIn(s)
  BY ZeroUnranked DEF Measured, VerdictFor, NoSuchCheck

LEMMA UnmeasuredRank ==
  ASSUME NEW s, NEW id
  PROVE  Measured(s, id) <=> RankOf(VerdictFor(s, id)) # 0
<1>1. RankOf(VerdictFor(s, id)) \in 0..3
  BY RankType
<1> QED
  BY <1>1 DEF Measured, Ranked

\* Kind, read off the outcomes VerdictFor gives.
LEMMA KindOfOutcomes ==
  ASSUME NEW before, NEW after, NEW id
  PROVE  Kind(VerdictIndex(before), VerdictIndex(after), id) =
           IF ~Measured(before, id)
           THEN IF Measured(after, id) THEN "added" ELSE "none"
           ELSE IF ~Measured(after, id) THEN "unassessed"
                ELSE KindOfRanked(VerdictFor(before, id),
                                  VerdictFor(after, id))
<1>1. /\ Lookup(VerdictIndex(before), id) = VerdictFor(before, id)
      /\ Lookup(VerdictIndex(after), id) = VerdictFor(after, id)
  BY LookupIsVerdictFor
<1>2. /\ DOMAIN VerdictIndex(before) = IdsIn(before)
      /\ DOMAIN VerdictIndex(after) = IdsIn(after)
  BY DEF VerdictIndex
<1>3. /\ Measured(before, id) => id \in IdsIn(before)
      /\ Measured(after, id) => id \in IdsIn(after)
  BY MeasuredIsThere
<1> QED
  BY <1>1, <1>2, <1>3 DEF Kind, Measured

\* A check measured on either side whose kind is one of Kinds is reported.
LEMMA KindIsReported ==
  ASSUME NEW before, NEW after, NEW id, NEW kind \in Kinds,
         Measured(before, id) \/ Measured(after, id),
         Kind(VerdictIndex(before), VerdictIndex(after), id) = kind
  PROVE  id \in ChangedIds(Compare(before, after), kind)
<1> DEFINE b == VerdictIndex(before)
           a == VerdictIndex(after)
<1>1. id \in IdsIn(before) \cup IdsIn(after)
  BY MeasuredIsThere
<1>2. Change(b, a, id) \in Changes(before, after, kind)
  BY <1>1 DEF Changes
<1>3. Change(b, a, id).id = id
  BY DEF Change
<1>4. Compare(before, after).changes[kind] = Changes(before, after, kind)
  BY DEF Compare
<1> QED
  BY <1>2, <1>3, <1>4 DEF ChangedIds

\* One comparison names every outcome that differs.
LEMMA WorseIsRegressed ==
  ASSUME NEW before, NEW after, NEW id, Worse(before, after, id)
  PROVE  id \in ChangedIds(Compare(before, after), "regressed")
<1>1. Kind(VerdictIndex(before), VerdictIndex(after), id) = "regressed"
  BY KindOfOutcomes DEF Worse, KindOfRanked
<1> QED
  BY <1>1, KindIsReported DEF Worse, Kinds

LEMMA LostIsUnassessed ==
  ASSUME NEW before, NEW after, NEW id,
         Measured(before, id), ~Measured(after, id)
  PROVE  id \in ChangedIds(Compare(before, after), "unassessed")
<1>1. Kind(VerdictIndex(before), VerdictIndex(after), id) = "unassessed"
  BY KindOfOutcomes
<1> QED
  BY <1>1, KindIsReported DEF Kinds

LEMMA NewIsAdded ==
  ASSUME NEW before, NEW after, NEW id,
         ~Measured(before, id), Measured(after, id)
  PROVE  id \in ChangedIds(Compare(before, after), "added")
<1>1. Kind(VerdictIndex(before), VerdictIndex(after), id) = "added"
  BY KindOfOutcomes
<1> QED
  BY <1>1, KindIsReported DEF Kinds

LEMMA UnreportedIsSame ==
  ASSUME NEW before, NEW after, NEW id,
         \A kind \in Kinds : id \notin ChangedIds(Compare(before, after), kind)
  PROVE  SameOutcome(before, after, id)
<1> DEFINE was == VerdictFor(before, id)
           now == VerdictFor(after, id)
<1>1. RankOf(was) \in 0..3 /\ RankOf(now) \in 0..3
  BY RankType
<1>2. Measured(before, id) <=> Measured(after, id)
  BY LostIsUnassessed, NewIsAdded DEF Kinds
<1>3. CASE ~Measured(before, id)
  <2>1. RankOf(was) = 0 /\ RankOf(now) = 0
    BY <1>2, <1>3, UnmeasuredRank
  <2>2. was.status # "fail"
    BY <2>1, FailRanked
  <2> QED
    BY <2>1, <2>2 DEF SameOutcome, Fails
<1>4. CASE Measured(before, id)
  <2>1. Kind(VerdictIndex(before), VerdictIndex(after), id) =
          KindOfRanked(was, now)
    BY <1>2, <1>4, KindOfOutcomes
  <2>2. KindOfRanked(was, now) \notin Kinds
    BY <1>4, <2>1, KindIsReported
  <2> QED
    BY <1>1, <2>2 DEF KindOfRanked, Kinds, SameOutcome, Fails
<1> QED
  BY <1>3, <1>4

-----------------------------------------------------------------------------

LEMMA ChangedIdsType ==
  ASSUME NEW before \in Statements, NEW after \in Statements,
         NEW kind \in Kinds
  PROVE  ChangedIds(Compare(before, after), kind) \subseteq Ids
<1>1. before \in Compared /\ after \in Compared
  BY DriftAssumption
<1>2. IdsIn(before) \subseteq Ids /\ IdsIn(after) \subseteq Ids
  <2>1. /\ before.verdicts \in Seq(Verdict)
        /\ after.verdicts \in Seq(Verdict)
    BY <1>1 DEF Compared
  <2>2. /\ \A i \in DOMAIN before.verdicts : before.verdicts[i] \in Verdict
        /\ \A i \in DOMAIN after.verdicts : after.verdicts[i] \in Verdict
    BY <2>1
  <2> QED
    BY <2>2 DEF Verdict, IdsIn
<1>3. Compare(before, after).changes[kind] = Changes(before, after, kind)
  BY DEF Compare
<1>4. \A c \in Changes(before, after, kind) : c.id \in Ids
  BY <1>2 DEF Changes, Change
<1> QED
  BY <1>3, <1>4 DEF ChangedIds

LEMMA DriftTypeInit == DriftInit => DriftTypeOK
  BY DEF DriftInit, DriftTypeOK

LEMMA DriftTypeStep ==
  DriftTypeOK /\ [Reevaluate]_driftVars => DriftTypeOK'
<1> SUFFICES ASSUME DriftTypeOK, [Reevaluate]_driftVars PROVE DriftTypeOK'
  OBVIOUS
<1>1. CASE Reevaluate
  <2>1. PICK s \in Statements :
          /\ reported' = [kind \in Kinds |->
               reported[kind] \cup ChangedIds(Compare(latest, s), kind)]
          /\ latest' = s /\ admitted' = admitted
    BY <1>1 DEF Reevaluate
  <2>2. \A kind \in Kinds : ChangedIds(Compare(latest, s), kind) \subseteq Ids
    BY ChangedIdsType DEF DriftTypeOK
  <2>3. \A kind \in Kinds :
          reported[kind] \cup ChangedIds(Compare(latest, s), kind) \in SUBSET Ids
    BY <2>2 DEF DriftTypeOK
  <2> QED
    BY <2>1, <2>3 DEF DriftTypeOK
<1>2. CASE UNCHANGED driftVars
  BY <1>2 DEF driftVars, DriftTypeOK
<1> QED
  BY <1>1, <1>2

\* The variables keep their types: only ids of statements are reported, also
\* for checks that one of the two statements lacks.
THEOREM DriftTypeCorrect == DriftSpec => []DriftTypeOK
<1> QED
  BY DriftTypeInit, DriftTypeStep, PTL DEF DriftSpec

-----------------------------------------------------------------------------
(* The series: reports only accumulate, and what is unreported so far      *)
(* bounds how far the latest outcome is from the admitted one.             *)

\* A comparison adds its changes to the report.
LEMMA ReevaluateReports ==
  ASSUME Reevaluate
  PROVE  /\ latest' \in Statements /\ admitted' = admitted
         /\ \A kind \in Kinds :
              reported'[kind] =
                reported[kind] \cup ChangedIds(Compare(latest, latest'), kind)
<1>1. PICK s \in Statements :
        /\ reported' = [kind \in Kinds |->
             reported[kind] \cup ChangedIds(Compare(latest, s), kind)]
        /\ latest' = s /\ admitted' = admitted
  BY DEF Reevaluate
<1> QED
  BY <1>1

\* Neither regressed nor unassessed: still measured, and no worse.
NotWorseUnreported ==
  \A id \in Ids :
    (Measured(admitted, id)
      /\ id \notin reported["regressed"] \cup reported["unassessed"]) =>
      /\ Measured(latest, id)
      /\ RankOf(VerdictFor(latest, id)) <= RankOf(VerdictFor(admitted, id))

LEMMA NotWorseInit == DriftInit => NotWorseUnreported
<1> SUFFICES ASSUME DriftInit, NEW id \in Ids, Measured(admitted, id)
             PROVE  /\ Measured(latest, id)
                    /\ RankOf(VerdictFor(latest, id))
                         <= RankOf(VerdictFor(admitted, id))
  BY DEF NotWorseUnreported
<1>1. RankOf(VerdictFor(admitted, id)) \in 0..3
  BY RankType
<1> QED
  BY <1>1 DEF DriftInit

LEMMA NotWorseStep ==
  NotWorseUnreported /\ [Reevaluate]_driftVars => NotWorseUnreported'
<1> SUFFICES ASSUME NotWorseUnreported, [Reevaluate]_driftVars
             PROVE  NotWorseUnreported'
  OBVIOUS
<1>1. CASE Reevaluate
  <2> SUFFICES ASSUME NEW id \in Ids, Measured(admitted', id),
                      id \notin reported'["regressed"]
                                  \cup reported'["unassessed"]
               PROVE  /\ Measured(latest', id)
                      /\ RankOf(VerdictFor(latest', id))
                           <= RankOf(VerdictFor(admitted', id))
    BY DEF NotWorseUnreported, Measured
  <2>1. /\ admitted' = admitted
        /\ id \notin reported["regressed"] \cup reported["unassessed"]
        /\ id \notin ChangedIds(Compare(latest, latest'), "regressed")
        /\ id \notin ChangedIds(Compare(latest, latest'), "unassessed")
    BY <1>1, ReevaluateReports DEF Kinds
  <2>2. /\ Measured(latest, id)
        /\ RankOf(VerdictFor(latest, id)) <= RankOf(VerdictFor(admitted, id))
    BY <2>1 DEF NotWorseUnreported
  <2>3. Measured(latest', id)
    BY <2>1, <2>2, LostIsUnassessed
  <2>4. ~Worse(latest, latest', id)
    BY <2>1, WorseIsRegressed
  <2>5. /\ RankOf(VerdictFor(latest, id)) \in 0..3
        /\ RankOf(VerdictFor(latest', id)) \in 0..3
        /\ RankOf(VerdictFor(admitted, id)) \in 0..3
    BY RankType
  <2> QED
    BY <2>1, <2>2, <2>3, <2>4, <2>5 DEF Worse
<1>2. CASE UNCHANGED driftVars
  BY <1>2 DEF driftVars, NotWorseUnreported, Measured, VerdictFor, IdsIn
<1> QED
  BY <1>1, <1>2

\* A check worse than on admission was reported on the way as regressed or as
\* unassessed, however many comparisons lie between.
THEOREM DriftDoesNotGoUnreported == DriftSpec => []DriftIsReported
<1>1. NotWorseUnreported => DriftIsReported
  <2> SUFFICES ASSUME NotWorseUnreported, NEW id \in Ids,
                      Worse(admitted, latest, id)
               PROVE  id \in reported["regressed"] \cup reported["unassessed"]
    BY DEF DriftIsReported
  <2>1. /\ RankOf(VerdictFor(latest, id)) \in 0..3
        /\ RankOf(VerdictFor(admitted, id)) \in 0..3
    BY RankType
  <2> QED
    BY <2>1 DEF NotWorseUnreported, Worse
<1> QED
  BY <1>1, NotWorseInit, NotWorseStep, PTL DEF DriftSpec

-----------------------------------------------------------------------------

LEMMA NewFailuresStep ==
  NewFailuresReported /\ [Reevaluate]_driftVars => NewFailuresReported'
<1> SUFFICES ASSUME NewFailuresReported, [Reevaluate]_driftVars
             PROVE  NewFailuresReported'
  OBVIOUS
<1>1. CASE Reevaluate
  <2> SUFFICES ASSUME NEW id \in Ids, Fails(latest', id), ~Fails(admitted', id)
               PROVE  id \in reported'["regressed"] \cup reported'["added"]
    BY DEF NewFailuresReported, Fails
  <2>0. /\ admitted' = admitted
        /\ \A kind \in {"regressed", "added"} :
             reported'[kind] =
               reported[kind] \cup ChangedIds(Compare(latest, latest'), kind)
    BY <1>1, ReevaluateReports DEF Kinds
  <2>1. RankOf(VerdictFor(latest', id)) = 3 /\ Measured(latest', id)
    BY FailRanked, UnmeasuredRank DEF Fails
  <2>2. CASE Fails(latest, id)
    BY <2>0, <2>2 DEF NewFailuresReported
  <2>3. CASE ~Measured(latest, id)
    BY <2>0, <2>1, <2>3, NewIsAdded
  <2>4. CASE Measured(latest, id) /\ ~Fails(latest, id)
    <3>1. RankOf(VerdictFor(latest, id)) \in 0..2
      BY <2>4, RankType, FailRanked DEF Fails
    <3>2. Worse(latest, latest', id)
      BY <2>1, <2>4, <3>1 DEF Worse
    <3> QED
      BY <2>0, <3>2, WorseIsRegressed
  <2> QED
    BY <2>2, <2>3, <2>4
<1>2. CASE UNCHANGED driftVars
  BY <1>2 DEF driftVars, NewFailuresReported, Fails, VerdictFor, IdsIn
<1> QED
  BY <1>1, <1>2

\* A check that fails now and did not on admission is among the regressed or
\* the added of some comparison since.
THEOREM NewFailuresAreReported == DriftSpec => []NewFailuresReported
<1>1. DriftInit => NewFailuresReported
  BY DEF DriftInit, NewFailuresReported
<1> QED
  BY <1>1, NewFailuresStep, PTL DEF DriftSpec

-----------------------------------------------------------------------------

LEMMA QuietStep ==
  QuietSeriesUnchanged /\ [Reevaluate]_driftVars => QuietSeriesUnchanged'
<1> SUFFICES ASSUME QuietSeriesUnchanged, [Reevaluate]_driftVars
             PROVE  QuietSeriesUnchanged'
  OBVIOUS
<1>1. CASE Reevaluate
  <2> SUFFICES ASSUME \A kind \in Kinds : reported'[kind] = {},
                      NEW id \in Ids
               PROVE  SameOutcome(admitted', latest', id)
    BY DEF QuietSeriesUnchanged, SameOutcome, Fails
  <2>1. /\ admitted' = admitted
        /\ \A kind \in Kinds :
             /\ reported[kind] = {}
             /\ id \notin ChangedIds(Compare(latest, latest'), kind)
    BY <1>1, ReevaluateReports
  <2>2. SameOutcome(admitted, latest, id)
    BY <2>1 DEF QuietSeriesUnchanged
  <2>3. SameOutcome(latest, latest', id)
    BY <2>1, UnreportedIsSame
  <2>4. Fails(admitted, id) => Fails(latest, id)
    BY <2>2, FailRanked DEF SameOutcome, Fails
  <2> QED
    BY <2>1, <2>2, <2>3, <2>4 DEF SameOutcome
<1>2. CASE UNCHANGED driftVars
  BY <1>2 DEF driftVars, QuietSeriesUnchanged, SameOutcome, Fails, VerdictFor,
              IdsIn
<1> QED
  BY <1>1, <1>2

\* A series of comparisons that report nothing ends where it began.
THEOREM QuietSeriesEndsWhereItBegan == DriftSpec => []QuietSeriesUnchanged
<1>1. DriftInit => QuietSeriesUnchanged
  BY DEF DriftInit, QuietSeriesUnchanged, SameOutcome
<1> QED
  BY <1>1, QuietStep, PTL DEF DriftSpec

-----------------------------------------------------------------------------
(* The two directions of a comparison.                                     *)

\* The kinds of one id, either way round, are opposite.
LEMMA KindsAreOpposite ==
  ASSUME NEW before, NEW after, NEW id, NEW kind \in Kinds
  PROVE  Kind(VerdictIndex(before), VerdictIndex(after), id) = kind
           <=> Kind(VerdictIndex(after), VerdictIndex(before), id)
                 = Opposite[kind]
<1> DEFINE was == VerdictFor(before, id)
           now == VerdictFor(after, id)
<1>1. RankOf(was) \in 0..3 /\ RankOf(now) \in 0..3
  BY RankType
<1>2. RankOf(was) = RankOf(now) => (was.status = "fail" <=> now.status = "fail")
  BY FailRanked
<1>3. KindOfRanked(was, now) = kind
        <=> KindOfRanked(now, was) = Opposite[kind]
  BY <1>1, <1>2 DEF KindOfRanked, Kinds, Opposite
<1>4. KindOfRanked(was, now) \notin {"added", "unassessed"}
      /\ KindOfRanked(now, was) \notin {"added", "unassessed"}
  BY DEF KindOfRanked
<1>5. /\ Kind(VerdictIndex(before), VerdictIndex(after), id) =
           IF ~Measured(before, id)
           THEN IF Measured(after, id) THEN "added" ELSE "none"
           ELSE IF ~Measured(after, id) THEN "unassessed"
                ELSE KindOfRanked(was, now)
      /\ Kind(VerdictIndex(after), VerdictIndex(before), id) =
           IF ~Measured(after, id)
           THEN IF Measured(before, id) THEN "added" ELSE "none"
           ELSE IF ~Measured(before, id) THEN "unassessed"
                ELSE KindOfRanked(now, was)
  BY KindOfOutcomes
<1>6. CASE Measured(before, id) /\ Measured(after, id)
  BY <1>3, <1>5, <1>6
<1>7. CASE ~(Measured(before, id) /\ Measured(after, id))
  BY <1>5, <1>7 DEF Kinds, Opposite
<1> QED
  BY <1>6, <1>7

\* A comparison's changes of a kind are the mirror image of the other way
\* round's changes of the opposite kind.
LEMMA ChangesAreMirrored ==
  ASSUME NEW before, NEW after, NEW kind \in Kinds
  PROVE  Changes(after, before, Opposite[kind]) =
           Mirrored(Changes(before, after, kind))
<1> DEFINE b == VerdictIndex(before)
           a == VerdictIndex(after)
           ids == {i \in IdsIn(before) \cup IdsIn(after) : Kind(b, a, i) = kind}
<1>1. ids = {i \in IdsIn(after) \cup IdsIn(before) :
               Kind(a, b, i) = Opposite[kind]}
  BY KindsAreOpposite
<1>2. Changes(after, before, Opposite[kind]) = {Change(a, b, i) : i \in ids}
  BY <1>1 DEF Changes
<1>3. Changes(before, after, kind) = {Change(b, a, i) : i \in ids}
  BY DEF Changes
<1> HIDE DEF ids, a, b
<1>4. \A i : Mirror(Change(b, a, i)) = Change(a, b, i)
  BY DEF Mirror, Change
<1>5. Mirrored({Change(b, a, i) : i \in ids}) =
        {Mirror(Change(b, a, i)) : i \in ids}
  BY DEF Mirrored
<1>6. {Mirror(Change(b, a, i)) : i \in ids} = {Change(a, b, i) : i \in ids}
  BY <1>4
<1> QED
  BY <1>2, <1>3, <1>5, <1>6

LEMMA DeltasAreOpposite == OppositeDeltas
<1>1. \A kind \in Kinds :
        Compare(latest, admitted).changes[Opposite[kind]] =
          Mirrored(Compare(admitted, latest).changes[kind])
  <2> SUFFICES ASSUME NEW kind \in Kinds
               PROVE  Compare(latest, admitted).changes[Opposite[kind]] =
                        Mirrored(Compare(admitted, latest).changes[kind])
    OBVIOUS
  <2>1. Opposite[kind] \in Kinds
    BY DEF Opposite, Kinds
  <2>2. /\ Compare(latest, admitted).changes[Opposite[kind]] =
             Changes(latest, admitted, Opposite[kind])
        /\ Compare(admitted, latest).changes[kind] =
             Changes(admitted, latest, kind)
    BY <2>1 DEF Compare
  <2> QED
    BY <2>2, ChangesAreMirrored
<1>2. Comparable(latest, admitted) <=> Comparable(admitted, latest)
  BY DEF Comparable
<1>3. ScoresCompared(latest, admitted) <=> ScoresCompared(admitted, latest)
  BY <1>2 DEF ScoresCompared
<1>4. /\ Compare(latest, admitted).comparable = Comparable(latest, admitted)
      /\ Compare(admitted, latest).comparable = Comparable(admitted, latest)
  BY DEF Compare
<1>5. Comparable(latest, admitted) = Comparable(admitted, latest)
  BY <1>2 DEF Comparable
<1>6. /\ Compare(latest, admitted).scoreFrom = Compare(admitted, latest).scoreTo
      /\ Compare(latest, admitted).scoreTo = Compare(admitted, latest).scoreFrom
  BY <1>3 DEF Compare
<1> QED
  BY <1>1, <1>4, <1>5, <1>6 DEF OppositeDeltas

\* Whatever two statements are compared, the two directions agree.
THEOREM DirectionsAgree == DriftSpec => []OppositeDeltas
<1> QED
  BY DeltasAreOpposite, PTL
=============================================================================
