-------------------------- MODULE TamperingProofs --------------------------
(***************************************************************************)
(* Whatever is edited, however often: statements stay statements, so what  *)
(* AttestationProofs shows of each of them holds in every state.           *)
(***************************************************************************)
EXTENDS Tampering, AttestationProofs, FiniteSetTheorems, SequenceTheorems

Subject == [name : Text, sha256 : Digests \cup {NoDigest}]

LEMMA SubjectForType ==
  ASSUME NEW t \in Targets
  PROVE  SubjectFor(t) \in Subject
  BY DescriptorType DEF Targets, Subject, SubjectFor, Digest, Digests

LEMMA DigestType == ASSUME NEW t \in Targets PROVE Digest(t) \in Digests
  BY DescriptorType DEF Targets, Digest, Digests

\* A statement stays one when an element of its subject is replaced.
LEMMA ReplaceSubject ==
  ASSUME NEW s \in Statement, NEW i \in DOMAIN s.subject, NEW sub \in Subject
  PROVE  [s EXCEPT !.subject = [s.subject EXCEPT ![i] = sub]] \in Statement
<1>1. s.subject \in Seq(Subject)
  BY DEF Statement, Subject
<1>2. [s.subject EXCEPT ![i] = sub] \in Seq(Subject)
  BY <1>1
<1> QED
  BY <1>2 DEF Statement, Subject

LEMMA SubjectElement ==
  ASSUME NEW s \in Statement, NEW i \in DOMAIN s.subject
  PROVE  s.subject[i] \in Subject
<1>1. s.subject \in Seq(Subject)
  BY DEF Statement, Subject
<1> QED
  BY <1>1

Verdicts == Seq([id : STRING, phase : STRING, status : STRING])

\* Totals of a sequence are natural numbers.
LEMMA CountedType ==
  ASSUME NEW vs \in Verdicts
  PROVE  Counted(vs) \in [Statuses -> Nat]
<1>1. ASSUME NEW status \in Statuses
      PROVE  Cardinality({i \in DOMAIN vs :
                            vs[i].id # "" /\ vs[i].status = status}) \in Nat
  <2> DEFINE I == {i \in DOMAIN vs : vs[i].id # "" /\ vs[i].status = status}
  <2>1. Len(vs) \in Nat /\ DOMAIN vs = 1..Len(vs)
    BY DEF Verdicts
  <2>2. IsFiniteSet(1..Len(vs))
    BY <2>1, FS_Interval
  <2>3. IsFiniteSet(I)
    BY <2>1, <2>2, FS_Subset
  <2> QED
    BY <2>3, FS_CardinalityType
<1> QED
  BY <1>1 DEF Counted

LEMMA ProducedType ==
  ASSUME NEW t \in Targets, NEW vs \in Verdicts
  PROVE  Produced(t, vs) \in Statement
<1>1. <<SubjectFor(t)>> \in Seq(Subject)
  BY SubjectForType
<1>2. t \in [transport : TransportText, endpoint : Text]
  BY DEF Targets
<1> QED
  BY <1>1, <1>2, CountedType DEF Produced, Statement, Subject, Verdicts

LEMMA VerdictListsType == ASSUME NEW vs \in VerdictLists PROVE vs \in Verdicts
  BY TamperingAssumption DEF Verdicts

LEMMA TamperingTypeInit == TamperingInit => TamperingTypeOK
<1> SUFFICES ASSUME TamperingInit PROVE TamperingTypeOK
  OBVIOUS
<1>1. PICK t \in Targets, vs \in VerdictLists : st = Produced(t, vs)
  BY DEF TamperingInit
<1>2. st \in Statement
  BY <1>1, VerdictListsType, ProducedType
<1> QED
  BY <1>2, TamperingAssumption DEF TamperingInit, TamperingTypeOK

LEMMA TamperingTypeStep ==
  TamperingTypeOK /\ [TamperingNext]_tamperingVars => TamperingTypeOK'
<1> SUFFICES ASSUME TamperingTypeOK, [TamperingNext]_tamperingVars
             PROVE  TamperingTypeOK'
  OBVIOUS
<1>1. CASE TamperingNext
  <2>1. edits' \in 0..MaxEdits
    BY <1>1, TamperingAssumption DEF TamperingTypeOK, TamperingNext
  <2>2. st' \in Statement
    <3>0. st \in Statement
      BY DEF TamperingTypeOK
    <3>1. CASE EditName
      <4>1. PICK name \in Text, i \in DOMAIN st.subject :
              st' = [st EXCEPT !.subject[i].name = name]
        BY <3>1 DEF EditName
      <4> DEFINE sub == [st.subject[i] EXCEPT !.name = name]
      <4>2. sub \in Subject
        BY <3>0, SubjectElement DEF Subject
      <4>3. st' = [st EXCEPT !.subject = [st.subject EXCEPT ![i] = sub]]
        BY <4>1
      <4> QED
        BY <3>0, <4>2, <4>3, ReplaceSubject
    <3>2. CASE EditDigest
      <4>1. PICK d \in Digests \cup {NoDigest}, i \in DOMAIN st.subject :
              st' = [st EXCEPT !.subject[i].sha256 = d]
        BY <3>2 DEF EditDigest
      <4> DEFINE sub == [st.subject[i] EXCEPT !.sha256 = d]
      <4>2. sub \in Subject
        BY <3>0, SubjectElement DEF Subject
      <4>3. st' = [st EXCEPT !.subject = [st.subject EXCEPT ![i] = sub]]
        BY <4>1
      <4> QED
        BY <3>0, <4>2, <4>3, ReplaceSubject
    <3>3. CASE AddSubject
      <4>1. PICK t \in Targets :
              st' = [st EXCEPT !.subject = Append(@, SubjectFor(t))]
        BY <3>3 DEF AddSubject
      <4>2. Append(st.subject, SubjectFor(t)) \in Seq(Subject)
        BY <3>0, SubjectForType DEF Statement, Subject
      <4> QED
        BY <3>0, <4>1, <4>2 DEF Statement, Subject
    <3>4. CASE EditTarget
      BY <3>0, <3>4 DEF EditTarget, Targets, Statement
    <3>5. CASE DigestAgain
      <4>1. PICK i \in DOMAIN st.subject :
              st' = [st EXCEPT !.subject[i].sha256 = Digest(st.target)]
        BY <3>5 DEF DigestAgain
      <4> DEFINE sub == [st.subject[i] EXCEPT !.sha256 = Digest(st.target)]
      <4>2. Digest(st.target) \in Digests
        BY <3>0, DigestType DEF Statement, Targets
      <4>3. sub \in Subject
        BY <3>0, <4>2, SubjectElement DEF Subject
      <4>4. st' = [st EXCEPT !.subject = [st.subject EXCEPT ![i] = sub]]
        BY <4>1
      <4> QED
        BY <3>0, <4>3, <4>4, ReplaceSubject
    <3>6. CASE EditVerdicts
      BY <3>0, <3>6, VerdictListsType DEF EditVerdicts, Verdicts, Statement
    <3>7. CASE Recount
      <4>1. Counted(st.verdicts) \in [Statuses -> Nat]
        BY <3>0, CountedType DEF Verdicts, Statement
      <4> QED
        BY <3>0, <3>7, <4>1 DEF Recount, Statement
    <3>8. CASE DropHeader
      BY <3>0, <3>8 DEF DropHeader, Statement
    <3> QED
      BY <1>1, <3>1, <3>2, <3>3, <3>4, <3>5, <3>6, <3>7, <3>8
         DEF TamperingNext
  <2> QED
    BY <2>1, <2>2 DEF TamperingTypeOK
<1>2. CASE UNCHANGED tamperingVars
  BY <1>2 DEF tamperingVars, TamperingTypeOK
<1> QED
  BY <1>1, <1>2

\* Every edit leaves a statement of the Go type, so the decoder's shape is all
\* that Validate and Covers may rely on.
THEOREM TamperingTypeCorrect == TamperingSpec => []TamperingTypeOK
  BY TamperingTypeInit, TamperingTypeStep, PTL DEF TamperingSpec

\* After any number of edits, a statement that validates and covers a server
\* describes it.
THEOREM TamperedStillDescribed == TamperingSpec => []CoveredIsDescribed
<1>1. TamperingTypeOK => CoveredIsDescribed
  BY ValidCoversDescribes DEF TamperingTypeOK, CoveredIsDescribed
<1> QED
  BY <1>1, TamperingTypeCorrect, PTL

\* What a producer writes with SubjectFor validates.
LEMMA ProducedValidates ==
  ASSUME NEW t \in Targets, NEW vs \in Verdicts, Producible(t, vs)
  PROVE  Validate(Produced(t, vs))
<1> DEFINE s == Produced(t, vs)
<1>1. /\ s.subject = <<SubjectFor(t)>> /\ s.target = t
      /\ s.verdicts = vs /\ s.counts = Counted(vs)
      /\ s.header = HeaderFields /\ s.rubric
  BY DEF Produced
<1>2. Digest(t) # NoDigest
  BY DigestType, DigestAssumption
<1>3. SubjectIsAbout(SubjectFor(t), t)
  BY <1>2 DEF SubjectIsAbout, SubjectFor, Producible
<1>4. Len(s.subject) = 1 /\ s.subject[1] = SubjectFor(t)
  BY <1>1
<1> QED
  BY <1>1, <1>3, <1>4 DEF Validate, Producible

ProducedOrEdited == edits = 0 => Validate(st)

\* What SubjectFor digests is what Validate and Covers recompute.
THEOREM ProducerAgreesWithConsumer == TamperingSpec => []CoversItsOwn
<1>1. TamperingInit => ProducedOrEdited
  BY VerdictListsType, ProducedValidates DEF TamperingInit, ProducedOrEdited
<1>2. TamperingTypeOK /\ ProducedOrEdited /\ [TamperingNext]_tamperingVars
        => ProducedOrEdited'
  BY DEF TamperingTypeOK, ProducedOrEdited, TamperingNext, tamperingVars
<1>3. TamperingTypeOK /\ ProducedOrEdited => CoversItsOwn
  BY ValidCoversItsOwnOnly DEF TamperingTypeOK, ProducedOrEdited, CoversItsOwn
<1> QED
  BY <1>1, <1>2, <1>3, TamperingTypeCorrect, PTL DEF TamperingSpec

\* A statement that validates counts all of its verdicts, each under its own
\* status: no verdict is without an id, so Validate's count skips none.
THEOREM EditedCountsAccount == TamperingSpec => []CountsAccountForVerdicts
<1>1. ASSUME TamperingTypeOK
      PROVE  CountsAccountForVerdicts
  <2> SUFFICES ASSUME Validate(st)
               PROVE  /\ Len(st.verdicts) > 0
                      /\ \A status \in Statuses :
                           st.counts[status] =
                             Cardinality({i \in DOMAIN st.verdicts :
                                            st.verdicts[i].status = status})
                      /\ {st.verdicts[i].status : i \in DOMAIN st.verdicts}
                           \subseteq Statuses
    BY DEF CountsAccountForVerdicts
  <2>1. /\ st.verdicts # << >>
        /\ \A i \in DOMAIN st.verdicts :
             st.verdicts[i].id # "" /\ st.verdicts[i].status \in Statuses
        /\ st.counts = Counted(st.verdicts)
    BY DEF Validate
  <2>2. st.verdicts \in Seq([id : STRING, phase : STRING, status : STRING])
    BY <1>1 DEF TamperingTypeOK, Statement
  <2>3. Len(st.verdicts) > 0
    <3>1. Len(st.verdicts) \in Nat \ {0}
      BY <2>1, <2>2, EmptySeq
    <3> QED
      BY <3>1
  <2>4. ASSUME NEW status \in Statuses
        PROVE  st.counts[status] =
                 Cardinality({i \in DOMAIN st.verdicts :
                                st.verdicts[i].status = status})
    <3>1. {i \in DOMAIN st.verdicts :
             st.verdicts[i].id # "" /\ st.verdicts[i].status = status}
            = {i \in DOMAIN st.verdicts : st.verdicts[i].status = status}
      BY <2>1
    <3>2. st.counts[status] =
            Cardinality({i \in DOMAIN st.verdicts :
              st.verdicts[i].id # "" /\ st.verdicts[i].status = status})
      BY <2>1 DEF Counted
    <3> QED
      BY <3>1, <3>2
  <2> QED
    BY <2>1, <2>3, <2>4
<1> QED
  BY <1>1, TamperingTypeCorrect, PTL
=============================================================================
