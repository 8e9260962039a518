----------------------------- MODULE Tampering -----------------------------
(***************************************************************************)
(* One statement between its producer and its consumer.  A producer writes *)
(* it with SubjectFor; then its fields are edited, one at a time and with  *)
(* no knowledge of one another, as a text editor would.  The edits are the *)
(* statement's surroundings, not the package's code; what the package      *)
(* promises is what Validate and Covers still let through.                 *)
(***************************************************************************)
EXTENDS Attestation

CONSTANTS VerdictLists,  \* the verdicts a statement may be given
          MaxEdits       \* bound on the edits made to it

ASSUME TamperingAssumption ==
  /\ MaxEdits \in Nat
  /\ \A vs \in VerdictLists :
       vs \in Seq([id : STRING, phase : STRING, status : STRING])

VARIABLES st, edits

tamperingVars == <<st, edits>>

Targets == [transport : TransportText, endpoint : Text]

TamperingTypeOK == st \in Statement /\ edits \in 0..MaxEdits

\* What a run measures: a server of one of the two kinds, at an endpoint that
\* is not blank, with at least one verdict and each verdict named and ranked.
Producible(t, verdicts) ==
  /\ t.transport \in {"http", "stdio"} /\ Trim[t.endpoint] # Blank
  /\ verdicts # << >>
  /\ \A i \in DOMAIN verdicts :
       verdicts[i].id # "" /\ verdicts[i].status \in Statuses

Produced(t, verdicts) ==
  [header |-> HeaderFields, subject |-> <<SubjectFor(t)>>, target |-> t,
   rubric |-> TRUE, score |-> NoScore, verdicts |-> verdicts,
   counts |-> Counted(verdicts)]

TamperingInit ==
  /\ \E t \in Targets, verdicts \in VerdictLists :
       Producible(t, verdicts) /\ st = Produced(t, verdicts)
  /\ edits = 0

EditName ==
  \E name \in Text, i \in DOMAIN st.subject :
    st' = [st EXCEPT !.subject[i].name = name]

EditDigest ==
  \E d \in Digests \cup {NoDigest}, i \in DOMAIN st.subject :
    st' = [st EXCEPT !.subject[i].sha256 = d]

AddSubject ==
  \E t \in Targets : st' = [st EXCEPT !.subject = Append(@, SubjectFor(t))]

EditTarget == \E t \in Targets : st' = [st EXCEPT !.target = t]

\* The digest is taken again, of the target as it now stands.
DigestAgain ==
  \E i \in DOMAIN st.subject :
    st' = [st EXCEPT !.subject[i].sha256 = Digest(st.target)]

EditVerdicts == \E vs \in VerdictLists : st' = [st EXCEPT !.verdicts = vs]

Recount == st' = [st EXCEPT !.counts = Counted(st.verdicts)]

DropHeader == \E f \in HeaderFields : st' = [st EXCEPT !.header = @ \ {f}]

TamperingNext ==
  /\ edits < MaxEdits
  /\ edits' = edits + 1
  /\ \/ EditName \/ EditDigest \/ AddSubject \/ EditTarget
     \/ DigestAgain \/ EditVerdicts \/ Recount \/ DropHeader

TamperingSpec == TamperingInit /\ [][TamperingNext]_tamperingVars

-----------------------------------------------------------------------------

\* A statement that validates and covers a server describes that server: its
\* predicate, its digest and its displayed name agree on it, whatever was
\* edited (Validate, Covers).
CoveredIsDescribed ==
  \A transport \in TransportText, endpoint \in Text :
    Validate(st) /\ Covers(st, transport, endpoint)
      => Describes(st, transport, endpoint)

\* What a producer writes validates (the comment on SubjectFor); and whatever is
\* edited after that, a statement that still validates covers the server its
\* predicate names, blanks around the endpoint apart, and covers no other one:
\* not one that differs in its transport only, nor one of another endpoint
\* (Validate, Covers, descriptor).
CoversItsOwn ==
  /\ edits = 0 => Validate(st)
  /\ Validate(st) =>
       \A transport \in TransportText, endpoint \in Text :
         Covers(st, transport, endpoint) <=>
           /\ transport = st.target.transport
           /\ Trim[endpoint] = Trim[st.target.endpoint]

\* A statement that validates does not hide a verdict: its counts are those
\* of verdicts that all have an id and a status, so the totals a policy gates
\* on cannot be edited apart from them (Validate).
CountsAccountForVerdicts ==
  Validate(st) =>
    /\ Len(st.verdicts) > 0
    /\ \A status \in Statuses :
         st.counts[status] =
           Cardinality({i \in DOMAIN st.verdicts : st.verdicts[i].status = status})
    /\ {st.verdicts[i].status : i \in DOMAIN st.verdicts} \subseteq Statuses
=============================================================================
