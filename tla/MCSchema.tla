------------------------------ MODULE MCSchema ------------------------------
(* The real types, and tables of three struct types that refer to each     *)
(* other in every way: directly (by pointer), in a slice or a map, or by a *)
(* field with a fixed schema or one that is hidden.  Then statements about *)
(* one server: what may be missing from one is, by itself and together     *)
(* with what else may be.                                                  *)
EXTENDS Schema

MCRoot == "Statement"

Referring == {Basic("string")}
               \cup {PointerTo(Struct(n)) : n \in {"Statement", "Target"}}
               \cup {SliceOf(Struct("Target")), MapOf(PointerTo(Struct("Basis")))}

\* _type has a schema of its own in a Statement, and in no other struct.
Firsts == {Field("_type", t) : t \in Referring}
            \cup {Hidden("first", PointerTo(Struct("Basis")))}
Seconds == {Field("next", t) : t \in Referring}
             \cup {Optional("next", MapOf(SliceOf(Struct("Basis")))),
                   Field("next", Basic("func")),
                   Hidden("next", PointerTo(Struct("Basis")))}

MCTables ==
  {StatementTypes}
  \cup {[Statement |-> <<f, g>>, Target |-> <<h, k>>, Basis |-> c] :
          f \in Firsts, g \in Seconds, h \in Firsts, k \in Seconds,
          c \in {<< >>, <<Field("back", PointerTo(Struct("Statement")))>>,
                 <<Optional("self", SliceOf(Struct("Basis")))>>}}
StatementTable == {StatementTypes}

MCText == {"", "alpha", " alpha ", "other"}
MCTrim == [t \in MCText |-> IF t = " alpha " THEN "alpha" ELSE t]
MCSha256 == [d \in Descriptors |-> d[1] \o "/" \o d[2]]
MCDecode == << >>
\* The last one is a leap second, which RFC 3339 has.
MCTimes == {"0001-01-01", "2026-07-01", "2016-12-31T23:59:60Z"}
MCParsedTimes == {"0001-01-01", "2026-07-01"}
MCCaseVariants == [Pass |-> "pass", Took |-> "took", Total |-> "total"]

Of(endpoint, server) ==
  [transport |-> "http", endpoint |-> endpoint, server |-> server]

Silent == [name |-> "", version |-> "", protocolVersion |-> ""]
Servers == {Nil, Silent, [Silent EXCEPT !.name = "alpha"]}

One(evidence, severity) ==
  [id |-> "p1", phase |-> "protocol", status |-> "pass", severity |-> severity,
   evidence |-> evidence, doc |-> ""]
Verdicts == {<<One(Nil, "")>>, <<One(<< >>, "high")>>,
             <<One(<<"other">>, ""), One(Nil, "low")>>}

Rated(total, grade, by) ==
  [total |-> total, grade |-> grade, categoriesAssessed |-> 0,
   categoriesTotal |-> 0, byCategory |-> by]
Scores == {Nil, Rated(0, "", Nil), Rated(80, "A", [auth |-> 80])}

Planned(spec, byValue) ==
  [spec |-> spec, credentials |-> "none", credentialsByValue |-> byValue,
   os |-> "linux", arch |-> "amd64", kernel |-> ""]
Plans == {Nil, Planned(Nil, << >>), Planned(Obj([tools |-> Arr(<< >>)]), <<"token">>)}

SubjectOf(target) ==
  [name |-> target.endpoint,
   digest |-> [sha256 |-> Sha256[<<target.transport, Trim[target.endpoint]>>]]]

Made(target, subject, rubric, verdicts, score, plan, took) ==
  [_type |-> "in-toto", subject |-> subject, predicateType |-> "scout",
   predicate |->
     [subjectKind |-> "mcp-target-descriptor", target |-> target,
      judgedAgainst |-> [specRevision |-> "", rubric |-> rubric,
                         checkInventory |-> "1"],
      instrument |-> [name |-> "scout", version |-> "1",
                      reportSchemaVersion |-> 1],
      ranAt |-> "2026-07-01", took |-> took, verdicts |-> verdicts,
      counts |-> [pass |-> Len(verdicts), warn |-> 0, fail |-> 0, skip |-> 0,
                  info |-> 0],
      score |-> score, blocked |-> "", traceId |-> took, plan |-> plan]]

\* Those without a subject, or with a score and no rubric, Validate refuses.
MCMade ==
  {Made(t, s, r, vs, score, plan, took) :
     t \in {Of("alpha", server) : server \in Servers},
     s \in {Nil, <<SubjectOf(Of(" alpha ", Nil))>>}, r \in {"", "1"},
     vs \in Verdicts, score \in Scores, plan \in Plans, took \in {"", "other"}}

Simple == Made(Of("alpha", Nil), <<SubjectOf(Of("alpha", Nil))>>, "1",
               <<One(<<"other">>, "low")>>, Nil, Nil, "1s")
MCAlterable ==
  {Simple,
   [Simple EXCEPT !.predicate.score = Rated(80, "A", [auth |-> 80])],
   [Simple EXCEPT !.predicate.target.server = [Silent EXCEPT !.name = "alpha"],
                  !.predicate.plan = Planned(Nil, <<"token">>)]}
MCStatements == MCMade \cup MCAlterable
MCNone == {}

\* Statements of a run that can be repeated.
MCPlanned == {s \in MCMade :
                s.predicate.plan # Nil /\ s.predicate.plan.spec # Nil}
=============================================================================
