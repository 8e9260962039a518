------------------------------ MODULE Samples ------------------------------
(***************************************************************************)
(* Small data for TLC: four strings, the statement files the runs draw on  *)
(* and the configuration files they edit.                                  *)
(***************************************************************************)
EXTENDS Policy, TLC

SampleText == {"", "alpha", " alpha ", "beta"}
SampleTrim == [t \in SampleText |-> IF t = " alpha " THEN "alpha" ELSE t]
SampleSha256 == [d \in Descriptors |-> <<"sha256", d>>]

\* One verdict per check.
Good == <<[id |-> "p1", phase |-> "protocol", status |-> "pass"]>>
\* A family id whose second verdict fails, in a category of its own.
FamilyFails == <<[id |-> "a1", phase |-> "auth", status |-> "pass"],
                 [id |-> "a1", phase |-> "auth", status |-> "fail"]>>

\* The statement a producer writes about a target.
About(transport, endpoint, score, verdicts) ==
  LET t == [transport |-> transport, endpoint |-> endpoint]
  IN  [header |-> HeaderFields, subject |-> <<SubjectFor(t)>>, target |-> t,
       rubric |-> TRUE, score |-> score, verdicts |-> verdicts,
       counts |-> Counted(verdicts)]

SampleStatements ==
  [alpha       |-> About("http", "alpha", 80, Good),
   spaced      |-> About("http", " alpha ", 80, Good),
   low         |-> About("http", "alpha", 59, Good),
   edge        |-> About("http", "alpha", 60, Good),
   unscored    |-> About("http", "alpha", NoScore, Good),
   plain       |-> About("stdio", "alpha", NoScore, Good),
   failing     |-> About("http", "alpha", 90, FamilyFails),
   stdio       |-> About("stdio", "alpha", 80, Good),
   beta        |-> About("http", "beta", 60, Good),
   \* the predicate edited after the digest was taken
   edited      |-> [About("http", "alpha", 80, Good) EXCEPT
                      !.target.endpoint = "beta"],
   \* displayed as one server, digested as another
   mislabelled |-> [About("http", "alpha", 80, Good) EXCEPT
                      !.subject[1].name = "beta"]]

SampleDecode ==
  [b \in DOMAIN SampleStatements \cup {"garbage"} |->
     IF b = "garbage" THEN NotJSON ELSE SampleStatements[b]]

SampleScheme == [disk |-> "file", url |-> "https"]

Strict == [minScore |-> 60, denyFailIn |-> {"auth"},
           requireAttestation |-> "nil"]
Lenient == [minScore |-> 0, denyFailIn |-> {}, requireAttestation |-> "false"]

At(source, endpoint, transport) ==
  [attestation |-> source, endpoint |-> endpoint, transport |-> transport]

\* Configuration files of each form, with one target or two.
SampleConfigs ==
  [both     |-> [form |-> "document",
                 targets |-> (1 :> At("disk", "alpha", "")
                              @@ 2 :> At("url", "beta", "http")),
                 policy |-> Strict, passthrough |-> {"initialize"}],
   \* the same backends, the other way round
   swapped  |-> [form |-> "document",
                 targets |-> (1 :> At("url", "beta", "")
                              @@ 2 :> At("disk", " alpha ", "http")),
                 policy |-> [Strict EXCEPT !.minScore = 0],
                 passthrough |-> {}],
   rollout  |-> [form |-> "document",
                 targets |-> (1 :> At("disk", "alpha", "stdio")),
                 policy |-> Lenient, passthrough |-> {"initialize"}],
   \* two backends vouched for by one file, either way round
   pair     |-> [form |-> "document",
                 targets |-> (1 :> At("disk", "alpha", "")
                              @@ 2 :> At("disk", "beta", "")),
                 policy |-> Strict, passthrough |-> {"initialize"}],
   riap     |-> [form |-> "document",
                 targets |-> (1 :> At("disk", "beta", "")
                              @@ 2 :> At("disk", "alpha", "")),
                 policy |-> Strict, passthrough |-> {}],
   local    |-> [form |-> "document",
                 targets |-> (1 :> At("disk", "alpha", "")),
                 policy |-> Strict, passthrough |-> {}],
   remote   |-> [form |-> "document",
                 targets |-> (2 :> At("url", "alpha", "")),
                 policy |-> Strict, passthrough |-> {}],
   trailing |-> [form |-> "trailing",
                 targets |-> (1 :> At("disk", "alpha", "")),
                 policy |-> Lenient, passthrough |-> {}],
   broken   |-> [form |-> "unreadable", targets |-> << >>,
                 policy |-> Lenient, passthrough |-> {}],
   \* readable, and refused for a target without an endpoint
   refused  |-> [form |-> "document",
                 targets |-> (1 :> At("disk", "", "")),
                 policy |-> Strict, passthrough |-> {}]]
=============================================================================
