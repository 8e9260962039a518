------------------------------- MODULE Policy -------------------------------
(***************************************************************************)
(* The processor's configuration and policy: what a configuration file may *)
(* say, what the policy demands of a target, and how a loaded Snapshot     *)
(* (a configuration with one entry per target) answers for a name.         *)
(*                                                                         *)
(* Backend names are numbers in sort.Strings order; 0 is the blank name.   *)
(* A configuration file's contents are an identifier in ConfigFiles.       *)
(***************************************************************************)
EXTENDS Attestation

CONSTANTS
  Names,        \* backend names: configured ones, and others calls may carry
  Methods,      \* JSON-RPC methods
  Sources,      \* attestation locations
  Scheme,       \* of a source: "file", "https", "other", or "" if it is empty
  ConfigFiles,  \* contents of the configuration file
  ConfigOf,     \* what the decoder makes of them
  NoEntry,      \* a name the table does not know (a nil entry)
  NoStatement,  \* an entry without a usable statement
  NoSnapshot    \* the store before its first successful Reload

Target == [attestation : Sources, endpoint : Text, transport : TransportText]

\* requireAttestation is a pointer: nil, or a boolean.
PolicyRecord == [minScore : Int, denyFailIn : SUBSET STRING,
                 requireAttestation : {"nil", "true", "false"}]

\* form: the file is one JSON document of the known fields, such a document
\* with more bytes after it, or neither (missing, malformed, unknown field).
Config == [form : {"document", "trailing", "unreadable"},
           targets : UNION {[ns -> Target] : ns \in SUBSET Names},
           policy : PolicyRecord, passthrough : SUBSET Methods]

Reasons == {"verified", "unreadable", "cancelled", "invalid", "does not cover"}
Entry == [statement : Bytes \cup {NoStatement}, reason : Reasons]
Snapshot == [config : ConfigFiles, entries : [Names -> Entry \cup {NoEntry}]]

ASSUME PolicyAssumption ==
  /\ Names \subseteq Nat
  /\ \A s \in Sources : Scheme[s] \in {"file", "https", "other", ""}
  /\ \A f \in ConfigFiles :
       /\ ConfigOf[f].form \in {"document", "trailing", "unreadable"}
       /\ DOMAIN ConfigOf[f].targets \subseteq Names
       /\ \A n \in DOMAIN ConfigOf[f].targets :
            ConfigOf[f].targets[n] \in Target
       /\ ConfigOf[f].policy.minScore \in Int
  /\ NoEntry \notin Entry
  /\ NoStatement \notin Bytes
  /\ NoSnapshot \notin Snapshot

-----------------------------------------------------------------------------

\* Config.Validate finds nothing unusable.
ConfigValid(c) ==
  /\ DOMAIN c.targets # {}
  /\ \A n \in DOMAIN c.targets :
       /\ n # 0
       /\ Scheme[c.targets[n].attestation] \in {"file", "https"}
       /\ c.targets[n].endpoint # Blank
       /\ c.targets[n].transport \in {"http", "stdio", ""}
  /\ c.policy.minScore \in 0..100
  /\ "" \notin c.policy.denyFailIn

\* ReadConfig succeeds.  The decoder stops after the first JSON value, so
\* bytes that follow it go unread.
ReadsConfig(f) ==
  /\ ConfigOf[f].form \in {"document", "trailing"}
  /\ ConfigValid(ConfigOf[f])

\* The transport of a target with its default applied.
TransportOf(t) == IF t.transport = "" THEN "http" ELSE t.transport

Requires(p) == p.requireAttestation # "false"

Unscored(p, st) == p.minScore > 0 /\ st.score = NoScore
BelowMinimum(p, st) ==
  p.minScore > 0 /\ st.score # NoScore /\ st.score < p.minScore

\* Fault: only the first verdict of an id counts.
FailingInIndex(p, verdicts) ==
  {i \in DOMAIN verdicts :
     /\ verdicts[i].status = "fail" /\ verdicts[i].phase \in p.denyFailIn
     /\ \A j \in 1..(i - 1) : verdicts[j].id # verdicts[i].id}

\* The verdicts that fail in a denied category.  Every verdict counts, the
\* later ones of a family id included.
FailingIn(p, verdicts) ==
  {i \in DOMAIN verdicts :
     verdicts[i].status = "fail" /\ verdicts[i].phase \in p.denyFailIn}

\* Why a verified statement does not satisfy the policy, or "passes".
Judge(p, st) ==
  IF Unscored(p, st) THEN "no score"
  ELSE IF BelowMinimum(p, st) THEN "below the minimum"
  ELSE IF FailingIn(p, st.verdicts) # {} THEN "failing checks"
       ELSE "passes"

Usable(e) == e # NoEntry /\ e.statement # NoStatement

\* The policy's decision on one entry.
Evaluate(p, e) ==
  IF Usable(e)
  THEN LET verdict == Judge(p, Decode[e.statement])
       IN  [allow |-> verdict = "passes", cause |-> verdict,
            score |-> Decode[e.statement].score]
  ELSE [allow |-> ~Requires(p),
        cause |-> IF e = NoEntry THEN "not configured" ELSE "unusable",
        score |-> NoScore]

-----------------------------------------------------------------------------

Decide(sn, name) ==
  Evaluate(ConfigOf[sn.config].policy,
           IF name \in Names THEN sn.entries[name] ELSE NoEntry)

Passthrough(sn, method) == method \in ConfigOf[sn.config].passthrough

\* The score a passing target contributes to the result's metadata.
ScoreOf(sn, name) ==
  IF Decide(sn, name).score = NoScore
  THEN {} ELSE {<<name, Decide(sn, name).score>>}

\* Why a call may be denied.
Causes == {"no score", "below the minimum", "failing checks",
           "not configured", "unusable"}

\* The three answers CheckRequest gives.
Pass(scores) == [result |-> "pass", scores |-> scores]
Deny(name, cause) == [result |-> "deny", target |-> name, cause |-> cause]
Unavailable == [result |-> "unavailable"]

-----------------------------------------------------------------------------
(* What is asked of tables and answers, in the terms of their promises.    *)

\* The statement vouches for the server the table's own configuration names:
\* it parses and validates, and predicate and displayed name are about that
\* server.
Vouches(file, n, e) ==
  LET t == ConfigOf[file].targets[n]
  IN  /\ Parses(e.statement)
      /\ Describes(Decode[e.statement], TransportOf(t), t.endpoint)

\* Every usable entry belongs to a configured name and vouches for it.
TableSound(file, entries) ==
  \A n \in Names :
    Usable(entries[n]) => /\ n \in DOMAIN ConfigOf[file].targets
                          /\ Vouches(file, n, entries[n])

\* The configuration validates; its targets, and nothing else, have entries.
TableComplete(file, entries) ==
  /\ ConfigValid(ConfigOf[file])
  /\ \A n \in Names :
       entries[n] # NoEntry <=> n \in DOMAIN ConfigOf[file].targets

Denied(sn, targets) == {i \in DOMAIN targets : ~Decide(sn, targets[i]).allow}

\* The answer one table gives to one request: every named backend has to
\* pass, and the first that does not denies the call.
Answer(sn, method, targets) ==
  IF sn = NoSnapshot THEN Unavailable
  ELSE IF Passthrough(sn, method) THEN Pass({})
  ELSE IF Denied(sn, targets) = {}
  THEN Pass(UNION {ScoreOf(sn, targets[i]) : i \in DOMAIN targets})
  ELSE LET first == CHOOSE i \in Denied(sn, targets) :
                      \A j \in Denied(sn, targets) : i <= j
       IN  Deny(targets[first], Decide(sn, targets[first]).cause)
=============================================================================
