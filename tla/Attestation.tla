---------------------------- MODULE Attestation ----------------------------
(***************************************************************************)
(* The attestation package: what a statement about one MCP server carries, *)
(* and the two questions a consumer asks of it - is it well-formed         *)
(* (Validate) and is it about the server in front of me (Covers).          *)
(*                                                                         *)
(* Strings are members of the small set Text, with TrimSpace as a function *)
(* on it.  SHA-256 is an injective function on descriptors: its collision  *)
(* resistance is the one thing assumed of it.  The JSON a file holds is an *)
(* identifier in Bytes; Decode says what encoding/json makes of it.        *)
(***************************************************************************)
EXTENDS Integers, Sequences, FiniteSets

CONSTANTS
  Text,      \* strings used as an endpoint or as a subject's name
  Blank,     \* the empty string
  Trim,      \* strings.TrimSpace on Text
  Sha256,    \* hex(sha256(...)) of a descriptor
  NoDigest,  \* a digest map without a "sha256" key
  NoScore,   \* a statement whose score pointer is nil
  Bytes,     \* contents of statement files
  NotJSON,   \* what json.Unmarshal cannot decode
  Decode     \* json.Unmarshal into Statement

\* A transport is any string (here: one without a line break); only the first
\* two name one.
TransportText == {"http", "stdio", "", "other"}
Statuses == {"pass", "warn", "fail", "skip", "info"}

\* The fields that Validate compares with a constant or requires to be
\* present, one by one: a statement carries the set of those it has right.
HeaderFields == {"_type", "predicateType", "subjectKind", "instrument",
                 "ranAt", "checkInventory"}

Descriptors == TransportText \X Text
Digests == {Sha256[d] : d \in Descriptors}

Statement ==
  [header   : SUBSET HeaderFields,
   subject  : Seq([name : Text, sha256 : Digests \cup {NoDigest}]),
   target   : [transport : TransportText, endpoint : Text],
   rubric   : BOOLEAN,                    \* judgedAgainst.rubric is not empty
   score    : Int \cup {NoScore},        \* Validate sets no bounds on it
   verdicts : Seq([id : STRING, phase : STRING, status : STRING]),
   counts   : [Statuses -> Nat]]

ASSUME TextAssumption ==
  /\ Blank \in Text
  /\ Trim \in [Text -> Text]
  /\ Trim[Blank] = Blank

ASSUME DigestAssumption ==
  /\ \A d, e \in Descriptors : Sha256[d] = Sha256[e] => d = e
  /\ NoDigest \notin Digests

ASSUME DecodeAssumption ==
  /\ NoScore \notin Int
  /\ \A b \in Bytes : Decode[b] = NotJSON \/ Decode[b] \in Statement

-----------------------------------------------------------------------------

\* Fault: the transport is left out, and the endpoint alone is digested.
DescriptorOfEndpoint(t) == <<"", Trim[t.endpoint]>>

\* The canonical descriptor of a target: transport, newline, trimmed endpoint.
Descriptor(t) == <<t.transport, Trim[t.endpoint]>>

Digest(t) == Sha256[Descriptor(t)]

\* How a producer names and digests a target.
SubjectFor(t) == [name |-> t.endpoint, sha256 |-> Digest(t)]

\* Fault: only the digest is checked, so the displayed name is free.
SubjectByDigestAlone(sub, t) == sub.sha256 = Digest(t)

\* The one subject is named for, and digests, the target of the predicate.
SubjectIsAbout(sub, t) ==
  /\ Trim[sub.name] # Blank
  /\ Trim[sub.name] = Trim[t.endpoint]
  /\ sub.sha256 # NoDigest
  /\ sub.sha256 = Digest(t)

\* Fault: a duplicate id is counted once.
CountedOncePerId(verdicts) ==
  [st \in Statuses |->
     Cardinality({verdicts[i].id : i \in {j \in DOMAIN verdicts :
                    verdicts[j].id # "" /\ verdicts[j].status = st}})]

\* The verdicts with an id, totalled by status.
Counted(verdicts) ==
  [st \in Statuses |->
     Cardinality({i \in DOMAIN verdicts :
                    verdicts[i].id # "" /\ verdicts[i].status = st})]

\* No refusal applies: the conditions are independent, and Validate reports
\* every one that fails.
Validate(s) ==
  /\ HeaderFields \subseteq s.header
  /\ Len(s.subject) = 1 /\ SubjectIsAbout(s.subject[1], s.target)
  /\ Trim[s.target.endpoint] # Blank
  /\ s.target.transport \in {"http", "stdio"}
  /\ s.verdicts # << >>
  /\ s.score # NoScore => s.rubric
  /\ \A i \in DOMAIN s.verdicts :
       s.verdicts[i].id # "" /\ s.verdicts[i].status \in Statuses
  /\ s.counts = Counted(s.verdicts)

\* Parse accepts: the bytes decode and the statement validates.
Parses(b) == Decode[b] # NotJSON /\ Validate(Decode[b])

\* The statement is about the given target, by its digest alone.
Covers(s, transport, endpoint) ==
  /\ Len(s.subject) = 1
  /\ s.subject[1].sha256 =
       Digest([transport |-> transport, endpoint |-> endpoint])

\* What a consumer concludes from Validate and Covers together: predicate
\* and displayed name are both about this server.
Describes(s, transport, endpoint) ==
  /\ s.target.transport = transport
  /\ Trim[s.target.endpoint] = Trim[endpoint]
  /\ Trim[s.subject[1].name] = Trim[endpoint]
============================================================================
