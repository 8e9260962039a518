------------------------------- MODULE Schema -------------------------------
(***************************************************************************)
(* The two readers of a statement file: a validator with the JSON Schema   *)
(* that specgen derives from the Go types, and Parse, which decodes into   *)
(* those types and validates.  Documents come from Marshal, or from        *)
(* producers of their own (here: one member away from Marshal's).          *)
(*                                                                         *)
(* A Go value is a string, a number, Nil, a sequence, or a function of its *)
(* keys or fields; what it is is said by its type.  A JSON value carries   *)
(* its kind, and of a number the spelling, where a reader tells them apart. *)
(***************************************************************************)
EXTENDS SpecGen, Attestation, TLC

CONSTANTS
  Nil,         \* a nil pointer, slice or map
  Bad,         \* what does not decode
  Times,       \* strings that are RFC 3339 times
  ParsedTimes, \* the ones of them that time.Parse takes: not a leap second
  CaseVariants, \* member names that are a field's but for their case
  ZeroTime,    \* the one of them that IsZero
  Statements,  \* values a producer marshals
  Sampled,     \* the ones other producers start from
  NoDocument   \* nothing written yet

VARIABLES
  statement,  \* what Marshal was given
  document,   \* the file
  altered     \* it is not what Marshal wrote

schemaVars == <<table, defs, stack, failed, statement, document, altered>>

-----------------------------------------------------------------------------
(* The types of the attestation package.                                   *)

StringType == Basic("string")
IntType == Basic("int")
FloatType == Basic("float")

\* A slice of bytes to reflection, JSON of its own to encoding/json.
RawMessage == SliceOf(Basic("byte"))

StatementTypes ==
  [Statement |-> <<
     Field("_type", StringType), Field("subject", SliceOf(Struct("Subject"))),
     Field("predicateType", StringType), Field("predicate", Struct("Evaluation"))>>,
   Subject |-> <<Field("name", StringType), Field("digest", MapOf(StringType))>>,
   Evaluation |-> <<
     Field("subjectKind", StringType), Field("target", Struct("Target")),
     Field("judgedAgainst", Struct("Basis")),
     Field("instrument", Struct("Instrument")),
     Field("ranAt", Basic("time")), Field("took", StringType),
     Field("verdicts", SliceOf(Struct("Verdict"))),
     Field("counts", Struct("Counts")),
     Optional("score", PointerTo(Struct("Score"))),
     Optional("blocked", StringType), Optional("traceId", StringType),
     Optional("plan", PointerTo(Struct("Plan")))>>,
   Plan |-> <<
     Field("spec", RawMessage), Field("credentials", StringType),
     Optional("credentialsByValue", SliceOf(StringType)),
     Field("os", StringType), Field("arch", StringType), Optional("kernel", StringType)>>,
   Target |-> <<
     Field("transport", StringType), Field("endpoint", StringType),
     Optional("server", PointerTo(Struct("ServerIdentity")))>>,
   ServerIdentity |-> <<
     Optional("name", StringType), Optional("version", StringType),
     Optional("protocolVersion", StringType)>>,
   Basis |-> <<
     Optional("specRevision", StringType), Optional("rubric", StringType),
     Optional("checkInventory", StringType)>>,
   Instrument |-> <<
     Field("name", StringType), Field("version", StringType),
     Field("reportSchemaVersion", IntType)>>,
   Verdict |-> <<
     Field("id", StringType), Field("phase", StringType), Field("status", StringType),
     Optional("severity", StringType), Optional("evidence", SliceOf(StringType)),
     Optional("doc", StringType)>>,
   Counts |-> [i \in 1..5 |->
     Field(<<"pass", "warn", "fail", "skip", "info">>[i], IntType)],
   Score |-> <<
     Field("total", FloatType), Field("grade", StringType),
     Field("categoriesAssessed", IntType), Field("categoriesTotal", IntType),
     Optional("byCategory", MapOf(FloatType))>>]

Const(value) == [layers |-> << >>, is |-> "const", value |-> value]
Enum(values) == [layers |-> << >>, is |-> "enum", values |-> values]

StatementFixed ==
  [Statement |-> [_type |-> Const("in-toto"), predicateType |-> Const("scout")],
   Evaluation |-> [subjectKind |-> Const("mcp-target-descriptor")],
   Target |-> [transport |-> Enum({"http", "stdio"})],
   Verdict |-> [status |-> Enum(Statuses)]]

-----------------------------------------------------------------------------
(* encoding/json.                                                          *)

Null == [json |-> "null"]
Str(s) == [json |-> "string", v |-> s]
Num(n) == [json |-> "number", v |-> n]

\* Numbers that are not the digits of an int: whole by their value only (7.0,
\* 7e0), beyond int64, beyond float64, and not whole.
Unusual == {"decimal", "big", "huge", "fraction"}
Spelled(kind, n) == [json |-> kind, v |-> n]
Arr(items) == [json |-> "array", items |-> items]
Obj(members) == [json |-> "object", members |-> members]

\* A type's own kind, and what it is a pointer to, a slice or a map of.
Kind(t) == IF t.wraps = << >> THEN t.kind ELSE Head(t.wraps)
Elem(t) == [t EXCEPT !.wraps = Tail(@)]

\* The type of the field with the given JSON name.
TypeOf(name, member) ==
  LET i == CHOOSE k \in DOMAIN table[name] : table[name][k].name = member
  IN  table[name][i].t

Members(name) == {table[name][i].name : i \in DOMAIN table[name]}

\* The zero value of a type.
RECURSIVE Zero(_)
Zero(t) ==
  CASE Kind(t) = "string" -> ""
    [] Kind(t) = "time" -> ZeroTime
    [] Kind(t) \in {"int", "float"} -> 0
    [] Kind(t) = "struct" -> [m \in Members(t.name) |-> Zero(TypeOf(t.name, m))]
    [] OTHER -> Nil

\* Fault: a pointer to nothing but zeros counts as empty.
EmptyZero(t, v) ==
  CASE Kind(t) = "string" -> v = ""
    [] Kind(t) \in {"int", "float"} -> v = 0
    [] Kind(t) \in {"slice", "map"} -> v = Nil \/ DOMAIN v = {}
    [] Kind(t) = "pointer" -> v = Nil \/ v = Zero(Elem(t))
    [] OTHER -> v = Nil

\* What omitempty leaves out.
Empty(t, v) ==
  CASE Kind(t) = "string" -> v = ""
    [] Kind(t) \in {"int", "float"} -> v = 0
    [] Kind(t) \in {"slice", "map"} -> v = Nil \/ DOMAIN v = {}
    [] OTHER -> v = Nil

\* The members that the JSON of a struct's value has.
Written(name, v) ==
  {f.name : f \in {g \in {table[name][i] : i \in Shown(name)} :
                 ~("omitempty" \in g.tag /\ Empty(g.t, v[g.name]))}}

RECURSIVE Encode(_, _)
Encode(t, v) ==
  CASE v = Nil -> Null
    [] v # Nil /\ t = RawMessage -> v
    [] v # Nil /\ Kind(t) = "pointer" -> Encode(Elem(t), v)
    [] v # Nil /\ Kind(t) = "slice" /\ t # RawMessage ->
         Arr([i \in DOMAIN v |-> Encode(Elem(t), v[i])])
    [] v # Nil /\ Kind(t) = "map" ->
         Obj([k \in DOMAIN v |-> Encode(Elem(t), v[k])])
    [] v # Nil /\ Kind(t) = "struct" ->
         Obj([m \in Written(t.name, v) |-> Encode(TypeOf(t.name, m), v[m])])
    [] Kind(t) \in {"string", "time"} -> Str(v)
    [] Kind(t) \in {"int", "float"} -> Num(v)

\* The members of an object that are read into a field: the one of its name and,
\* without regard to case, any other.
Named(members, field) ==
  {k \in DOMAIN members :
     k = field \/ (k \in DOMAIN CaseVariants /\ CaseVariants[k] = field)}

\* A value of type t, or Bad.  Null leaves what is there, a missing member
\* does too, and an unknown one is ignored.  An int takes digits that fit it and
\* nothing else.  Of two members that are read into one field the later counts,
\* taken to be the one of the other case; but both have to decode.
RECURSIVE Unmarshal(_, _)
Unmarshal(t, j) ==
  LET whole(values) ==
        IF \E k \in DOMAIN values : values[k] = Bad THEN Bad ELSE values
      \* The field m, from the members that are read into it.
      fieldOf(type, named, m) ==
        LET told == {k \in named : j.members[k] # Null}
        IN  IF told = {} THEN Zero(type)
            ELSE IF \E k \in told \ {m} :
                      m \in told /\ Unmarshal(type, j.members[m]) = Bad THEN Bad
            ELSE Unmarshal(type, j.members[CHOOSE k \in told :
                                             told = {m} \/ k # m])
  IN  CASE t = RawMessage -> j
        [] t # RawMessage /\ j = Null -> Zero(t)
        [] Kind(t) = "pointer" /\ j # Null -> Unmarshal(Elem(t), j)
        [] Kind(t) = "string" /\ j.json = "string" -> j.v
        [] Kind(t) = "time" /\ j.json = "string" /\ j.v \in ParsedTimes -> j.v
        [] Kind(t) = "int" /\ j.json = "number" -> j.v
        [] Kind(t) = "float" /\ j.json \in {"number", "decimal", "big", "fraction"} ->
             j.v
        [] Kind(t) = "slice" /\ j.json = "array" /\ t # RawMessage ->
             whole([i \in DOMAIN j.items |-> Unmarshal(Elem(t), j.items[i])])
        [] Kind(t) = "map" /\ j.json = "object" ->
             whole([k \in DOMAIN j.members |-> Unmarshal(Elem(t), j.members[k])])
        [] Kind(t) = "struct" /\ j.json = "object" ->
             whole([m \in Members(t.name) |->
                      fieldOf(TypeOf(t.name, m), Named(j.members, m), m)])
        [] OTHER -> Bad

-----------------------------------------------------------------------------
(* The readers.                                                            *)

\* A JSON Schema validator that asserts formats, as the one docs/verify.md names
\* does.  A number is an integer by its value, however it is spelled or large.
RECURSIVE Conforms(_, _)
Conforms(s, j) ==
  LET inner == [s EXCEPT !.layers = Tail(@)]
  IN  IF s.layers # << >>
      THEN IF Head(s.layers) = "slice"
           THEN j.json = "array" /\ \A i \in DOMAIN j.items :
                                      Conforms(inner, j.items[i])
           ELSE j.json = "object" /\ \A k \in DOMAIN j.members :
                                       Conforms(inner, j.members[k])
      ELSE CASE s.is = "const" -> j = Str(s.value)
             [] s.is = "enum" -> j.json = "string" /\ j.v \in s.values
             [] s.is = "string" -> j.json = "string"
             [] s.is = "date-time" -> j.json = "string" /\ j.v \in Times
             [] s.is = "integer" -> j.json \in {"number"} \cup (Unusual \ {"fraction"})
             [] s.is = "number" -> j.json \in {"number"} \cup Unusual
             [] s.is = "ref" ->
                  LET object == defs[s.name]
                  IN  /\ j.json = "object"
                      /\ object.required \subseteq DOMAIN j.members
                      /\ \A m \in DOMAIN object.properties \cap DOMAIN j.members :
                           Conforms(object.properties[m], j.members[m])

\* What Validate and Covers look at in a statement.
Seen(v) ==
  LET p == v.predicate
      right == [_type |-> v._type = "in-toto",
                predicateType |-> v.predicateType = "scout",
                subjectKind |-> p.subjectKind = "mcp-target-descriptor",
                instrument |-> p.instrument.name # "" /\ p.instrument.version # "",
                ranAt |-> p.ranAt # ZeroTime,
                checkInventory |-> p.judgedAgainst.checkInventory # ""]
      items(slice) == IF slice = Nil THEN << >> ELSE slice
      sha256(d) == IF d = Nil \/ "sha256" \notin DOMAIN d \/ d.sha256 = ""
                   THEN NoDigest ELSE d.sha256
  IN  [header |-> {f \in HeaderFields : right[f]},
       subject |-> [i \in DOMAIN items(v.subject) |->
                      [name |-> v.subject[i].name,
                       sha256 |-> sha256(v.subject[i].digest)]],
       target |-> [transport |-> p.target.transport,
                   endpoint |-> p.target.endpoint],
       rubric |-> p.judgedAgainst.rubric # "",
       score |-> IF p.score = Nil THEN NoScore ELSE p.score.total,
       verdicts |-> [i \in DOMAIN items(p.verdicts) |->
                       [id |-> p.verdicts[i].id, phase |-> p.verdicts[i].phase,
                        status |-> p.verdicts[i].status]],
       counts |-> p.counts]

Decoded == Unmarshal(Struct(Root), document)
AcceptedBySchema == Conforms(TypeSchema(Struct(Root)), document)
AcceptedByParse == Decoded # Bad /\ Validate(Seen(Decoded))

-----------------------------------------------------------------------------

SchemaInit ==
  GenInit /\ statement = Nil /\ document = NoDocument /\ altered = FALSE

Generate == GenNext /\ UNCHANGED <<statement, document, altered>>

Marshal(s) == Encode(Struct(Root), s)

\* A producer marshals a statement of its making.
Produce ==
  /\ table = StatementTypes /\ Generated /\ document = NoDocument
  /\ \E s \in Statements : statement' = s /\ document' = Marshal(s)
  /\ UNCHANGED <<genVars, altered>>

Replacements == {Null, Num(7), Arr(<<Num(7)>>), Obj([other |-> Str("other")])}
                  \cup {Spelled(kind, 7) : kind \in Unusual}
                  \cup {Str(s) : s \in {"other"} \cup (Times \ ParsedTimes)}

\* Members that an object may be given: unknown ones, and those of a field again.
Additions(members) ==
  {"other" :> Null}
  \cup {k :> r : k \in {n \in DOMAIN CaseVariants :
                         CaseVariants[n] \in DOMAIN members},
                r \in Replacements}

\* The documents with one member, at any depth, left out, replaced or added.
RECURSIVE Alterations(_)
Alterations(j) ==
  CASE j.json = "object" ->
         {Obj([m \in DOMAIN j.members \ {n} |-> j.members[m]]) :
            n \in DOMAIN j.members}
         \cup {Obj(more @@ j.members) : more \in Additions(j.members)}
         \cup UNION {{Obj([j.members EXCEPT ![n] = r]) :
                        r \in Replacements \cup Alterations(j.members[n])} :
                     n \in DOMAIN j.members}
    [] j.json = "array" ->
         UNION {{Arr([j.items EXCEPT ![i] = r]) :
                   r \in Replacements \cup Alterations(j.items[i])} :
                i \in DOMAIN j.items}
    [] OTHER -> {}

Alter ==
  /\ document # NoDocument /\ ~altered /\ statement \in Sampled
  /\ altered' = TRUE
  /\ document' \in Alterations(document)
  /\ UNCHANGED <<genVars, statement>>

SchemaNext == Generate \/ Produce \/ Alter

\* The generator is one goroutine that runs.
SchemaSpec ==
  SchemaInit /\ [][SchemaNext]_schemaVars /\ WF_schemaVars(Generate)

-----------------------------------------------------------------------------

Marshalled == document # NoDocument /\ ~altered

\* "A consumer validating by schema and one validating by this package agree"
\* (SECURITY.md) on what Marshal writes of a statement without a plan: when
\* Parse accepts it, so does the schema that was derived from the types.
PlainStatementsConform ==
  (Marshalled /\ statement.predicate.plan = Nil /\ AcceptedByParse)
    => AcceptedBySchema

\* What is read is what was written: the decoded statement is judged as the
\* marshalled one, and marshals to the same document, with its plan, its
\* opaque run specification and all that omitempty leaves out.
MarshalRoundTrips ==
  Marshalled => /\ Decoded # Bad
                /\ Seen(Decoded) = Seen(statement)
                /\ Marshal(Decoded) = document

\* A document as Go would spell it: whole numbers in digits that fit an int, no
\* member of another case than its field's, no leap second.
RECURSIVE Plain(_)
Plain(j) ==
  CASE j.json \in Unusual \ {"fraction"} -> Num(j.v)
    [] j.json = "string" /\ j.v \in Times \ ParsedTimes -> Str(ZeroTime)
    [] j.json = "array" -> Arr([i \in DOMAIN j.items |-> Plain(j.items[i])])
    [] j.json = "object" ->
         Obj([m \in DOMAIN j.members \ DOMAIN CaseVariants |-> Plain(j.members[m])])
    [] OTHER -> j

\* A document that conforms to the schema decodes, or would if it were spelled
\* plainly: a file that a consumer who validates by schema lets through, and the
\* package cannot read, has nothing else wrong with it than such a spelling, and
\* no member missing or of another type (specgen, Parse).
PlainlyConformingDecodes ==
  (document # NoDocument /\ AcceptedBySchema) =>
    Unmarshal(Struct(Root), Plain(document)) # Bad

\* The same agreement for every statement that a producer writes.
ValidStatementsConform == (Marshalled /\ AcceptedByParse) => AcceptedBySchema
=============================================================================
