------------------------------ MODULE SpecGen ------------------------------
(***************************************************************************)
(* scripts/specgen: the JSON Schema of a Go struct, by reflection.         *)
(*                                                                         *)
(* typeSchema calls itself for the type of every field and keeps what it   *)
(* knows of a struct in a map, defs, that all the calls share.  The stack  *)
(* here holds the calls that are inside a struct; a step takes one field.  *)
(*                                                                         *)
(* A Go type is a basic kind, or "struct" and a name, within pointers,     *)
(* slices and maps (wraps, the outermost first); table gives each struct   *)
(* its fields.  A schema says what it is, within arrays and maps (layers). *)
(***************************************************************************)
EXTENDS Integers, Sequences, FiniteSets

CONSTANTS
  Tables,   \* the tables of struct types to start from
  Root,     \* the struct to describe
  Fixed,    \* of a struct, the fields with a schema of their own, and that
  MaxDepth  \* bound on the depth of the calls, out of reach

ASSUME SpecGenAssumption ==
  /\ MaxDepth \in Nat
  /\ \A types \in Tables :
       /\ IsFiniteSet(DOMAIN types) /\ Root \in DOMAIN types
       /\ \A name \in DOMAIN types :
            LET fields == types[name]
            IN  /\ Len(fields) \in Nat /\ DOMAIN fields = 1..Len(fields)
                /\ \A i \in DOMAIN fields :
                     fields[i].t.kind = "struct" =>
                       fields[i].t.name \in DOMAIN types
                /\ \A i, j \in DOMAIN fields :
                     fields[i].name = fields[j].name => i = j
  /\ \A name \in DOMAIN Fixed :
       \A member \in DOMAIN Fixed[name] : Fixed[name][member].is # "ref"

VARIABLES
  table,   \* the fields of each struct type, in order
  defs,    \* definitions so far
  stack,   \* calls of typeSchema that are inside a struct
  failed   \* a type has no schema

genVars == <<table, defs, stack, failed>>

Basic(kind) == [wraps |-> << >>, kind |-> kind, name |-> ""]
Struct(name) == [wraps |-> << >>, kind |-> "struct", name |-> name]
Wrapped(wrap, t) ==
  [wraps |-> <<wrap>> \o t.wraps, kind |-> t.kind, name |-> t.name]
PointerTo(t) == Wrapped("pointer", t)
SliceOf(t) == Wrapped("slice", t)
MapOf(t) == Wrapped("map", t)

\* Fields with what their tag says; "-" stands for an unexported field too.
Tagged(name, t, tag) == [name |-> name, t |-> t, tag |-> tag]
Field(name, t) == Tagged(name, t, {})
Optional(name, t) == Tagged(name, t, {"omitempty"})
Hidden(name, t) == Tagged(name, t, {"-"})

\* Fault: integers are described with the floats.
JSONTypeNumber == [string |-> "string", bool |-> "boolean", int |-> "number",
                   byte |-> "number", float |-> "number", time |-> "date-time"]

\* What reflection sees as the type of a basic value.
JSONType == [string |-> "string", bool |-> "boolean", int |-> "integer",
             byte |-> "integer", float |-> "number", time |-> "date-time"]

\* Pointers leave no trace in a schema.
IsLayer(wrap) == wrap # "pointer"

\* The schema of a type whose struct, if it has one, is defined.
TypeSchema(t) ==
  [layers |-> SelectSeq(t.wraps, IsLayer),
   is |-> IF t.kind = "struct" THEN "ref" ELSE JSONType[t.kind],
   name |-> t.name]

HasSchema(t) == t.kind = "struct" \/ t.kind \in DOMAIN JSONType

\* A definition that is under way (nil), and one that is stored.
Reserved == [is |-> "reserved"]
Object(properties, required) ==
  [is |-> "object", properties |-> properties, required |-> required]

Frame(name, next, properties, required) ==
  [name |-> name, next |-> next, properties |-> properties,
   required |-> required]

Top == stack[Len(stack)]
Fields == table[Top.name]
Here == Fields[Top.next]
InField == stack # << >> /\ ~failed /\ Top.next <= Len(Fields)

IsHidden(f) == "-" \in f.tag
IsFixed(name, f) == name \in DOMAIN Fixed /\ f.name \in DOMAIN Fixed[name]

\* The field is described by its type.
Reflected == InField /\ ~IsHidden(Here) /\ ~IsFixed(Top.name, Here)

\* Fault: a struct that is not complete is described again.
KnownComplete(name) == name \in DOMAIN defs /\ defs[name] # Reserved

\* Described, or being described.
Known(name) == name \in DOMAIN defs

\* Fault: what may be empty is required as well.
DescribedAll(frame, f, schema) ==
  Frame(frame.name, frame.next + 1,
        [p \in DOMAIN frame.properties \cup {f.name} |->
           IF p = f.name THEN schema ELSE frame.properties[p]],
        frame.required \cup {f.name})

\* The struct with one more field described.
Described(frame, f, schema) ==
  Frame(frame.name, frame.next + 1,
        [p \in DOMAIN frame.properties \cup {f.name} |->
           IF p = f.name THEN schema ELSE frame.properties[p]],
        IF "omitempty" \in f.tag THEN frame.required
                                 ELSE frame.required \cup {f.name})

Describe(schema) ==
  /\ stack' = [stack EXCEPT ![Len(stack)] = Described(Top, Here, schema)]
  /\ UNCHANGED <<table, defs, failed>>

-----------------------------------------------------------------------------

GenInit ==
  /\ table \in Tables
  /\ defs = [name \in {Root} |-> Reserved]
  /\ stack = <<Frame(Root, 1, << >>, {})>>
  /\ failed = FALSE

\* Unexported, or tagged "-".
Skip ==
  /\ InField /\ IsHidden(Here)
  /\ stack' = [stack EXCEPT ![Len(stack)] =
       Frame(Top.name, Top.next + 1, Top.properties, Top.required)]
  /\ UNCHANGED <<table, defs, failed>>

\* A constant or an enumeration stands for the field's type.
UseFixed ==
  /\ InField /\ ~IsHidden(Here) /\ IsFixed(Top.name, Here)
  /\ Describe(Fixed[Top.name][Here.name])

Reflect ==
  /\ Reflected /\ HasSchema(Here.t)
  /\ Here.t.kind = "struct" => Known(Here.t.name)
  /\ Describe(TypeSchema(Here.t))

\* Fault: the type is described first, and then replaced.
EnterFixed ==
  /\ InField /\ ~IsHidden(Here)
  /\ Here.t.kind = "struct" /\ ~Known(Here.t.name)
  /\ Len(stack) < MaxDepth
  /\ defs' = [name \in DOMAIN defs \cup {Here.t.name} |->
                IF name = Here.t.name THEN Reserved ELSE defs[name]]
  /\ stack' = Append(stack, Frame(Here.t.name, 1, << >>, {}))
  /\ UNCHANGED <<table, failed>>

\* A struct not seen before: its name is reserved, and it comes first.
Enter ==
  /\ Reflected
  /\ Here.t.kind = "struct" /\ ~Known(Here.t.name)
  /\ Len(stack) < MaxDepth
  /\ defs' = [name \in DOMAIN defs \cup {Here.t.name} |->
                IF name = Here.t.name THEN Reserved ELSE defs[name]]
  /\ stack' = Append(stack, Frame(Here.t.name, 1, << >>, {}))
  /\ UNCHANGED <<table, failed>>

\* A channel, a function: fail exits, and nothing is written.
Refuse ==
  /\ Reflected /\ ~HasSchema(Here.t)
  /\ failed' = TRUE
  /\ UNCHANGED <<table, defs, stack>>

\* Fault: a struct that requires nothing is not stored.
CompleteRequired ==
  /\ stack # << >> /\ ~failed /\ Top.next > Len(Fields)
  /\ defs' = IF Top.required = {} THEN defs ELSE
       [defs EXCEPT ![Top.name] = Object(Top.properties, Top.required)]
  /\ stack' = SubSeq(stack, 1, Len(stack) - 1)
  /\ UNCHANGED <<table, failed>>

\* The definition is stored, and the caller's field can be described.
Complete ==
  /\ stack # << >> /\ ~failed /\ Top.next > Len(Fields)
  /\ defs' = [defs EXCEPT ![Top.name] = Object(Top.properties, Top.required)]
  /\ stack' = SubSeq(stack, 1, Len(stack) - 1)
  /\ UNCHANGED <<table, failed>>

GenNext == Skip \/ UseFixed \/ Reflect \/ Enter \/ Refuse \/ Complete

GenSpec == GenInit /\ [][GenNext]_genVars

Generated == stack = << >>

-----------------------------------------------------------------------------

GenTypeOK ==
  /\ \A name \in DOMAIN defs :
       /\ name \in DOMAIN table
       /\ defs[name] = Reserved \/ defs[name].is = "object"
  /\ \A i \in DOMAIN stack :
       /\ stack[i].name \in DOMAIN table
       /\ stack[i].next \in 1..(Len(table[stack[i].name]) + 1)
       /\ stack[i].required \subseteq DOMAIN stack[i].properties
  /\ failed \in BOOLEAN

\* The definitions that an object's members, or their parts, refer to.
Refs(object) ==
  {object.properties[p].name :
     p \in {q \in DOMAIN object.properties : object.properties[q].is = "ref"}}

\* When the schema is written, every definition in it is whole and every
\* reference of it leads to one, in whatever circles the types refer to each
\* other: nothing is left of the reservations that stop the recursion.
ReferencesResolve ==
  Generated => \A name \in DOMAIN defs :
                 defs[name] # Reserved /\ Refs(defs[name]) \subseteq DOMAIN defs

\* The fields of a struct that encoding/json writes.
Shown(name) == {i \in DOMAIN table[name] : ~IsHidden(table[name][i])}

\* The structs that a struct's definition has to refer to: those of the fields
\* that encoding/json writes and that have no schema of their own.
Leads(name) ==
  {table[name][i].t.name :
     i \in {k \in Shown(name) : /\ ~IsFixed(name, table[name][k])
                                /\ table[name][k].t.kind = "struct"}}
References == UNION {{name} \X Leads(name) : name \in DOMAIN table}

Closed(set, references) ==
  Root \in set /\ \A r \in references : r[1] \in set => r[2] \in set

\* What is in every closed set is what can be reached from the root.
Reached ==
  LET references == References
      closed == {set \in SUBSET DOMAIN table : Closed(set, references)}
  IN  {name \in DOMAIN table : \A set \in closed : name \in set}

\* The definitions are those of the types that a document can contain, none
\* missing and none besides: not the type behind a constant or a hidden field.
DefinesWhatIsReached == Generated => DOMAIN defs = Reached

\* No struct is described inside its own description, however the types refer
\* to each other: a definition under way is one call's alone.
NeverReentered ==
  \A i, j \in DOMAIN stack : stack[i].name = stack[j].name => i = j

\* The calls never go deeper than there are structs begun, and so no deeper
\* than there are struct types: what keeps the recursion finite (typeSchema).
DepthBounded == Len(stack) <= Cardinality(DOMAIN defs)

\* The schema of a field of the struct of the given name.
SchemaFor(name, f) ==
  IF IsFixed(name, f) THEN Fixed[name][f.name] ELSE TypeSchema(f.t)

\* What a definition says is its struct's affair alone: exactly the members
\* that encoding/json writes, each with its field's schema, and as required
\* those that omitempty never leaves out, whatever other structs were described
\* between two of its fields and from wherever it was come to first.
DefinitionsAreTheirTypes ==
  Generated =>
    \A name \in DOMAIN defs :
      LET fields == {table[name][i] : i \in Shown(name)}
      IN  /\ DOMAIN defs[name].properties = {f.name : f \in fields}
          /\ \A f \in fields : defs[name].properties[f.name] = SchemaFor(name, f)
          /\ defs[name].required =
               {f.name : f \in {g \in fields : "omitempty" \notin g.tag}}

\* A struct that typeSchema comes to for the first time is one that none of its
\* open calls is inside of: it never goes deeper than there are struct types, so
\* a MaxDepth of as many refuses no call.
DepthSuffices ==
  Reflected /\ Here.t.kind = "struct" /\ ~Known(Here.t.name) =>
    Len(stack) < Cardinality(DOMAIN table)

\* What is left to do: structs to begin, calls to return from, fields to
\* describe in the innermost of them.
Unbegun == Cardinality(DOMAIN table \ DOMAIN defs)
FieldsLeft == IF Generated THEN 0 ELSE Len(Fields) + 1 - Top.next

\* Whatever step the generator takes, less is left to do than before, where a
\* struct begun outweighs the call that it opens, and a call that returns the
\* fields that its caller still has: no circle of types keeps it going.
GeneratorGetsOn ==
  [][\/ Unbegun' < Unbegun
     \/ Unbegun' = Unbegun /\ Len(stack') < Len(stack)
     \/ /\ Unbegun' = Unbegun /\ Len(stack') = Len(stack)
        /\ FieldsLeft' < FieldsLeft
     \/ UNCHANGED <<table, defs, stack>> /\ ~failed /\ failed'
    ]_genVars

\* "Reserve, so a recursive type terminates" (typeSchema): the generator ends,
\* with a schema or because a type has none.
GeneratorEnds == <>(Generated \/ failed)
=============================================================================
