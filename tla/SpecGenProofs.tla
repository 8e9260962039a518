---------------------------- MODULE SpecGenProofs ----------------------------
(***************************************************************************)
(* Proofs about the schema generator, for every table of struct types that *)
(* refer to each other in whatever way: what it writes is whole, complete, *)
(* free of what no document contains, and says of each struct what its     *)
(* fields say.                                                             *)
(***************************************************************************)
EXTENDS SpecGen, TLAPS, FiniteSetTheorems, SequenceTheorems

-----------------------------------------------------------------------------
(* The stack's three operations.                                           *)

IsSeq(s) == \E S : s \in Seq(S)

LEMMA SeqShape ==
  ASSUME NEW s, IsSeq(s)
  PROVE  /\ Len(s) \in Nat /\ DOMAIN s = 1..Len(s)
         /\ s # << >> => Len(s) \in 1..Len(s)
         /\ s = << >> <=> Len(s) = 0
<1>1. PICK S : s \in Seq(S)
  BY DEF IsSeq
<1>2. Len(s) \in Nat /\ DOMAIN s = 1..Len(s)
  BY <1>1, LenProperties
<1>3. s # << >> => Len(s) \in Nat \ {0}
  BY <1>1, EmptySeq
<1>4. Len(<< >>) = 0
  BY EmptySeq
<1> QED
  BY <1>2, <1>3, <1>4

LEMMA Push ==
  ASSUME NEW s, IsSeq(s), NEW e
  PROVE  /\ IsSeq(Append(s, e)) /\ Len(Append(s, e)) = Len(s) + 1
         /\ Append(s, e)[Len(s) + 1] = e
         /\ \A i \in 1..Len(s) : Append(s, e)[i] = s[i]
<1>1. PICK S : s \in Seq(S)
  BY DEF IsSeq
<1> DEFINE T == S \cup {e}
<1>2. s \in Seq(T) /\ e \in T
  BY <1>1, SeqMonotonic
<1> HIDE DEF T
<1>3. Append(s, e) \in Seq(T)
  BY <1>2
<1>4. /\ Len(Append(s, e)) = Len(s) + 1
      /\ Append(s, e)[Len(s) + 1] = e
      /\ \A i \in 1..Len(s) : Append(s, e)[i] = s[i]
  BY <1>2
<1> QED
  BY <1>3, <1>4 DEF IsSeq

LEMMA Replace ==
  ASSUME IsSeq(stack), stack # << >>, NEW e,
         stack' = [stack EXCEPT ![Len(stack)] = e]
  PROVE  /\ IsSeq(stack') /\ Len(stack') = Len(stack)
         /\ stack'[Len(stack)] = e
         /\ \A i \in 1..Len(stack) : i # Len(stack) => stack'[i] = stack[i]
<1>1. PICK S : stack \in Seq(S)
  BY DEF IsSeq
<1> DEFINE T == S \cup {e}
<1>2. stack \in Seq(T) /\ e \in T
  BY <1>1, SeqMonotonic
<1>3. Len(stack) \in 1..Len(stack)
  BY SeqShape
<1> HIDE DEF T
<1>4. stack' \in Seq(T) /\ Len(stack') = Len(stack)
  BY <1>2, <1>3, ExceptSeq
<1>5. /\ stack'[Len(stack)] = e
      /\ \A i \in 1..Len(stack) : i # Len(stack) => stack'[i] = stack[i]
  BY <1>2, <1>3, ExceptSeq
<1> QED
  BY <1>4, <1>5 DEF IsSeq

LEMMA Pop ==
  ASSUME NEW s, IsSeq(s), s # << >>
  PROVE  LET r == SubSeq(s, 1, Len(s) - 1)
         IN  /\ IsSeq(r) /\ Len(r) = Len(s) - 1
             /\ \A i \in 1..(Len(s) - 1) : r[i] = s[i]
<1>1. PICK S : s \in Seq(S)
  BY DEF IsSeq
<1>2. Len(s) \in Nat \ {0}
  BY SeqShape
<1>3. \A i \in 1..(Len(s) - 1) : s[i] \in S
  BY <1>1, <1>2, ElementOfSeq
<1> DEFINE n == Len(s) - 1
           r == SubSeq(s, 1, n)
<1>4. n \in Nat
  BY <1>2
<1> HIDE DEF n
<1>5. /\ r \in Seq(S)
      /\ Len(r) = IF 1 <= n THEN n - 1 + 1 ELSE 0
      /\ \A i \in 1..(n - 1 + 1) : r[i] = s[1 + i - 1]
  BY <1>3, <1>4, SubSeqProperties DEF n
<1> HIDE DEF r
<1>6. IsSeq(r) /\ Len(r) = n
  BY <1>4, <1>5 DEF IsSeq
<1>7. \A i \in 1..n : r[i] = s[i]
  BY <1>4, <1>5
<1> QED
  BY <1>6, <1>7 DEF r, n

-----------------------------------------------------------------------------
(* What the first fields of a struct say.                                  *)

ShownBefore(name, k) == {i \in Shown(name) : i < k}

\* properties and required are those of the fields before the k-th.
Tells(name, k, properties, required) ==
  /\ DOMAIN properties = {table[name][i].name : i \in ShownBefore(name, k)}
  /\ \A i \in ShownBefore(name, k) :
       properties[table[name][i].name] = SchemaFor(name, table[name][i])
  /\ required =
       {table[name][i].name :
          i \in {j \in ShownBefore(name, k) :
                   "omitempty" \notin table[name][j].tag}}

\* A field without a schema of its own has a type with one, and the struct that
\* it needs is described, or being described.
Settled(name, f) ==
  ~IsFixed(name, f) =>
    /\ HasSchema(f.t)
    /\ f.t.kind = "struct" => f.t.name \in DOMAIN defs

Resolved(name, k) ==
  \A i \in ShownBefore(name, k) : Settled(name, table[name][i])

LEMMA TableFacts ==
  ASSUME table \in Tables, NEW name \in DOMAIN table
  PROVE  /\ IsFiniteSet(DOMAIN table) /\ Root \in DOMAIN table
         /\ Len(table[name]) \in Nat
         /\ DOMAIN table[name] = 1..Len(table[name])
         /\ \A i \in DOMAIN table[name] :
              table[name][i].t.kind = "struct" =>
                table[name][i].t.name \in DOMAIN table
         /\ \A i, j \in DOMAIN table[name] :
              table[name][i].name = table[name][j].name => i = j
  BY SpecGenAssumption

LEMMA NoFieldYet ==
  ASSUME table \in Tables, NEW name \in DOMAIN table
  PROVE  Tells(name, 1, << >>, {}) /\ Resolved(name, 1)
<1>1. ShownBefore(name, 1) = {}
  BY TableFacts DEF ShownBefore, Shown
<1>2. DOMAIN << >> = {}
  OBVIOUS
<1> QED
  BY <1>1, <1>2 DEF Tells, Resolved

LEMMA ShownNext ==
  ASSUME table \in Tables, NEW name \in DOMAIN table,
         NEW k \in DOMAIN table[name]
  PROVE  ShownBefore(name, k + 1) =
           IF IsHidden(table[name][k]) THEN ShownBefore(name, k)
                                       ELSE ShownBefore(name, k) \cup {k}
<1>1. \A i \in DOMAIN table[name] : i < k + 1 <=> (i < k \/ i = k)
  BY TableFacts
<1>2. ~(k < k)
  BY TableFacts
<1>3. \A i \in Shown(name) :
        i \in DOMAIN table[name] /\ ~IsHidden(table[name][i])
  BY DEF Shown
<1>4. ~IsHidden(table[name][k]) => k \in Shown(name)
  BY DEF Shown
<1> QED
  BY <1>1, <1>3, <1>4 DEF ShownBefore

\* One more field that is not hidden.
LEMMA OneMoreTold ==
  ASSUME table \in Tables, NEW name \in DOMAIN table,
         NEW k \in DOMAIN table[name], ~IsHidden(table[name][k]),
         NEW frame, frame.name = name, frame.next = k,
         Tells(name, k, frame.properties, frame.required)
  PROVE  LET f == table[name][k]
             d == Described(frame, f, SchemaFor(name, f))
         IN  /\ d.name = name /\ d.next = k + 1
             /\ Tells(name, k + 1, d.properties, d.required)
<1> DEFINE f == table[name][k]
           schema == SchemaFor(name, f)
           d == Described(frame, f, schema)
           old == ShownBefore(name, k)
<1>1. ShownBefore(name, k + 1) = old \cup {k}
  BY ShownNext
<1>2. \A i \in old : i \in DOMAIN table[name] /\ i # k
  BY TableFacts DEF ShownBefore, Shown
<1>3. \A i \in old : table[name][i].name # f.name
  BY <1>2, TableFacts
<1> HIDE DEF schema
<1>4. /\ d.name = name /\ d.next = k + 1
      /\ d.properties = [p \in DOMAIN frame.properties \cup {f.name} |->
                           IF p = f.name THEN schema ELSE frame.properties[p]]
      /\ d.required = IF "omitempty" \in f.tag THEN frame.required
                                                ELSE frame.required \cup {f.name}
  BY DEF Described, Frame
<1> HIDE DEF d, old
<1>5. DOMAIN d.properties = {table[name][i].name : i \in old \cup {k}}
  BY <1>4 DEF Tells, old
<1>6. \A i \in old \cup {k} :
        d.properties[table[name][i].name] = SchemaFor(name, table[name][i])
  <2>1. d.properties[f.name] = schema
    BY <1>4
  <2>2. ASSUME NEW i \in old
        PROVE  d.properties[table[name][i].name] = SchemaFor(name, table[name][i])
    <3>1. /\ table[name][i].name \in DOMAIN frame.properties
          /\ frame.properties[table[name][i].name]
               = SchemaFor(name, table[name][i])
      BY <2>2 DEF Tells, old
    <3> QED
      BY <1>3, <1>4, <2>2, <3>1
  <2> QED
    BY <2>1, <2>2 DEF schema
<1>7. d.required =
        {table[name][i].name :
           i \in {j \in old \cup {k} : "omitempty" \notin table[name][j].tag}}
  BY <1>4 DEF Tells, old
<1>8. Tells(name, k + 1, d.properties, d.required)
  BY <1>1, <1>5, <1>6, <1>7 DEF Tells
<1> QED
  BY <1>4, <1>8 DEF d, schema

\* One more field that is hidden.
LEMMA OneMoreHidden ==
  ASSUME table \in Tables, NEW name \in DOMAIN table,
         NEW k \in DOMAIN table[name], IsHidden(table[name][k]),
         NEW properties, NEW required,
         Tells(name, k, properties, required), Resolved(name, k)
  PROVE  Tells(name, k + 1, properties, required) /\ Resolved(name, k + 1)
<1>1. ShownBefore(name, k + 1) = ShownBefore(name, k)
  BY ShownNext
<1> QED
  BY <1>1 DEF Tells, Resolved

LEMMA OneMoreResolved ==
  ASSUME table \in Tables, NEW name \in DOMAIN table,
         NEW k \in DOMAIN table[name], Resolved(name, k),
         Settled(name, table[name][k])
  PROVE  Resolved(name, k + 1)
<1>1. ShownBefore(name, k + 1) \subseteq ShownBefore(name, k) \cup {k}
  BY ShownNext
<1> QED
  BY <1>1 DEF Resolved

-----------------------------------------------------------------------------
(* The invariant of the generator.                                         *)

GoodFrame(f) ==
  /\ f.name \in DOMAIN defs
  /\ f.next \in 1..(Len(table[f.name]) + 1)
  /\ Tells(f.name, f.next, f.properties, f.required)
  /\ Resolved(f.name, f.next)

Done(name, d) ==
  /\ d.is = "object"
  /\ Tells(name, Len(table[name]) + 1, d.properties, d.required)
  /\ Resolved(name, Len(table[name]) + 1)

OnStack(name) == \E i \in 1..Len(stack) : stack[i].name = name

\* What is defined, is begun or done; and all of it can be reached.
Begun ==
  /\ table \in Tables
  /\ DOMAIN defs \subseteq DOMAIN table
  /\ Root \in DOMAIN defs
  /\ \A set \in SUBSET DOMAIN table :
       Closed(set, References) => DOMAIN defs \subseteq set

\* Each call has described the fields before the one it is at.
FramesGood == \A i \in 1..Len(stack) : GoodFrame(stack[i])

\* A struct is reserved as long as the one call that describes it is there.
ReservedOnStack ==
  /\ \A i, j \in 1..Len(stack) : stack[i].name = stack[j].name => i = j
  /\ \A name \in DOMAIN defs : defs[name] = Reserved <=> OnStack(name)

DoneWhole ==
  \A name \in DOMAIN defs : defs[name] # Reserved => Done(name, defs[name])

GenInvariant ==
  /\ failed \in BOOLEAN
  /\ IsSeq(stack)
  /\ Begun
  /\ FramesGood
  /\ ReservedOnStack
  /\ DoneWhole

\* What is good stays good while definitions only begin.
LEMMA FrameKept ==
  ASSUME NEW f, GoodFrame(f), table' = table, DOMAIN defs \subseteq DOMAIN defs'
  PROVE  GoodFrame(f)'
  BY DEF GoodFrame, Tells, Resolved, Settled, ShownBefore, Shown, SchemaFor

LEMMA DoneKept ==
  ASSUME NEW name, NEW d, Done(name, d), table' = table,
         DOMAIN defs \subseteq DOMAIN defs'
  PROVE  Done(name, d)'
  BY DEF Done, Tells, Resolved, Settled, ShownBefore, Shown, SchemaFor

LEMMA BegunKept ==
  ASSUME Begun, table' = table, DOMAIN defs' = DOMAIN defs
  PROVE  Begun'
<1>1. References' = References
  BY DEF References, Leads, Shown
<1> QED
  BY <1>1 DEF Begun, Closed

LEMMA GenInvariantInit == GenInit => GenInvariant
<1> SUFFICES ASSUME GenInit
             PROVE  GenInvariant
  OBVIOUS
<1> DEFINE f == Frame(Root, 1, << >>, {})
<1>1. table \in Tables /\ Root \in DOMAIN table
  BY SpecGenAssumption DEF GenInit
<1>2. DOMAIN defs = {Root} /\ defs[Root] = Reserved
  BY DEF GenInit
<1>3. stack = <<f>> /\ failed = FALSE
  BY DEF GenInit
<1>4. /\ f.name = Root /\ f.next = 1 /\ f.properties = << >>
      /\ f.required = {}
  BY DEF Frame
<1> HIDE DEF f
<1>5. GoodFrame(f)
  <2>1. Len(table[Root]) \in Nat
    BY <1>1, TableFacts
  <2>2. 1 \in 1..(Len(table[Root]) + 1)
    BY <2>1
  <2>3. Tells(Root, 1, << >>, {}) /\ Resolved(Root, 1)
    BY <1>1, NoFieldYet
  <2> QED
    BY <1>2, <1>4, <2>2, <2>3 DEF GoodFrame
<1>6. stack \in Seq({f}) /\ Len(stack) = 1 /\ stack[1] = f
  BY <1>3
<1>7. IsSeq(stack)
  BY <1>6 DEF IsSeq
<1>8. Begun
  BY <1>1, <1>2 DEF Begun, Closed
<1>9. FramesGood
  BY <1>5, <1>6 DEF FramesGood
<1>10. ReservedOnStack
  BY <1>2, <1>4, <1>6 DEF ReservedOnStack, OnStack
<1>11. DoneWhole
  BY <1>2 DEF DoneWhole
<1> QED
  BY <1>3, <1>7, <1>8, <1>9, <1>10, <1>11 DEF GenInvariant

\* The struct whose fields are being described.
LEMMA TopFacts ==
  ASSUME GenInvariant, stack # << >>
  PROVE  /\ Len(stack) \in 1..Len(stack)
         /\ GoodFrame(Top)
         /\ Top.name \in DOMAIN defs /\ Top.name \in DOMAIN table
         /\ Len(Fields) \in Nat /\ DOMAIN Fields = 1..Len(Fields)
         /\ Top.next \in 1..(Len(Fields) + 1)
         /\ Top.next <= Len(Fields) => Top.next \in DOMAIN Fields
<1>1. Len(stack) \in 1..Len(stack)
  BY SeqShape DEF GenInvariant
<1>2. GoodFrame(Top)
  BY <1>1 DEF GenInvariant, FramesGood, Top
<1>3. Top.name \in DOMAIN defs /\ Top.name \in DOMAIN table
  BY <1>2 DEF GoodFrame, GenInvariant, Begun
<1>4. Len(Fields) \in Nat /\ DOMAIN Fields = 1..Len(Fields)
  BY <1>3, TableFacts DEF GenInvariant, Begun, Fields
<1>5. Top.next \in 1..(Len(Fields) + 1)
  BY <1>2 DEF GoodFrame, Fields
<1> QED
  BY <1>1, <1>2, <1>3, <1>4, <1>5

\* A step that only moves the top call on to its next field.
LEMMA TopMovesOn ==
  ASSUME GenInvariant, stack # << >>, NEW f, f.name = Top.name, GoodFrame(f),
         stack' = [stack EXCEPT ![Len(stack)] = f],
         UNCHANGED <<table, defs, failed>>
  PROVE  GenInvariant'
<1>1. /\ IsSeq(stack') /\ Len(stack') = Len(stack)
      /\ stack'[Len(stack)] = f
      /\ \A i \in 1..Len(stack) : i # Len(stack) => stack'[i] = stack[i]
  <2>1. IsSeq(stack)
    BY DEF GenInvariant
  <2> QED
    BY <2>1, Replace
<1>2. \A i \in 1..Len(stack) : stack'[i].name = stack[i].name
  BY <1>1 DEF Top
<1>3. FramesGood'
  BY <1>1, FrameKept DEF GenInvariant, FramesGood
<1>4. ReservedOnStack'
  <2>1. \A name : OnStack(name)' <=> OnStack(name)
    BY <1>1, <1>2 DEF OnStack
  <2>2. \A i, j \in 1..Len(stack') : stack'[i].name = stack'[j].name => i = j
    BY <1>1, <1>2 DEF GenInvariant, ReservedOnStack
  <2> QED
    BY <2>1, <2>2 DEF GenInvariant, ReservedOnStack
<1>5. DoneWhole'
  BY DoneKept DEF GenInvariant, DoneWhole
<1>6. Begun'
  BY BegunKept DEF GenInvariant
<1> QED
  BY <1>1, <1>3, <1>4, <1>5, <1>6 DEF GenInvariant

\* The field at hand, described by what it says.
LEMMA TopDescribes ==
  ASSUME GenInvariant, InField, ~IsHidden(Here),
         Describe(SchemaFor(Top.name, Here)),
         Settled(Top.name, Here)
  PROVE  GenInvariant'
<1> DEFINE f == Described(Top, Here, SchemaFor(Top.name, Here))
           name == Top.name
           k == Top.next
<1>1. /\ table \in Tables /\ name \in DOMAIN table /\ k \in DOMAIN table[name]
      /\ Len(table[name]) \in Nat /\ k \in 1..Len(table[name])
      /\ GoodFrame(Top) /\ stack # << >>
  BY TopFacts DEF GenInvariant, Begun, InField, Fields
<1>2. Here = table[name][k]
  BY DEF Here, Fields
<1>3. /\ f.name = name /\ f.next = k + 1
      /\ Tells(name, k + 1, f.properties, f.required)
  BY <1>1, <1>2, OneMoreTold DEF GoodFrame
<1>4. Resolved(name, k + 1)
  BY <1>1, <1>2, OneMoreResolved DEF GoodFrame
<1>5. /\ stack' = [stack EXCEPT ![Len(stack)] = f]
      /\ UNCHANGED <<table, defs, failed>>
  BY DEF Describe
<1> HIDE DEF f
<1>6. GoodFrame(f)
  BY <1>1, <1>3, <1>4 DEF GoodFrame
<1> QED
  BY <1>1, <1>3, <1>5, <1>6, TopMovesOn

LEMMA SkipStep == ASSUME GenInvariant, Skip PROVE GenInvariant'
<1> DEFINE f == Frame(Top.name, Top.next + 1, Top.properties, Top.required)
           name == Top.name
           k == Top.next
<1>1. /\ table \in Tables /\ name \in DOMAIN table /\ k \in DOMAIN table[name]
      /\ Len(table[name]) \in Nat /\ k \in 1..Len(table[name])
      /\ GoodFrame(Top) /\ stack # << >>
  BY TopFacts DEF GenInvariant, Begun, Skip, InField, Fields
<1>2. IsHidden(table[name][k])
  BY DEF Skip, Here, Fields
<1>3. /\ f.name = name /\ f.next = k + 1
      /\ f.properties = Top.properties /\ f.required = Top.required
  BY DEF Frame
<1>4. /\ Tells(name, k + 1, Top.properties, Top.required)
      /\ Resolved(name, k + 1)
  BY <1>1, <1>2, OneMoreHidden DEF GoodFrame
<1>5. /\ stack' = [stack EXCEPT ![Len(stack)] = f]
      /\ UNCHANGED <<table, defs, failed>>
  BY DEF Skip
<1> HIDE DEF f
<1>6. GoodFrame(f)
  BY <1>1, <1>3, <1>4 DEF GoodFrame
<1> QED
  BY <1>1, <1>3, <1>5, <1>6, TopMovesOn

LEMMA UseFixedStep == ASSUME GenInvariant, UseFixed PROVE GenInvariant'
<1>1. /\ InField /\ ~IsHidden(Here) /\ IsFixed(Top.name, Here)
      /\ Describe(Fixed[Top.name][Here.name])
  BY DEF UseFixed
<1>2. /\ SchemaFor(Top.name, Here) = Fixed[Top.name][Here.name]
      /\ Settled(Top.name, Here)
  BY <1>1 DEF SchemaFor, Settled
<1> QED
  BY <1>1, <1>2, TopDescribes

LEMMA ReflectStep == ASSUME GenInvariant, Reflect PROVE GenInvariant'
<1>1. /\ InField /\ ~IsHidden(Here) /\ ~IsFixed(Top.name, Here)
      /\ Settled(Top.name, Here)
      /\ Describe(TypeSchema(Here.t))
  BY DEF Reflect, Reflected, Known, Settled
<1>2. SchemaFor(Top.name, Here) = TypeSchema(Here.t)
  BY <1>1 DEF SchemaFor
<1> QED
  BY <1>1, <1>2, TopDescribes

\* What the field at hand refers to.
LEMMA EnteredFacts ==
  ASSUME GenInvariant, Enter
  PROVE  /\ Here.t.name \in DOMAIN table
         /\ Here.t.name \notin DOMAIN defs
         /\ <<Top.name, Here.t.name>> \in References
<1> DEFINE name == Top.name
           k == Top.next
<1>1. /\ InField /\ ~IsHidden(Here) /\ ~IsFixed(name, Here)
      /\ Here.t.kind = "struct" /\ Here.t.name \notin DOMAIN defs
  BY DEF Enter, Reflected, Known
<1>2. /\ table \in Tables /\ name \in DOMAIN table /\ k \in DOMAIN table[name]
      /\ Here = table[name][k]
  BY <1>1, TopFacts DEF GenInvariant, Begun, InField, Here, Fields
<1>3. Here.t.name \in DOMAIN table
  BY <1>1, <1>2, TableFacts
<1>4. k \in Shown(name)
  BY <1>1, <1>2 DEF Shown
<1>5. Here.t.name \in Leads(name)
  BY <1>1, <1>2, <1>4 DEF Leads
<1>6. <<name, Here.t.name>> \in References
  BY <1>2, <1>5 DEF References
<1> QED
  BY <1>1, <1>3, <1>6

LEMMA EnterStep == ASSUME GenInvariant, Enter PROVE GenInvariant'
<1>m. PICK m : m = Here.t.name
  OBVIOUS
<1>f. PICK f : f = Frame(m, 1, << >>, {})
  OBVIOUS
<1>1. /\ m \in DOMAIN table /\ m \notin DOMAIN defs
      /\ <<Top.name, m>> \in References
  BY <1>m, EnteredFacts
<1>2. table \in Tables /\ Top.name \in DOMAIN defs
  BY TopFacts DEF GenInvariant, Begun, Enter, Reflected, InField
<1>3. /\ defs' = [name \in DOMAIN defs \cup {m} |->
                    IF name = m THEN Reserved ELSE defs[name]]
      /\ stack' = Append(stack, f)
      /\ UNCHANGED <<table, failed>>
  BY <1>m, <1>f DEF Enter
<1>4. /\ f.name = m /\ f.next = 1 /\ f.properties = << >> /\ f.required = {}
  BY <1>f DEF Frame
<1>5. /\ DOMAIN defs' = DOMAIN defs \cup {m}
      /\ defs'[m] = Reserved
      /\ \A name \in DOMAIN defs : defs'[name] = defs[name]
  BY <1>1, <1>3
<1>6. /\ IsSeq(stack') /\ Len(stack') = Len(stack) + 1
      /\ stack'[Len(stack) + 1] = f
      /\ \A i \in 1..Len(stack) : stack'[i] = stack[i]
      /\ Len(stack) \in Nat
  BY <1>3, Push, SeqShape DEF GenInvariant
<1>7. \A i \in 1..Len(stack') : i \in 1..Len(stack) \/ i = Len(stack) + 1
  BY <1>6
<1>8. GoodFrame(f)'
  <2>1. /\ Tells(m, 1, << >>, {})' /\ Resolved(m, 1)'
    <3>1. Tells(m, 1, << >>, {}) /\ Resolved(m, 1)
      BY <1>1, <1>2, NoFieldYet
    <3> QED
      BY <1>3, <1>5, <3>1
         DEF Tells, Resolved, Settled, ShownBefore, Shown, SchemaFor
  <2>2. Len(table[m]) \in Nat
    BY <1>1, <1>2, TableFacts
  <2> QED
    BY <1>3, <1>4, <1>5, <2>1, <2>2 DEF GoodFrame
<1>9. FramesGood'
  <2>1. ASSUME NEW i \in 1..Len(stack)
        PROVE  GoodFrame(stack[i])'
    <3>1. PICK g : g = stack[i]
      OBVIOUS
    <3>2. GoodFrame(g)
      BY <2>1, <3>1 DEF GenInvariant, FramesGood
    <3>3. GoodFrame(g)'
      BY <1>3, <1>5, <3>2, FrameKept
    <3> QED
      BY <1>6, <2>1, <3>1, <3>3
  <2> QED
    BY <1>6, <1>7, <1>8, <2>1 DEF FramesGood
<1>10. ReservedOnStack'
  <2>1. \A i \in 1..Len(stack) : stack'[i].name \in DOMAIN defs
    BY <1>6 DEF GenInvariant, FramesGood, GoodFrame
  <2>2. \A i, j \in 1..Len(stack') : stack'[i].name = stack'[j].name => i = j
    BY <1>1, <1>4, <1>6, <1>7, <2>1 DEF GenInvariant, ReservedOnStack
  <2>3. OnStack(m)'
    BY <1>4, <1>6 DEF OnStack
  <2>4. \A name \in DOMAIN defs : OnStack(name)' <=> OnStack(name)
    BY <1>1, <1>4, <1>6, <1>7 DEF OnStack
  <2> QED
    BY <1>5, <2>2, <2>3, <2>4 DEF GenInvariant, ReservedOnStack
<1>11. DoneWhole'
  BY <1>3, <1>5, DoneKept DEF GenInvariant, DoneWhole
<1>12. Begun'
  <2>1. References' = References
    BY <1>3 DEF References, Leads, Shown
  <2>2. ASSUME NEW set \in SUBSET DOMAIN table, Closed(set, References)
        PROVE  DOMAIN defs' \subseteq set
    <3>1. DOMAIN defs \subseteq set
      BY <2>2 DEF GenInvariant, Begun
    <3>2. m \in set
      BY <1>1, <1>2, <2>2, <3>1 DEF Closed
    <3> QED
      BY <1>5, <3>1, <3>2
  <2> QED
    BY <1>1, <1>3, <1>5, <2>1, <2>2 DEF GenInvariant, Begun, Closed
<1> QED
  BY <1>3, <1>6, <1>9, <1>10, <1>11, <1>12 DEF GenInvariant

LEMMA RefuseStep == ASSUME GenInvariant, Refuse PROVE GenInvariant'
<1>1. failed' \in BOOLEAN /\ UNCHANGED <<table, defs, stack>>
  BY DEF Refuse
<1>2. Begun'
  BY <1>1, BegunKept DEF GenInvariant
<1>3. FramesGood'
  BY <1>1, FrameKept DEF GenInvariant, FramesGood
<1>4. ReservedOnStack'
  BY <1>1 DEF GenInvariant, ReservedOnStack, OnStack
<1>5. DoneWhole'
  BY <1>1, DoneKept DEF GenInvariant, DoneWhole
<1> QED
  BY <1>1, <1>2, <1>3, <1>4, <1>5 DEF GenInvariant

LEMMA CompleteStep == ASSUME GenInvariant, Complete PROVE GenInvariant'
<1>m. PICK m : m = Top.name
  OBVIOUS
<1>d. PICK d : d = Object(Top.properties, Top.required)
  OBVIOUS
<1>n. PICK n : n = Len(stack)
  OBVIOUS
<1>1. /\ stack # << >> /\ Top.next > Len(Fields)
      /\ defs' = [defs EXCEPT ![m] = d]
      /\ stack' = SubSeq(stack, 1, n - 1)
      /\ UNCHANGED <<table, failed>>
  BY <1>m, <1>d, <1>n DEF Complete
<1>2. /\ n \in 1..n /\ n \in Nat /\ m \in DOMAIN defs
      /\ Top.next = Len(table[m]) + 1 /\ GoodFrame(Top)
      /\ stack[n].name = m
  BY <1>1, <1>m, <1>n, TopFacts, SeqShape DEF GenInvariant, Fields, Top
<1>3. d.is = "object" /\ d.properties = Top.properties
      /\ d.required = Top.required /\ d # Reserved
  BY <1>d DEF Object, Reserved
<1>4. Done(m, d)
  BY <1>m, <1>2, <1>3 DEF GoodFrame, Done
<1>5. /\ DOMAIN defs' = DOMAIN defs
      /\ defs'[m] = d
      /\ \A name \in DOMAIN defs : name # m => defs'[name] = defs[name]
  BY <1>1, <1>2
<1>6. /\ IsSeq(stack') /\ Len(stack') = n - 1
      /\ \A i \in 1..(n - 1) : stack'[i] = stack[i]
  BY <1>1, <1>n, Pop DEF GenInvariant
<1>7. \A i \in 1..(n - 1) : i \in 1..n /\ i # n
  BY <1>2
<1>8. \A i \in 1..n : i \in 1..(n - 1) \/ i = n
  BY <1>2
<1>9. FramesGood'
  <2> SUFFICES ASSUME NEW i \in 1..(n - 1)
               PROVE  GoodFrame(stack[i])'
    BY <1>6 DEF FramesGood
  <2>1. PICK g : g = stack[i]
    OBVIOUS
  <2>2. GoodFrame(g)
    BY <1>n, <1>7, <2>1 DEF GenInvariant, FramesGood
  <2>3. GoodFrame(g)'
    BY <1>1, <1>5, <2>2, FrameKept
  <2> QED
    BY <1>6, <2>1, <2>3
<1>10. ReservedOnStack'
  <2>1. \A i, j \in 1..n : stack[i].name = stack[j].name => i = j
    BY <1>n DEF GenInvariant, ReservedOnStack
  <2>2. \A i, j \in 1..(n - 1) : stack'[i].name = stack'[j].name => i = j
    BY <1>6, <1>7, <2>1
  <2>3. ~ \E i \in 1..(n - 1) : stack'[i].name = m
    BY <1>2, <1>6, <1>7, <2>1
  <2>4. \A name \in DOMAIN defs :
          name # m => (OnStack(name) <=> \E i \in 1..(n - 1) : stack'[i].name = name)
    BY <1>n, <1>2, <1>6, <1>7, <1>8 DEF OnStack
  <2>5. \A name : OnStack(name)' <=> \E i \in 1..(n - 1) : stack'[i].name = name
    BY <1>6 DEF OnStack
  <2>6. \A name \in DOMAIN defs : defs'[name] = Reserved <=> OnStack(name)'
    BY <1>3, <1>5, <2>3, <2>4, <2>5 DEF GenInvariant, ReservedOnStack
  <2> QED
    BY <1>5, <1>6, <2>2, <2>6 DEF ReservedOnStack
<1>11. DoneWhole'
  <2>1. Done(m, d)'
    BY <1>1, <1>4, <1>5, DoneKept
  <2>2. ASSUME NEW name \in DOMAIN defs, name # m, defs[name] # Reserved
        PROVE  Done(name, defs[name])'
    <3>1. PICK e : e = defs[name]
      OBVIOUS
    <3>2. Done(name, e)'
      BY <1>1, <1>5, <2>2, <3>1, DoneKept DEF GenInvariant, DoneWhole
    <3> QED
      BY <1>5, <2>2, <3>1, <3>2
  <2> QED
    BY <1>5, <2>1, <2>2 DEF DoneWhole
<1>12. Begun'
  BY <1>1, <1>5, BegunKept DEF GenInvariant
<1> QED
  BY <1>1, <1>6, <1>9, <1>10, <1>11, <1>12 DEF GenInvariant

LEMMA GenInvariantStep == GenInvariant /\ [GenNext]_genVars => GenInvariant'
<1> SUFFICES ASSUME GenInvariant, [GenNext]_genVars
             PROVE  GenInvariant'
  OBVIOUS
<1>1. CASE UNCHANGED genVars
  BY <1>1, BegunKept, FrameKept, DoneKept
     DEF genVars, GenInvariant, FramesGood, ReservedOnStack, OnStack, DoneWhole
<1> QED
  BY <1>1, SkipStep, UseFixedStep, ReflectStep, EnterStep, RefuseStep,
     CompleteStep DEF GenNext

LEMMA GenInvariantHolds == GenSpec => []GenInvariant
  BY GenInvariantInit, GenInvariantStep, PTL DEF GenSpec

-----------------------------------------------------------------------------
(* What the invariant says of the calls, and of what is written.           *)

\* Whatever the types are, every definition is of one of them, and a call's
\* place is among its struct's fields or at their end (typeSchema).
THEOREM GeneratorTypes == GenSpec => []GenTypeOK
<1>1. ASSUME GenInvariant
      PROVE  GenTypeOK
  <2>1. ASSUME NEW name \in DOMAIN defs
        PROVE  name \in DOMAIN table
               /\ (defs[name] = Reserved \/ defs[name].is = "object")
    BY <1>1 DEF GenInvariant, Begun, DoneWhole, Done
  <2>2. ASSUME NEW i \in DOMAIN stack
        PROVE  /\ stack[i].name \in DOMAIN table
               /\ stack[i].next \in 1..(Len(table[stack[i].name]) + 1)
               /\ stack[i].required \subseteq DOMAIN stack[i].properties
    <3>1. GoodFrame(stack[i])
      BY <1>1, SeqShape DEF GenInvariant, FramesGood
    <3>2. stack[i].required \subseteq DOMAIN stack[i].properties
      BY <3>1 DEF GoodFrame, Tells
    <3> QED
      BY <1>1, <3>1, <3>2 DEF GenInvariant, Begun, GoodFrame
  <2> QED
    BY <1>1, <2>1, <2>2 DEF GenInvariant, GenTypeOK
<1> QED
  BY <1>1, GenInvariantHolds, PTL

\* A struct is never described while it is being described, however the types
\* refer to each other: what the reservation in defs is for (typeSchema).
THEOREM GeneratorNeverReenters == GenSpec => []NeverReentered
<1>1. GenInvariant => NeverReentered
  BY SeqShape DEF GenInvariant, ReservedOnStack, NeverReentered
<1> QED
  BY <1>1, GenInvariantHolds, PTL

\* The calls are inside different structs.
LEMMA DepthWithin ==
  ASSUME GenInvariant
  PROVE  /\ IsFiniteSet(DOMAIN table) /\ IsFiniteSet(DOMAIN defs)
         /\ DOMAIN defs \subseteq DOMAIN table
         /\ Len(stack) \in Nat /\ Len(stack) <= Cardinality(DOMAIN defs)
<1>1. Len(stack) \in Nat
  BY SeqShape DEF GenInvariant
<1> DEFINE calls == 1..Len(stack)
           names == [i \in calls |-> stack[i].name]
<1>2. IsFiniteSet(DOMAIN table) /\ DOMAIN defs \in SUBSET DOMAIN table
  BY SpecGenAssumption DEF GenInvariant, Begun
<1>3. IsFiniteSet(DOMAIN defs)
  BY <1>2, FS_Subset
<1>4. names \in [calls -> DOMAIN defs]
  BY DEF GenInvariant, FramesGood, GoodFrame
<1>5. \A i, j \in calls : names[i] = names[j] => i = j
  BY DEF GenInvariant, ReservedOnStack
<1>6. names \in Injection(calls, DOMAIN defs)
  BY <1>4, <1>5 DEF Injection, IsInjective
<1>7. Cardinality(calls) <= Cardinality(DOMAIN defs)
  BY <1>3, <1>6, FS_Injection
<1>8. Cardinality(calls) = Len(stack)
  BY <1>1, FS_Interval
<1> QED
  BY <1>1, <1>2, <1>3, <1>7, <1>8

\* The recursion is never deeper than there are structs it has begun, each of
\* them a struct type, of which there are finitely many (typeSchema).
THEOREM GeneratorDepthBounded == GenSpec => []DepthBounded
<1>1. GenInvariant => DepthBounded
  BY DepthWithin DEF DepthBounded
<1> QED
  BY <1>1, GenInvariantHolds, PTL

\* A struct that is come to for the first time is not one of those begun.
LEMMA RoomForOneMore ==
  ASSUME GenInvariant, NEW m \in DOMAIN table, m \notin DOMAIN defs
  PROVE  /\ Cardinality(DOMAIN defs) < Cardinality(DOMAIN table)
         /\ Cardinality(DOMAIN table \ (DOMAIN defs \cup {m})) < Unbegun
<1>1. /\ IsFiniteSet(DOMAIN table) /\ IsFiniteSet(DOMAIN defs)
      /\ DOMAIN defs \subseteq DOMAIN table
  BY DepthWithin
<1> DEFINE left == DOMAIN table \ DOMAIN defs
           rest == DOMAIN table \ (DOMAIN defs \cup {m})
<1>2. IsFiniteSet(left) /\ IsFiniteSet(rest)
  BY <1>1, FS_Difference
<1>3. left = rest \cup {m} /\ m \notin rest
  OBVIOUS
<1>4. Cardinality(left) = Cardinality(rest) + 1
  BY <1>2, <1>3, FS_AddElement
<1>5. Cardinality(rest) \in Nat
  BY <1>2, FS_CardinalityType
<1>6. /\ Cardinality(left) = Cardinality(DOMAIN table) - Cardinality(DOMAIN defs)
      /\ Cardinality(DOMAIN table) \in Nat /\ Cardinality(DOMAIN defs) \in Nat
  <2>1. DOMAIN table \cap DOMAIN defs = DOMAIN defs
    BY <1>1
  <2> QED
    BY <1>1, <2>1, FS_Difference, FS_CardinalityType
<1> QED
  BY <1>4, <1>5, <1>6 DEF Unbegun

\* The bound on the depth is out of reach once it allows a call per struct
\* type: a call that is needed is made (typeSchema, which has no bound).
THEOREM GeneratorDepthSuffices == GenSpec => []DepthSuffices
<1>1. ASSUME GenInvariant
      PROVE  DepthSuffices
  <2> SUFFICES ASSUME Reflected, Here.t.kind = "struct", ~Known(Here.t.name)
               PROVE  Len(stack) < Cardinality(DOMAIN table)
    BY DEF DepthSuffices
  <2>1. Here.t.name \in DOMAIN table \ DOMAIN defs
    <3>1. /\ table \in Tables /\ Top.name \in DOMAIN table
          /\ Top.next \in DOMAIN table[Top.name]
          /\ Here = table[Top.name][Top.next]
      BY <1>1, TopFacts
         DEF Reflected, GenInvariant, Begun, InField, Here, Fields
    <3>2. Here.t.name \in DOMAIN table
      BY <3>1, TableFacts
    <3> QED
      BY <3>2 DEF Known
  <2>2. Cardinality(DOMAIN defs) < Cardinality(DOMAIN table)
    BY <1>1, <2>1, RoomForOneMore
  <2>3. /\ Len(stack) \in Nat /\ Len(stack) <= Cardinality(DOMAIN defs)
        /\ Cardinality(DOMAIN defs) \in Nat
        /\ Cardinality(DOMAIN table) \in Nat
    BY <1>1, DepthWithin, FS_CardinalityType
  <2> QED
    BY <2>2, <2>3
<1> QED
  BY <1>1, GenInvariantHolds, PTL

-----------------------------------------------------------------------------
(* The generator gets on.                                                  *)

\* A field of the innermost call is behind it.
LEMMA OneFieldFewer ==
  ASSUME GenInvariant, InField, NEW f, f.name = Top.name,
         f.next = Top.next + 1, stack' = [stack EXCEPT ![Len(stack)] = f],
         UNCHANGED <<table, defs>>
  PROVE  /\ Unbegun' = Unbegun /\ Len(stack') = Len(stack)
         /\ FieldsLeft' < FieldsLeft
<1>1. /\ stack # << >> /\ Top.next <= Len(Fields)
      /\ Len(stack) \in 1..Len(stack) /\ Len(Fields) \in Nat
      /\ Top.next \in 1..(Len(Fields) + 1)
  BY TopFacts DEF InField
<1>2. IsSeq(stack)
  BY DEF GenInvariant
<1>3. /\ IsSeq(stack') /\ Len(stack') = Len(stack)
      /\ stack'[Len(stack)] = f
  BY <1>1, <1>2, Replace
<1>4. stack' # << >>
  BY <1>1, <1>3, SeqShape
<1>5. Top' = f
  BY <1>3 DEF Top
<1>6. Len(Fields)' = Len(Fields) /\ Top'.next = Top.next + 1
  BY <1>5 DEF Fields
<1>7. /\ FieldsLeft = Len(Fields) + 1 - Top.next
      /\ FieldsLeft' = Len(Fields) + 1 - (Top.next + 1)
  BY <1>1, <1>4, <1>6 DEF FieldsLeft, Generated
<1>8. Unbegun' = Unbegun
  BY DEF Unbegun
<1> QED
  BY <1>1, <1>3, <1>7, <1>8

LEMMA DescribeGetsOn ==
  ASSUME GenInvariant, InField, NEW schema, Describe(schema)
  PROVE  /\ Unbegun' = Unbegun /\ Len(stack') = Len(stack)
         /\ FieldsLeft' < FieldsLeft
<1>1. PICK f : f = Described(Top, Here, schema)
  OBVIOUS
<1>2. f.name = Top.name /\ f.next = Top.next + 1
  BY <1>1 DEF Described, Frame
<1>3. /\ stack' = [stack EXCEPT ![Len(stack)] = f]
      /\ UNCHANGED <<table, defs>>
  BY <1>1 DEF Describe
<1> QED
  BY <1>2, <1>3, OneFieldFewer

LEMMA EnterGetsOn == ASSUME GenInvariant, Enter PROVE Unbegun' < Unbegun
<1>1. PICK m : m = Here.t.name
  OBVIOUS
<1>2. m \in DOMAIN table /\ m \notin DOMAIN defs
  BY <1>1, EnteredFacts
<1>3. DOMAIN defs' = DOMAIN defs \cup {m} /\ table' = table
  BY <1>1 DEF Enter
<1>4. Unbegun' = Cardinality(DOMAIN table \ (DOMAIN defs \cup {m}))
  BY <1>3 DEF Unbegun
<1> QED
  BY <1>2, <1>4, RoomForOneMore

LEMMA CompleteGetsOn ==
  ASSUME GenInvariant, Complete
  PROVE  Unbegun' = Unbegun /\ Len(stack') < Len(stack)
<1>1. stack # << >> /\ IsSeq(stack)
  BY DEF Complete, GenInvariant
<1>2. Len(stack') = Len(stack) - 1 /\ Len(stack) \in Nat
  BY <1>1, Pop, SeqShape DEF Complete
<1>3. DOMAIN defs' = DOMAIN defs /\ table' = table
  BY DEF Complete
<1> QED
  BY <1>2, <1>3 DEF Unbegun

\* The generator does not go in circles, in whatever circles the types refer
\* to each other: each step leaves less to do, in an order in which nothing
\* can become less forever ("reserve, so a recursive type terminates",
\* typeSchema).
THEOREM GeneratorMoves == GenSpec => GeneratorGetsOn
<1> DEFINE Less ==
      \/ Unbegun' < Unbegun
      \/ Unbegun' = Unbegun /\ Len(stack') < Len(stack)
      \/ /\ Unbegun' = Unbegun /\ Len(stack') = Len(stack)
         /\ FieldsLeft' < FieldsLeft
      \/ UNCHANGED <<table, defs, stack>> /\ ~failed /\ failed'
<1>1. ASSUME GenInvariant, GenNext
      PROVE  Less
  <2>1. CASE Skip
    <3>1. PICK f : f = Frame(Top.name, Top.next + 1, Top.properties,
                             Top.required)
      OBVIOUS
    <3>2. /\ f.name = Top.name /\ f.next = Top.next + 1
          /\ InField /\ stack' = [stack EXCEPT ![Len(stack)] = f]
          /\ UNCHANGED <<table, defs>>
      BY <2>1, <3>1 DEF Skip, Frame
    <3> QED
      BY <1>1, <3>2, OneFieldFewer
  <2>2. CASE UseFixed
    <3>1. PICK schema : schema = Fixed[Top.name][Here.name]
      OBVIOUS
    <3>2. InField /\ Describe(schema)
      BY <2>2, <3>1 DEF UseFixed
    <3> QED
      BY <1>1, <3>2, DescribeGetsOn
  <2>3. CASE Reflect
    <3>1. PICK schema : schema = TypeSchema(Here.t)
      OBVIOUS
    <3>2. InField /\ Describe(schema)
      BY <2>3, <3>1 DEF Reflect, Reflected
    <3> QED
      BY <1>1, <3>2, DescribeGetsOn
  <2>4. CASE Enter
    BY <1>1, <2>4, EnterGetsOn
  <2>5. CASE Refuse
    BY <2>5 DEF Refuse, Reflected, InField
  <2>6. CASE Complete
    BY <1>1, <2>6, CompleteGetsOn
  <2> QED
    BY <1>1, <2>1, <2>2, <2>3, <2>4, <2>5, <2>6 DEF GenNext
<1>2. GenInvariant /\ [GenNext]_genVars => [Less]_genVars
  BY <1>1
<1> QED
  BY <1>2, GenInvariantHolds, PTL DEF GenSpec, GeneratorGetsOn

-----------------------------------------------------------------------------
(* What is written when the generator has ended.                           *)

\* Once the calls have returned, nothing is reserved.
LEMMA AllDone ==
  ASSUME GenInvariant, Generated, NEW name \in DOMAIN defs
  PROVE  /\ name \in DOMAIN table
         /\ defs[name] # Reserved /\ Done(name, defs[name])
         /\ ShownBefore(name, Len(table[name]) + 1) = Shown(name)
<1>1. Len(stack) = 0
  BY SeqShape DEF GenInvariant, Generated
<1>2. ~OnStack(name)
  BY <1>1 DEF OnStack
<1>3. defs[name] # Reserved /\ Done(name, defs[name])
  BY <1>2 DEF GenInvariant, ReservedOnStack, DoneWhole
<1>4. table \in Tables /\ name \in DOMAIN table
  BY DEF GenInvariant, Begun
<1>5. \A i \in DOMAIN table[name] : i < Len(table[name]) + 1
  BY <1>4, TableFacts
<1> QED
  BY <1>3, <1>4, <1>5 DEF ShownBefore, Shown

\* Only a struct's schema refers to a definition.
LEMMA RefIsStruct ==
  ASSUME NEW name, NEW f, SchemaFor(name, f).is = "ref",
         IsFixed(name, f) \/ HasSchema(f.t)
  PROVE  /\ ~IsFixed(name, f) /\ f.t.kind = "struct"
         /\ SchemaFor(name, f).name = f.t.name
<1>1. ~IsFixed(name, f)
  BY SpecGenAssumption DEF SchemaFor, IsFixed
<1>2. SchemaFor(name, f) = TypeSchema(f.t)
  BY <1>1 DEF SchemaFor
<1>3. \A kind \in DOMAIN JSONType : JSONType[kind] # "ref"
  BY DEF JSONType
<1>4. f.t.kind = "struct"
  BY <1>1, <1>2, <1>3 DEF TypeSchema, HasSchema
<1> QED
  BY <1>1, <1>2, <1>4 DEF TypeSchema

\* A schema that is written has no hole: in whatever circles the types refer
\* to each other, each definition is there in full and so is every one that
\* it refers to (schema, typeSchema).
THEOREM GeneratorResolves == GenSpec => []ReferencesResolve
<1>1. ASSUME GenInvariant
      PROVE  ReferencesResolve
  <2> SUFFICES ASSUME Generated, NEW name \in DOMAIN defs
               PROVE  /\ defs[name] # Reserved
                      /\ Refs(defs[name]) \subseteq DOMAIN defs
    BY DEF ReferencesResolve
  <2>1. /\ defs[name] # Reserved /\ Done(name, defs[name])
        /\ ShownBefore(name, Len(table[name]) + 1) = Shown(name)
    BY <1>1, AllDone
  <2>2. ASSUME NEW p \in DOMAIN defs[name].properties,
               defs[name].properties[p].is = "ref"
        PROVE  defs[name].properties[p].name \in DOMAIN defs
    <3>1. PICK i \in Shown(name) : p = table[name][i].name
      BY <2>1 DEF Done, Tells
    <3>2. defs[name].properties[p] = SchemaFor(name, table[name][i])
      BY <2>1, <3>1 DEF Done, Tells
    <3>3. Settled(name, table[name][i])
      BY <2>1 DEF Done, Resolved
    <3> QED
      BY <2>2, <3>2, <3>3, RefIsStruct DEF Settled
  <2> QED
    BY <2>1, <2>2 DEF Refs
<1> QED
  BY <1>1, GenInvariantHolds, PTL

\* The schema defines what a document can contain and nothing besides: every
\* struct that the root leads to through fields that encoding/json writes and
\* that have no schema of their own (schema, typeSchema).
THEOREM GeneratorDefinesReached == GenSpec => []DefinesWhatIsReached
<1>1. ASSUME GenInvariant
      PROVE  DefinesWhatIsReached
  <2> SUFFICES ASSUME Generated
               PROVE  DOMAIN defs = Reached
    BY DEF DefinesWhatIsReached
  <2>1. DOMAIN defs \subseteq Reached
    BY <1>1 DEF GenInvariant, Begun, Reached
  <2>2. Closed(DOMAIN defs, References)
    <3>1. ASSUME NEW name \in DOMAIN defs
          PROVE  Leads(name) \subseteq DOMAIN defs
      BY <1>1, <3>1, AllDone DEF Done, Resolved, Settled, Leads
    <3>2. ASSUME NEW r \in References, r[1] \in DOMAIN defs
          PROVE  r[2] \in DOMAIN defs
      <4>1. PICK name \in DOMAIN table : r \in {name} \X Leads(name)
        BY <3>2 DEF References
      <4>2. r[1] = name /\ r[2] \in Leads(name)
        BY <4>1
      <4> QED
        BY <3>1, <3>2, <4>2
    <3> QED
      BY <1>1, <3>2 DEF GenInvariant, Begun, Closed
  <2>3. DOMAIN defs \in SUBSET DOMAIN table
    BY <1>1 DEF GenInvariant, Begun
  <2>4. Reached \subseteq DOMAIN defs
    BY <2>2, <2>3 DEF Reached
  <2> QED
    BY <2>1, <2>4
<1> QED
  BY <1>1, GenInvariantHolds, PTL

\* A definition says what its struct's fields say, all of them and in full,
\* wherever the recursion came to the struct from and whatever it did between
\* two of the fields (typeSchema).
THEOREM GeneratorDescribes == GenSpec => []DefinitionsAreTheirTypes
<1>1. ASSUME GenInvariant
      PROVE  DefinitionsAreTheirTypes
  <2> SUFFICES ASSUME Generated, NEW name \in DOMAIN defs
      PROVE
        LET fields == {table[name][i] : i \in Shown(name)}
        IN  /\ DOMAIN defs[name].properties = {f.name : f \in fields}
            /\ \A f \in fields :
                 defs[name].properties[f.name] = SchemaFor(name, f)
            /\ defs[name].required =
                 {f.name : f \in {g \in fields : "omitempty" \notin g.tag}}
    BY DEF DefinitionsAreTheirTypes
  <2>1. Tells(name, Len(table[name]) + 1, defs[name].properties,
              defs[name].required)
        /\ ShownBefore(name, Len(table[name]) + 1) = Shown(name)
    BY <1>1, AllDone DEF Done
  <2> QED
    BY <2>1 DEF Tells
<1> QED
  BY <1>1, GenInvariantHolds, PTL
=============================================================================
