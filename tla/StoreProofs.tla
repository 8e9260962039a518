---------------------------- MODULE StoreProofs ----------------------------
(***************************************************************************)
(* Proofs about the Store: its variables keep their types, and whatever is *)
(* put into service is complete and vouches for the configured servers.    *)
(***************************************************************************)
EXTENDS Store, AttestationProofs, FiniteSetTheorems

\* verify makes an entry of whatever a load returned.
LEMMA VerifyType ==
  ASSUME NEW t \in Target, NEW outcome \in Bytes \cup {Unreadable, Cancelled}
  PROVE  Verify(t, outcome) \in Entry
  BY StoreAssumption DEF Verify, Refused, Verified, Entry, Reasons

LEMMA OutcomesType ==
  ASSUME StoreTypeOK, NEW s \in Sources
  PROVE  Outcomes(s) \subseteq Bytes \cup {Unreadable, Cancelled}
  BY DEF StoreTypeOK, Outcomes

LEMMA TargetType ==
  ASSUME NEW f \in ConfigFiles, NEW n \in DOMAIN ConfigOf[f].targets
  PROVE  /\ n \in Names
         /\ ConfigOf[f].targets[n] \in Target
         /\ ConfigOf[f].targets[n].attestation \in Sources
  BY PolicyAssumption DEF Target

\* What the program counter says of the rest of the record.
LEMMA NextShape ==
  ASSUME build \in Build, build.pc = "next"
  PROVE  /\ build.file \in ConfigFiles
         /\ build.todo \in SUBSET Names
         /\ build.entries \in EntryTable
  BY DEF Build, Idle, Reading

LEMMA VerifyShape ==
  ASSUME build \in Build, build.pc = "verify"
  PROVE  /\ build.file \in ConfigFiles
         /\ build.todo \in SUBSET Names
         /\ build.entries \in EntryTable
         /\ build.target \in Names
  BY DEF Build, Idle, Reading

LEMMA BuildingType ==
  ASSUME NEW f \in ConfigFiles, NEW todo \in SUBSET Names,
         NEW entries \in EntryTable
  PROVE  Building(f, todo, entries) \in Build
  BY DEF Building, Build

-----------------------------------------------------------------------------
(* Type correctness, one step per action.                                  *)

LEMMA StoreTypeInit == StoreInit => StoreTypeOK
  BY DEF StoreInit, StoreTypeOK, Build

LEMMA NoEntriesType == NoEntries \in EntryTable
  BY DEF NoEntries, EntryTable

\* The table a target's entry is recorded in, and the entry, in their types.
LEMMA FinishTargetType ==
  ASSUME StoreTypeOK, build.pc = "verify",
         build.target \in DOMAIN ConfigOf[build.file].targets,
         NEW outcome \in
           Outcomes(ConfigOf[build.file].targets[build.target].attestation)
  PROVE  [build.entries EXCEPT
            ![build.target] =
              Verify(ConfigOf[build.file].targets[build.target], outcome)]
           \in EntryTable
<1> DEFINE t == ConfigOf[build.file].targets[build.target]
<1>1. build.file \in ConfigFiles /\ build.entries \in EntryTable
  BY VerifyShape DEF StoreTypeOK
<1>2. t \in Target /\ t.attestation \in Sources
  BY <1>1, TargetType
<1>3. Verify(t, outcome) \in Entry
  BY <1>2, OutcomesType, VerifyType
<1> QED
  BY <1>1, <1>3 DEF EntryTable

\* The target under verification is one that the table's configuration has.
CurrentConfigured ==
  /\ build.pc = "next" =>
       build.todo \subseteq DOMAIN ConfigOf[build.file].targets
  /\ build.pc = "verify" =>
       /\ build.todo \subseteq DOMAIN ConfigOf[build.file].targets
       /\ build.target \in DOMAIN ConfigOf[build.file].targets

LEMMA CurrentConfiguredStep ==
  CurrentConfigured /\ [StoreNext]_storeVars => CurrentConfigured'
<1> SUFFICES ASSUME CurrentConfigured, [StoreNext]_storeVars
             PROVE  CurrentConfigured'
  OBVIOUS
<1> USE DEF CurrentConfigured
<1>1. CASE Edit \/ Cancel
  BY <1>1 DEF Edit, EditConfig, EditSource, Cancel
<1>2. CASE StartReload \/ RefuseConfig \/ AbandonBuild \/ Install
  BY <1>2 DEF StartReload, RefuseConfig, AbandonBuild, Install, Idle, Reading
<1>3. CASE AcceptConfig
  BY <1>3 DEF AcceptConfig, Building
<1>4. CASE NextTarget
  BY <1>4 DEF NextTarget, Verifying
<1>5. CASE FinishTarget
  BY <1>5 DEF FinishTarget, Building
<1>6. CASE UNCHANGED storeVars
  BY <1>6 DEF storeVars
<1> QED
  BY <1>1, <1>2, <1>3, <1>4, <1>5, <1>6 DEF StoreNext, ReloadStep

LEMMA StoreTypeStep ==
  StoreTypeOK /\ CurrentConfigured /\ [StoreNext]_storeVars => StoreTypeOK'
<1> SUFFICES ASSUME StoreTypeOK, CurrentConfigured, [StoreNext]_storeVars
             PROVE  StoreTypeOK'
  OBVIOUS
<1>1. CASE Edit \/ Cancel
  BY <1>1 DEF StoreTypeOK, Edit, EditConfig, EditSource, Cancel
<1>2. CASE StartReload \/ RefuseConfig \/ AbandonBuild
  BY <1>2 DEF StoreTypeOK, StartReload, RefuseConfig, AbandonBuild, Build
<1>3. CASE AcceptConfig
  <2>1. DOMAIN ConfigOf[configFile].targets \in SUBSET Names
    BY PolicyAssumption DEF StoreTypeOK
  <2>2. build' \in Build
    BY <1>3, <2>1, NoEntriesType, BuildingType DEF StoreTypeOK, AcceptConfig
  <2> QED
    BY <1>3, <2>2 DEF StoreTypeOK, AcceptConfig
<1>4. CASE NextTarget
  <2>1. PICK n \in build.todo : build' = Verifying(build, n)
    BY <1>4 DEF NextTarget
  <2>2. Verifying(build, n) \in Build
    BY <1>4, NextShape DEF NextTarget, StoreTypeOK, Verifying, Build
  <2> QED
    BY <1>4, <2>1, <2>2 DEF StoreTypeOK, NextTarget
<1>5. CASE FinishTarget
  <2> DEFINE t == ConfigOf[build.file].targets[build.target]
  <2>1. PICK outcome \in Outcomes(t.attestation) :
          build' = Building(build.file, build.todo,
                     [build.entries EXCEPT ![build.target] = Verify(t, outcome)])
    BY <1>5 DEF FinishTarget
  <2>2. build.file \in ConfigFiles /\ build.todo \in SUBSET Names
    BY <1>5, VerifyShape DEF StoreTypeOK, FinishTarget
  <2>3. build' \in Build
    BY <1>5, <2>1, <2>2, FinishTargetType, BuildingType
       DEF CurrentConfigured, FinishTarget
  <2> QED
    BY <1>5, <2>3 DEF StoreTypeOK, FinishTarget
<1>6. CASE Install
  <2>1. snap' \in Snapshot
    BY <1>6, NextShape DEF StoreTypeOK, Install, Snapshot, EntryTable
  <2> QED
    BY <1>6, <2>1 DEF StoreTypeOK, Install, Build
<1>7. CASE UNCHANGED storeVars
  BY <1>7 DEF StoreTypeOK, storeVars
<1> QED
  BY <1>1, <1>2, <1>3, <1>4, <1>5, <1>6, <1>7 DEF StoreNext, ReloadStep

\* The store's variables keep their types: no step of a reload, in whatever
\* order with edits, leaves a table or a build record of another shape.
THEOREM StoreTypeCorrect == StoreSpec => []StoreTypeOK
<1>1. StoreInit => StoreTypeOK /\ CurrentConfigured
  BY StoreTypeInit DEF StoreInit, CurrentConfigured, Idle
<1>2. StoreTypeOK /\ CurrentConfigured /\ [StoreNext]_storeVars
        => StoreTypeOK' /\ CurrentConfigured'
  BY StoreTypeStep, CurrentConfiguredStep
<1> QED
  BY <1>1, <1>2, PTL DEF StoreSpec

-----------------------------------------------------------------------------
(* What is in service is sound and complete.                               *)

\* An entry that verify leaves usable vouches for the target: the statement
\* parsed, covers the target, and so describes it.
LEMMA VerifyVouches ==
  ASSUME NEW f \in ConfigFiles, NEW n \in DOMAIN ConfigOf[f].targets,
         NEW outcome \in Bytes \cup {Unreadable, Cancelled},
         Usable(Verify(ConfigOf[f].targets[n], outcome))
  PROVE  Vouches(f, n, Verify(ConfigOf[f].targets[n], outcome))
<1> DEFINE t == ConfigOf[f].targets[n]
           s == Decode[outcome]
<1>1. t.transport \in TransportText /\ t.endpoint \in Text
  BY TargetType DEF Target
<1>2. TransportOf(t) \in TransportText
  BY <1>1 DEF TransportOf, TransportText
<1>3. /\ Verify(t, outcome) = Verified(outcome)
      /\ outcome \in Bytes
      /\ Parses(outcome)
      /\ Covers(s, TransportOf(t), t.endpoint)
  BY StoreAssumption DEF Usable, Verify, Refused, Verified
<1>4. s \in Statement /\ Validate(s)
  BY <1>3, DecodeAssumption DEF Parses
<1>5. Describes(s, TransportOf(t), t.endpoint)
  BY <1>1, <1>2, <1>3, <1>4, ValidCoversDescribes
<1> QED
  BY <1>3, <1>4, <1>5 DEF Vouches, Verified

\* The targets a build has yet to record.
Pending == IF build.pc = "verify" THEN build.todo \cup {build.target}
                                  ELSE build.todo

\* The table under construction is sound, and has an entry for each of its
\* targets except those it has not come to.
TableUnderConstruction ==
  build.pc \in {"next", "verify"} =>
    /\ ConfigValid(ConfigOf[build.file])
    /\ TableSound(build.file, build.entries)
    /\ \A n \in Names :
         build.entries[n] # NoEntry
           <=> n \in DOMAIN ConfigOf[build.file].targets \ Pending
    /\ build.pc = "verify" => build.target \notin build.todo

StoreInvariant ==
  /\ StoreTypeOK
  /\ CurrentConfigured
  /\ TableUnderConstruction
  /\ SnapshotSound
  /\ SnapshotComplete

LEMMA StoreInvariantInit == StoreInit => StoreInvariant
  BY StoreTypeInit
     DEF StoreInit, StoreInvariant, CurrentConfigured, TableUnderConstruction,
         SnapshotSound, SnapshotComplete, Idle

LEMMA TableUnderConstructionStep ==
  StoreInvariant /\ [StoreNext]_storeVars => TableUnderConstruction'
<1> SUFFICES ASSUME StoreInvariant, [StoreNext]_storeVars
             PROVE  TableUnderConstruction'
  OBVIOUS
<1> USE DEF StoreInvariant, Pending
<1>1. CASE Edit \/ Cancel
  BY <1>1 DEF TableUnderConstruction, Edit, EditConfig, EditSource, Cancel
<1>2. CASE StartReload \/ RefuseConfig \/ AbandonBuild \/ Install
  BY <1>2 DEF TableUnderConstruction, StartReload, RefuseConfig, AbandonBuild,
              Install, Idle, Reading
<1>3. CASE AcceptConfig
  <2>1. build' = Building(configFile, DOMAIN ConfigOf[configFile].targets,
                          NoEntries)
    BY <1>3 DEF AcceptConfig
  <2>2. ConfigValid(ConfigOf[configFile])
    BY <1>3 DEF AcceptConfig, ReadsConfig
  <2>3. \A n \in Names : NoEntries[n] = NoEntry
    BY DEF NoEntries
  <2> QED
    BY <2>1, <2>2, <2>3
       DEF TableUnderConstruction, Building, TableSound, Usable
<1>4. CASE NextTarget
  <2>1. PICK n \in build.todo : build' = Verifying(build, n)
    BY <1>4 DEF NextTarget
  <2> QED
    BY <1>4, <2>1 DEF TableUnderConstruction, NextTarget, Verifying
<1>5. CASE FinishTarget
  <2> DEFINE f == build.file
             m == build.target
             t == ConfigOf[f].targets[m]
  <2>1. PICK outcome \in Outcomes(t.attestation) :
          build' = Building(f, build.todo,
                     [build.entries EXCEPT ![m] = Verify(t, outcome)])
    BY <1>5 DEF FinishTarget
  <2> DEFINE e == Verify(t, outcome)
  <2>2. /\ f \in ConfigFiles /\ m \in Names
        /\ build.entries \in [Names -> Entry \cup {NoEntry}]
        /\ m \in DOMAIN ConfigOf[f].targets
        /\ build.pc = "verify"
    BY <1>5, VerifyShape
       DEF FinishTarget, StoreTypeOK, CurrentConfigured, EntryTable
  <2>3. outcome \in Bytes \cup {Unreadable, Cancelled}
    BY <2>1, <2>2, TargetType, OutcomesType
  <2>4. e \in Entry
    BY <2>2, <2>3, TargetType, VerifyType
  <2>5. Usable(e) => Vouches(f, m, e)
    BY <2>2, <2>3, VerifyVouches
  <2>6. TableSound(f, [build.entries EXCEPT ![m] = e])
    BY <2>2, <2>5 DEF TableUnderConstruction, TableSound
  <2>7. \A n \in Names :
          [build.entries EXCEPT ![m] = e][n] # NoEntry
            <=> n \in DOMAIN ConfigOf[f].targets \ build.todo
    BY <2>2, <2>4, PolicyAssumption DEF TableUnderConstruction
  <2> QED
    BY <2>1, <2>2, <2>6, <2>7 DEF TableUnderConstruction, Building
<1>6. CASE UNCHANGED storeVars
  BY <1>6 DEF TableUnderConstruction, storeVars
<1> QED
  BY <1>1, <1>2, <1>3, <1>4, <1>5, <1>6 DEF StoreNext, ReloadStep

\* Only Install changes the snapshot, and it installs a finished table.
LEMMA SnapshotStep ==
  StoreInvariant /\ [StoreNext]_storeVars => SnapshotSound' /\ SnapshotComplete'
<1> SUFFICES ASSUME StoreInvariant, [StoreNext]_storeVars
             PROVE  SnapshotSound' /\ SnapshotComplete'
  OBVIOUS
<1> USE DEF StoreInvariant, SnapshotSound, SnapshotComplete
<1>1. CASE Install
  <2>1. /\ snap' = [config |-> build.file, entries |-> build.entries]
        /\ build.pc = "next" /\ build.todo = {}
    BY <1>1 DEF Install
  <2>2. /\ ConfigValid(ConfigOf[build.file])
        /\ TableSound(build.file, build.entries)
        /\ \A n \in Names :
             build.entries[n] # NoEntry
               <=> n \in DOMAIN ConfigOf[build.file].targets
    BY <2>1 DEF TableUnderConstruction, Pending
  <2> QED
    BY <2>1, <2>2 DEF TableComplete
<1>2. CASE UNCHANGED snap
  BY <1>2
<1>3. Install \/ UNCHANGED snap
  BY DEF StoreNext, ReloadStep, Edit, EditConfig, EditSource, Cancel,
         StartReload, RefuseConfig, AcceptConfig, NextTarget, AbandonBuild,
         FinishTarget, storeVars
<1> QED
  BY <1>1, <1>2, <1>3

\* The invariant is inductive; other modules' steps preserve it through this.
LEMMA StoreInvariantStep ==
  StoreInvariant /\ [StoreNext]_storeVars => StoreInvariant'
  BY StoreTypeStep, CurrentConfiguredStep, TableUnderConstructionStep,
     SnapshotStep DEF StoreInvariant

\* Between any two steps of a reload, the table under construction vouches
\* for what it has and misses only the targets it has not come to (Build).
THEOREM StoreInvariantHolds == StoreSpec => []StoreInvariant
  BY StoreInvariantInit, StoreInvariantStep, PTL DEF StoreSpec

\* Whatever is edited between two steps of a reload, a statement in service
\* validates and is about the server configured under its name.
THEOREM StoreServesSound == StoreSpec => []SnapshotSound
<1>1. StoreInvariant => SnapshotSound
  BY DEF StoreInvariant
<1> QED
  BY <1>1, StoreInvariantHolds, PTL

\* A table in service is never one of a build that did not finish.
THEOREM StoreServesComplete == StoreSpec => []SnapshotComplete
<1>1. StoreInvariant => SnapshotComplete
  BY DEF StoreInvariant
<1> QED
  BY <1>1, StoreInvariantHolds, PTL

-----------------------------------------------------------------------------
(* Whom the end of the context is blamed on.                               *)

Blame == Refused("cancelled")

\* The targets a build has recorded.
Recorded == DOMAIN ConfigOf[build.file].targets \ Pending

\* Targets are recorded in the order of their names, and once one is blamed
\* for the end of the context no other is begun.
BlameInOrder ==
  build.pc \in {"next", "verify"} =>
    /\ \A m \in Recorded, n \in Pending : m <= n
    /\ build.pc = "verify" => \A n \in build.todo : build.target <= n
    /\ \A n \in Names :
         build.entries[n] = Blame =>
           /\ build.pc = "next" /\ cancelled
           /\ \A m \in Recorded : m <= n

LEMMA NamesOrdered == \A n \in Names : n \in Nat /\ n <= n
<1>1. Names \subseteq Nat
  BY PolicyAssumption
<1> QED
  BY <1>1

LEMMA BlameIsAnEntry == Blame \in Entry /\ NoEntry # Blame
<1>1. Blame \in Entry
  BY DEF Blame, Refused, Entry, Reasons
<1>2. NoEntry \notin Entry
  BY PolicyAssumption
<1> QED
  BY <1>1, <1>2

\* verify blames the context only for a fetch that failed after its end.
LEMMA BlamedFetch ==
  ASSUME StoreTypeOK, NEW t \in Target,
         NEW outcome \in Outcomes(t.attestation), Verify(t, outcome) = Blame
  PROVE  cancelled
<1>1. outcome \in Bytes \cup {Unreadable, Cancelled}
  BY OutcomesType DEF Target
<1>2. outcome = Cancelled
  BY <1>1, StoreAssumption DEF Verify, Refused, Verified, Blame
<1>3. content[t.attestation] # Cancelled /\ Unreadable # Cancelled
  BY StoreAssumption DEF StoreTypeOK, Target
<1> QED
  BY <1>2, <1>3 DEF Outcomes

LEMMA BlameInOrderStep ==
  StoreInvariant /\ BlameInOrder /\ [StoreNext]_storeVars => BlameInOrder'
<1> SUFFICES ASSUME StoreInvariant, BlameInOrder, [StoreNext]_storeVars
             PROVE  BlameInOrder'
  OBVIOUS
<1> USE DEF StoreInvariant
<1>1. CASE Edit \/ UNCHANGED storeVars
  BY <1>1 DEF BlameInOrder, Recorded, Pending, Edit, EditConfig, EditSource,
              storeVars
<1>2. CASE Cancel
  BY <1>2 DEF BlameInOrder, Recorded, Pending, Cancel
<1>3. CASE StartReload \/ RefuseConfig \/ AbandonBuild \/ Install
  BY <1>3 DEF BlameInOrder, StartReload, RefuseConfig, AbandonBuild, Install,
              Idle, Reading
<1>4. CASE AcceptConfig
  <2>1. build' = Building(configFile, DOMAIN ConfigOf[configFile].targets,
                          NoEntries)
    BY <1>4 DEF AcceptConfig
  <2>2. Recorded' = {} /\ build'.pc = "next"
    BY <2>1 DEF Recorded, Pending, Building
  <2>3. \A n \in Names : build'.entries[n] # Blame
    BY <2>1, BlameIsAnEntry DEF Building, NoEntries
  <2> QED
    BY <2>2, <2>3 DEF BlameInOrder
<1>5. CASE NextTarget
  <2>1. PICK n \in build.todo :
          (\A m \in build.todo : n <= m) /\ build' = Verifying(build, n)
    BY <1>5 DEF NextTarget
  <2>2. /\ build'.pc = "verify" /\ build'.target = n
        /\ build'.todo = build.todo \ {n}
        /\ build'.file = build.file /\ build'.entries = build.entries
    BY <2>1 DEF Verifying
  <2>3. build.pc = "next" /\ ~cancelled
    BY <1>5 DEF NextTarget
  <2>4. Pending' = Pending /\ Recorded' = Recorded
    BY <2>1, <2>2, <2>3 DEF Pending, Recorded
  <2>5. \A m \in Names : build'.entries[m] # Blame
    BY <2>2, <2>3 DEF BlameInOrder
  <2> QED
    BY <2>1, <2>2, <2>3, <2>4, <2>5 DEF BlameInOrder
<1>6. CASE FinishTarget
  <2> DEFINE m == build.target
             t == ConfigOf[build.file].targets[m]
  <2>1. PICK outcome \in Outcomes(t.attestation) :
          build' = Building(build.file, build.todo,
                     [build.entries EXCEPT ![m] = Verify(t, outcome)])
    BY <1>6 DEF FinishTarget
  <2>2. build.pc = "verify" /\ cancelled' = cancelled
    BY <1>6 DEF FinishTarget
  <2>3. /\ build.file \in ConfigFiles /\ m \in Names
        /\ build.entries \in [Names -> Entry \cup {NoEntry}]
        /\ m \in DOMAIN ConfigOf[build.file].targets
        /\ m \notin build.todo
    BY <2>2, VerifyShape
       DEF StoreTypeOK, CurrentConfigured, TableUnderConstruction, EntryTable
  <2>4. /\ build'.pc = "next" /\ build'.file = build.file
        /\ build'.todo = build.todo
        /\ build'.entries = [build.entries EXCEPT ![m] = Verify(t, outcome)]
    BY <2>1 DEF Building
  <2>5. Pending' = build.todo /\ Recorded' = Recorded \cup {m}
    BY <2>2, <2>3, <2>4 DEF Pending, Recorded
  <2>6. /\ \A k \in Recorded : k <= m
        /\ \A k \in Recorded, n \in build.todo : k <= n
        /\ \A n \in build.todo : m <= n
        /\ \A n \in Names : build.entries[n] # Blame
    BY <2>2 DEF BlameInOrder, Pending
  <2>7. m <= m
    BY <2>3, NamesOrdered
  <2>8. ASSUME NEW n \in Names, build'.entries[n] = Blame
        PROVE  cancelled' /\ \A k \in Recorded' : k <= n
    <3>1. n = m /\ Verify(t, outcome) = Blame
      BY <2>3, <2>4, <2>6, <2>8
    <3>2. t \in Target
      BY <2>3, TargetType
    <3>3. cancelled
      BY <3>1, <3>2, <2>1, BlamedFetch
    <3> QED
      BY <2>2, <2>5, <2>6, <2>7, <3>1, <3>3
  <2> QED
    BY <2>4, <2>5, <2>6, <2>8 DEF BlameInOrder
<1> QED
  BY <1>1, <1>2, <1>3, <1>4, <1>5, <1>6 DEF StoreNext, ReloadStep

\* The end of a reload's context costs the table that goes into service at
\* most one entry, that of the last name: every other target was judged by
\* what its source gave before (Build).
THEOREM CancelCostsTheLast == StoreSpec => []CancelBlamesLast
<1>1. StoreInit => BlameInOrder /\ CancelBlamesLast
  BY DEF StoreInit, BlameInOrder, CancelBlamesLast, Idle
<1>2. ASSUME StoreInvariant, BlameInOrder, CancelBlamesLast,
             [StoreNext]_storeVars
      PROVE  CancelBlamesLast'
  <2>1. CASE Install
    <3>1. /\ snap' = [config |-> build.file, entries |-> build.entries]
          /\ build.pc = "next" /\ build.todo = {} /\ cancelled' = cancelled
      BY <2>1 DEF Install
    <3>2. Recorded = DOMAIN ConfigOf[build.file].targets
      BY <3>1 DEF Recorded, Pending
    <3> QED
      BY <1>2, <3>1, <3>2 DEF CancelBlamesLast, BlameInOrder, Blame
  <2>2. CASE UNCHANGED snap /\ (cancelled => cancelled')
    BY <1>2, <2>2 DEF CancelBlamesLast
  <2>3. Install \/ (UNCHANGED snap /\ (cancelled => cancelled'))
    BY <1>2 DEF StoreNext, ReloadStep, Edit, EditConfig, EditSource, Cancel,
                StartReload, RefuseConfig, AcceptConfig, NextTarget,
                AbandonBuild, FinishTarget, storeVars
  <2> QED
    BY <2>1, <2>2, <2>3
<1>3. StoreInvariant /\ BlameInOrder /\ CancelBlamesLast /\ [StoreNext]_storeVars
        => BlameInOrder' /\ CancelBlamesLast'
  BY <1>2, BlameInOrderStep
<1> QED
  BY <1>1, <1>3, StoreInvariantHolds, PTL DEF StoreSpec

-----------------------------------------------------------------------------
(* A reload gets through its targets.                                      *)

LEMMA TodoFinite ==
  ASSUME StoreInvariant, build.pc \in {"next", "verify"}
  PROVE  IsFiniteSet(build.todo) /\ Cardinality(build.todo) \in Nat
<1>1. build.file \in ConfigFiles
  BY NextShape, VerifyShape DEF StoreInvariant, StoreTypeOK
<1>2. build.todo \in SUBSET DOMAIN ConfigOf[build.file].targets
  BY DEF StoreInvariant, CurrentConfigured
<1>3. IsFiniteSet(DOMAIN ConfigOf[build.file].targets)
  BY <1>1, StoreAssumption
<1>4. IsFiniteSet(build.todo)
  BY <1>2, <1>3, FS_Subset
<1> QED
  BY <1>4, FS_CardinalityType

LEMMA NextTargetMovesOn ==
  ASSUME StoreInvariant, NextTarget
  PROVE  /\ build'.pc = "verify" /\ build'.file = build.file
         /\ BuildStepsLeft(build') = BuildStepsLeft(build) - 1
         /\ BuildStepsLeft(build') \in Nat
<1>1. build.pc = "next"
  BY DEF NextTarget
<1>2. PICK n \in build.todo : build' = Verifying(build, n)
  BY DEF NextTarget
<1>3. /\ build'.pc = "verify" /\ build'.file = build.file
      /\ build'.todo = build.todo \ {n}
  BY <1>2 DEF Verifying
<1>4. IsFiniteSet(build.todo) /\ Cardinality(build.todo) \in Nat
  BY <1>1, TodoFinite
<1>5. /\ Cardinality(build.todo \ {n}) = Cardinality(build.todo) - 1
      /\ Cardinality(build.todo \ {n}) \in Nat
  BY <1>4, FS_RemoveElement, FS_CardinalityType
<1> QED
  BY <1>1, <1>3, <1>4, <1>5 DEF BuildStepsLeft

LEMMA FinishTargetMovesOn ==
  ASSUME StoreInvariant, FinishTarget
  PROVE  /\ build'.pc = "next" /\ build'.file = build.file
         /\ BuildStepsLeft(build') = BuildStepsLeft(build) - 1
         /\ BuildStepsLeft(build') \in Nat
<1>1. build.pc = "verify"
  BY DEF FinishTarget
<1>2. PICK entries : build' = Building(build.file, build.todo, entries)
  BY DEF FinishTarget
<1>3. /\ build'.pc = "next" /\ build'.file = build.file
      /\ build'.todo = build.todo
  BY <1>2 DEF Building
<1>4. Cardinality(build.todo) \in Nat
  BY <1>1, TodoFinite
<1> QED
  BY <1>1, <1>3, <1>4 DEF BuildStepsLeft

\* A reload does not start over, take up a newer configuration or come back to
\* a target: with n targets it has 2n + 1 steps once its configuration is read
\* (Build).
THEOREM ReloadsMoveOn == StoreSpec => ReloadMovesOn
<1> DEFINE Moves ==
      build.pc \in {"next", "verify"} /\ build' # build =>
        \/ build' = Idle
        \/ /\ build'.pc \in {"next", "verify"} /\ build'.file = build.file
           /\ BuildStepsLeft(build') \in 0..(BuildStepsLeft(build) - 1)
<1>1. ASSUME StoreInvariant, StoreNext
      PROVE  Moves
  <2> SUFFICES ASSUME build.pc \in {"next", "verify"}, build' # build
               PROVE  \/ build' = Idle
                      \/ /\ build'.pc \in {"next", "verify"}
                         /\ build'.file = build.file
                         /\ BuildStepsLeft(build')
                              \in 0..(BuildStepsLeft(build) - 1)
    OBVIOUS
  <2>1. CASE NextTarget
    BY <1>1, <2>1, NextTargetMovesOn
  <2>2. CASE FinishTarget
    BY <1>1, <2>2, FinishTargetMovesOn
  <2>3. CASE AbandonBuild \/ Install
    BY <2>3 DEF AbandonBuild, Install
  <2>4. NextTarget \/ FinishTarget \/ AbandonBuild \/ Install
    BY <1>1 DEF StoreNext, ReloadStep, Edit, EditConfig, EditSource, Cancel,
                StartReload, Idle, RefuseConfig, AcceptConfig
  <2> QED
    BY <2>1, <2>2, <2>3, <2>4
<1> HIDE DEF Moves
<1>2. StoreInvariant /\ [StoreNext]_storeVars => [Moves]_storeVars
  BY <1>1
<1> QED
  BY <1>2, StoreInvariantHolds, PTL DEF StoreSpec, ReloadMovesOn, Moves
=============================================================================
