------------------------------- MODULE Store -------------------------------
(***************************************************************************)
(* The processor's Store and the Build that fills it.  Reload re-reads the *)
(* configuration file, then loads and verifies one attestation after the   *)
(* other, and installs the finished Snapshot in one step; a configuration  *)
(* that does not read, or a context that ends between two targets, leaves  *)
(* the previous Snapshot in service.                                       *)
(*                                                                         *)
(* One reload runs at a time: the command's first Reload returns before    *)
(* its reloader starts, and the reloader is one goroutine.  The files and  *)
(* what the https sources serve change at any moment, also between two     *)
(* reads of one reload.                                                    *)
(***************************************************************************)
EXTENDS Policy

CONSTANTS
  Unreadable,  \* a load that fails: no file, no answer, a timeout, too large
  Cancelled    \* a fetch that fails because the reload's context ended

ASSUME StoreAssumption ==
  /\ Unreadable \notin Bytes /\ Cancelled \notin Bytes
  /\ Unreadable # Cancelled
  /\ \A f \in ConfigFiles : IsFiniteSet(DOMAIN ConfigOf[f].targets)

VARIABLES
  configFile,  \* the configuration file's contents
  content,     \* what each source holds or serves
  snap,        \* the snapshot in service
  build,       \* the running reload
  cancelled    \* the context the reload runs under has ended

files == <<configFile, content>>
storeVars == <<configFile, content, snap, build, cancelled>>

NoEntries == [n \in Names |-> NoEntry]

Idle == [pc |-> "idle"]
Reading == [pc |-> "config"]
Building(f, todo, entries) ==
  [pc |-> "next", file |-> f, todo |-> todo, entries |-> entries]
Verifying(b, n) ==
  [pc |-> "verify", file |-> b.file, todo |-> b.todo \ {n},
   entries |-> b.entries, target |-> n]

EntryTable == [Names -> Entry \cup {NoEntry}]

Build ==
  {Idle, Reading}
  \cup [pc : {"next"}, file : ConfigFiles, todo : SUBSET Names,
        entries : EntryTable]
  \cup [pc : {"verify"}, file : ConfigFiles, todo : SUBSET Names,
        entries : EntryTable, target : Names]

StoreTypeOK ==
  /\ configFile \in ConfigFiles
  /\ content \in [Sources -> Bytes \cup {Unreadable}]
  /\ snap \in Snapshot \cup {NoSnapshot}
  /\ build \in Build
  /\ cancelled \in BOOLEAN

StoreInit ==
  /\ configFile \in ConfigFiles
  /\ content \in [Sources -> Bytes \cup {Unreadable}]
  /\ snap = NoSnapshot
  /\ build = Idle
  /\ cancelled = FALSE

-----------------------------------------------------------------------------
(* The files, changed by the operator and by the servers behind the URLs.  *)

EditConfig ==
  /\ \E f \in ConfigFiles \ {configFile} : configFile' = f
  /\ UNCHANGED <<content, snap, build, cancelled>>

EditSource ==
  /\ \E s \in Sources :
       \E b \in (Bytes \cup {Unreadable}) \ {content[s]} :
         content' = [content EXCEPT ![s] = b]
  /\ UNCHANGED <<configFile, snap, build, cancelled>>

\* The caller's context ends.
Cancel ==
  /\ ~cancelled
  /\ cancelled' = TRUE
  /\ UNCHANGED <<configFile, content, snap, build>>

-----------------------------------------------------------------------------
(* Reload, step by step.                                                   *)

StartReload ==
  /\ build = Idle
  /\ build' = Reading
  /\ UNCHANGED <<configFile, content, snap, cancelled>>

\* ReadConfig fails: Reload returns its error and touches nothing.
RefuseConfig ==
  /\ build.pc = "config" /\ ~ReadsConfig(configFile)
  /\ build' = Idle
  /\ UNCHANGED <<configFile, content, snap, cancelled>>

\* ReadConfig succeeds: Build starts with an empty table.
AcceptConfig ==
  /\ build.pc = "config" /\ ReadsConfig(configFile)
  /\ build' = Building(configFile, DOMAIN ConfigOf[configFile].targets,
                       NoEntries)
  /\ UNCHANGED <<configFile, content, snap, cancelled>>

\* Fault: the context is checked once, before the loop.
NextTargetUnchecked ==
  /\ build.pc = "next"
  /\ \E n \in build.todo :
       /\ \A m \in build.todo : n <= m
       /\ build' = Verifying(build, n)
  /\ UNCHANGED <<configFile, content, snap, cancelled>>

\* The loop takes the next name in sorted order; the context is still live.
NextTarget ==
  /\ build.pc = "next" /\ ~cancelled
  /\ \E n \in build.todo :
       /\ \A m \in build.todo : n <= m
       /\ build' = Verifying(build, n)
  /\ UNCHANGED <<configFile, content, snap, cancelled>>

\* Fault: Build returns what it has when the context ends.
InstallPartialTable ==
  /\ build.pc = "next" /\ build.todo # {} /\ cancelled
  /\ snap' = [config |-> build.file, entries |-> build.entries]
  /\ build' = Idle
  /\ UNCHANGED <<configFile, content, cancelled>>

\* The context has ended: Build returns its error, Reload drops the table.
AbandonBuild ==
  /\ build.pc = "next" /\ build.todo # {} /\ cancelled
  /\ build' = Idle
  /\ UNCHANGED <<configFile, content, snap, cancelled>>

\* What Load may return: contents, or an error, which a load may end in whatever
\* its source holds; a fetch does so with the context's error once that ended.
\* What Source says of a file that is written to while it is read takes no more:
\* the mix that a load may give of it is, here, what the file held between two
\* edits.
Outcomes(s) ==
  {content[s], Unreadable}
  \cup (IF Scheme[s] = "https" /\ cancelled THEN {Cancelled} ELSE {})

\* Fault: a refusal does not name its stage.
RefusedSilently(reason) == [statement |-> NoStatement, reason |-> ""]

Refused(reason) == [statement |-> NoStatement, reason |-> reason]
Verified(b) == [statement |-> b, reason |-> "verified"]

\* Fault: the statement is not compared with the configured server.
VerifyWithoutCovers(t, outcome) ==
  IF outcome = Unreadable THEN Refused("unreadable")
  ELSE IF outcome = Cancelled THEN Refused("cancelled")
  ELSE IF ~Parses(outcome) THEN Refused("invalid")
       ELSE Verified(outcome)

\* The entry verify makes of what Load returned for a target.
Verify(t, outcome) ==
  IF outcome = Unreadable THEN Refused("unreadable")
  ELSE IF outcome = Cancelled THEN Refused("cancelled")
  ELSE IF ~Parses(outcome) THEN Refused("invalid")
  ELSE IF ~Covers(Decode[outcome], TransportOf(t), t.endpoint)
       THEN Refused("does not cover")
       ELSE Verified(outcome)

\* The current target's attestation is loaded, verified and recorded.
FinishTarget ==
  /\ build.pc = "verify"
  /\ LET t == ConfigOf[build.file].targets[build.target]
     IN  \E outcome \in Outcomes(t.attestation) :
           build' = Building(build.file, build.todo,
                      [build.entries EXCEPT
                         ![build.target] = Verify(t, outcome)])
  /\ UNCHANGED <<configFile, content, snap, cancelled>>

\* Every target has its entry: the new table replaces the old at once.
Install ==
  /\ build.pc = "next" /\ build.todo = {}
  /\ snap' = [config |-> build.file, entries |-> build.entries]
  /\ build' = Idle
  /\ UNCHANGED <<configFile, content, cancelled>>

ReloadStep ==
  RefuseConfig \/ AcceptConfig \/ NextTarget \/ AbandonBuild \/ FinishTarget
  \/ Install

Edit == EditConfig \/ EditSource

StoreNext == Edit \/ Cancel \/ StartReload \/ ReloadStep

StoreSpec == StoreInit /\ [][StoreNext]_storeVars

-----------------------------------------------------------------------------

\* Every statement in service vouches for the server configured under its
\* name, whatever was edited while it was being loaded (Build, verify).
SnapshotSound == snap # NoSnapshot => TableSound(snap.config, snap.entries)

\* A table in service comes from a configuration that validates and answers
\* for its targets, all of them and no other: one bad statement takes neither
\* its own entry away nor those of other targets (Build's comment).
SnapshotComplete == snap # NoSnapshot => TableComplete(snap.config, snap.entries)

\* Build "fails only when ctx ends; a target's own problems are recorded":
\* no target in service is blamed for the end of the reload's context.
NoTargetBlamedForCancel ==
  snap # NoSnapshot => \A n \in Names : snap.entries[n] # Refused("cancelled")

\* What does hold of that: a target is blamed for the end of the context only
\* once it has ended, and only the last in the order of names; the others were
\* judged before (Build's check of ctx before each target).
CancelBlamesLast ==
  snap # NoSnapshot =>
    \A n \in Names :
      snap.entries[n] = Refused("cancelled") =>
        /\ cancelled
        /\ \A m \in DOMAIN ConfigOf[snap.config].targets : m <= n

\* How many steps a build has left, unless its context ends: each target is
\* begun and recorded, and the table installed.
BuildStepsLeft(b) ==
  2 * Cardinality(b.todo) + (IF b.pc = "verify" THEN 2 ELSE 1)

\* A build keeps to the configuration it was started with and gets through it,
\* target by target, whatever is edited and whatever its sources answer: it
\* ends after two steps for each of its targets and one more, or before, when
\* its context ends (Build).
ReloadMovesOn ==
  [][build.pc \in {"next", "verify"} /\ build' # build =>
       \/ build' = Idle
       \/ /\ build'.pc \in {"next", "verify"} /\ build'.file = build.file
          /\ BuildStepsLeft(build') \in 0..(BuildStepsLeft(build) - 1)
    ]_storeVars
=============================================================================
