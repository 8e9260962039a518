---------------------------- MODULE ProcessProofs ----------------------------
(***************************************************************************)
(* Proofs about the command: it is a server, and so a gate, from its first *)
(* instruction to its end; and the order in which run arms, loads, serves, *)
(* drains and joins does what its comments say.                            *)
(***************************************************************************)
EXTENDS Process, ServerProofs

-----------------------------------------------------------------------------
(* The command runs the server: what surrounds it only ends its context.   *)

\* The steps that leave the store and the calls alone but for the context.
LEMMA OutsideStep ==
  ASSUME \/ Hangup \/ Terminate \/ TimerFires
         \/ Notify \/ Listen \/ Spawn \/ Drain \/ Drained \/ Joined \/ Exit
         \/ ServeFails \/ ReloaderStops \/ Gone
  PROVE  UNCHANGED serverVars \/ (Cancel /\ UNCHANGED calls)
<1>1. CASE Hangup \/ TimerFires \/ Notify \/ Listen \/ Spawn \/ Drain \/ Joined
           \/ Exit \/ ReloaderStops \/ Gone
  BY <1>1 DEF Hangup, TimerFires, Notify, Listen, Spawn, Drain, Joined, Exit,
              ReloaderStops, Gone, serverVars, storeVars, processVars
<1>2. CASE Terminate \/ Drained \/ ServeFails
  <2>1. cancelled' = TRUE /\ UNCHANGED <<configFile, content, snap, build, calls>>
    BY <1>2 DEF Terminate, Drained, ServeFails, files
  <2> QED
    BY <2>1 DEF Cancel, serverVars
<1> QED
  BY <1>1, <1>2

\* A reload's steps in the command are the store's.
LEMMA ReloadOnStep ==
  ASSUME EditFiles \/ FirstReload \/ TakeHangup \/ TakeTick \/ ReloadOn
  PROVE  StoreNext /\ UNCHANGED calls
  BY DEF EditFiles, FirstReload, TakeHangup, TakeTick, ReloadOn, FailReload,
         FinishReload, LoadTargets, StoreNext, ReloadStep

LEMMA ProcessServerStep ==
  [ProcessNext]_processVars => [ServerNext]_serverVars
<1> SUFFICES ASSUME [ProcessNext]_processVars
             PROVE  [ServerNext]_serverVars
  OBVIOUS
<1>1. CASE EditFiles \/ FirstReload \/ TakeHangup \/ TakeTick \/ ReloadOn
  BY <1>1, ReloadOnStep DEF ServerNext
<1>2. CASE Calls
  BY <1>2 DEF Calls, AdmitCall, HandleCall, ServerNext
<1>3. CASE \/ Hangup \/ Terminate \/ TimerFires
           \/ Notify \/ Listen \/ Spawn \/ Drain \/ Drained \/ Joined \/ Exit
           \/ ServeFails \/ ReloaderStops \/ Gone
  BY <1>3, OutsideStep DEF ServerNext, StoreNext
<1>4. CASE UNCHANGED processVars
  BY <1>4 DEF processVars, serverVars
<1> QED
  BY <1>1, <1>2, <1>3, <1>4 DEF ProcessNext, Surroundings, MainStep

\* The command is a server at every moment: whatever signals, timers and
\* run's own steps do, they only end the context its reloads run under.
THEOREM ProcessImplementsServer == ProcessSpec => ServerSpec
<1>1. ProcessInit => ServerInit
  BY DEF ProcessInit
<1> QED
  BY <1>1, ProcessServerStep, PTL DEF ProcessSpec, ServerSpec

\* So the whole command keeps the gate's promises (run).
THEOREM ProcessImplementsGate == ProcessSpec => GateSpec
  BY ProcessImplementsServer, ServerImplementsGate, PTL

\* Whatever signals, timers, edits and the process's end do to a reload, every
\* table the command serves is whole, and each statement in it vouches for the
\* server configured under its name (run, Reload, Build).
THEOREM CommandServesSound == ProcessSpec => [](SnapshotSound /\ SnapshotComplete)
<1>1. ServerInvariant => SnapshotSound /\ SnapshotComplete
  BY DEF ServerInvariant, StoreInvariant
<1> QED
  BY <1>1, ProcessImplementsServer, ServerInvariantHolds, PTL

\* A SIGTERM, or a listener that fails, in the middle of a reload costs the
\* table that still goes into service at most its last entry (run, Build).
THEOREM CommandBlamesLast == ProcessSpec => []CancelBlamesLast
  BY ProcessImplementsServer, ServerImplementsStore, CancelCostsTheLast, PTL

\* Also while the command stops: a call it drains is as close to its answer
\* after each of its handler's steps as it is at any other time (run, whose
\* GracefulStop waits for these calls).
THEOREM CommandCallsGetOn == ProcessSpec => CallsMoveOn
  BY ProcessImplementsServer, CallsGetOn, PTL

\* Whatever hangups and ticks come meanwhile, a reload under way is finished
\* with the configuration it read, or ended with the context: they start
\* another one only after it (reloadOn).
THEOREM CommandReloadsMoveOn == ProcessSpec => ReloadMovesOn
  BY ProcessImplementsServer, ServerImplementsStore, ReloadsMoveOn, PTL

\* From its first call to the last one it drains, the command lets a call past
\* a backend only if the backend earned it (run, CheckRequest).
THEOREM CommandPassesEarned == ProcessSpec => []PassedAreEarned
  BY ProcessImplementsServer, CallsPassedAreEarned, PTL

-----------------------------------------------------------------------------
(* The order of run's steps.                                               *)

\* SIGHUP is handled from before the first reload until the reloader is
\* joined; the reloader lives within that time, and a reload is either run's
\* first or the reloader's.
Armed == {"armed", "loading", "loaded", "listening", "serving", "draining",
          "joining", "abandoning"}
Life ==
  /\ main \in Armed => handler
  /\ reloader = "running" => main \in {"serving", "draining", "joining",
                                       "abandoning"}
  /\ build # Idle => main = "loading" \/ reloader = "running"

LEMMA LifeStep == Life /\ [ProcessNext]_processVars => Life'
<1> SUFFICES ASSUME Life, [ProcessNext]_processVars
             PROVE  Life'
  OBVIOUS
<1> USE DEF Life, Armed, signalVars, serverVars, storeVars
<1>1. CASE EditFiles
  BY <1>1 DEF EditFiles, Edit, EditConfig, EditSource
<1>2. CASE Hangup
  BY <1>2 DEF Hangup
<1>3. CASE Terminate \/ TimerFires
  BY <1>3 DEF Terminate, TimerFires
<1>4. CASE Notify \/ Listen \/ Spawn \/ Drain
  BY <1>4 DEF Notify, Listen, Fail, Spawn, Drain
<1>5. CASE FirstReload
  BY <1>5 DEF FirstReload, StartReload
<1>6. CASE Drained \/ ServeFails
  BY <1>6 DEF Drained, ServeFails
<1>7. CASE Joined \/ Exit
  BY <1>7 DEF Joined, Exit
<1>8. CASE TakeHangup \/ TakeTick
  BY <1>8 DEF TakeHangup, TakeTick, Selecting, StartReload
<1>9. CASE ReloaderStops
  BY <1>9 DEF ReloaderStops, Selecting
<1>10. CASE FailReload
  BY <1>10 DEF FailReload, Fail, RefuseConfig, AbandonBuild
<1>11. CASE FinishReload
  BY <1>11 DEF FinishReload, Install
<1>12. CASE LoadTargets
  BY <1>12 DEF LoadTargets, AcceptConfig, NextTarget, FinishTarget, Idle
<1>13. CASE Calls
  <2>1. UNCHANGED <<build, main, reloader, handler>>
    BY <1>13, HandlersLeaveStore DEF Calls, AdmitCall, HandleCall
  <2> QED
    BY <2>1
<1>14. CASE Gone \/ UNCHANGED processVars
  BY <1>14 DEF Gone, processVars
<1> QED
  BY <1>1, <1>2, <1>3, <1>4, <1>5, <1>6, <1>7, <1>8, <1>9, <1>10, <1>11,
     <1>12, <1>13, <1>14 DEF ProcessNext, Surroundings, MainStep, ReloadOn

LEMMA LifeHolds == ProcessSpec => []Life
<1>1. ProcessInit => Life
  BY DEF ProcessInit, ServerInit, StoreInit, Life, Armed
<1> QED
  BY <1>1, LifeStep, PTL DEF ProcessSpec

\* When run has returned, no reload is under way and none will start (the
\* comment on joining the reloader).
THEOREM NothingRunsAfterReturn == ProcessSpec => []NothingAfterReturn
<1>1. Life => NothingAfterReturn
  BY DEF Life, NothingAfterReturn
<1> QED
  BY <1>1, LifeHolds, PTL

\* No interleaving of hangups with the start, a reload or the stop kills a
\* process that has announced itself (the comment on signal.Notify in run).
THEOREM HangupsAreSurvived == ProcessSpec => SurvivesHangup
<1>1. Life /\ [ProcessNext]_processVars
        => [Announced => main' # "killed"]_processVars
  <2> SUFFICES ASSUME Life, ProcessNext, Announced
               PROVE  main' # "killed"
    OBVIOUS
  <2>1. handler /\ main # "killed"
    BY DEF Life, Armed, Announced
  <2>2. CASE Hangup
    BY <2>1, <2>2 DEF Hangup
  <2>3. CASE Surroundings /\ ~Hangup
    BY <2>1, <2>3 DEF Surroundings, EditFiles, Terminate, TimerFires
  <2>4. CASE MainStep \/ ServeFails
    BY <2>4 DEF MainStep, ServeFails, Notify, FirstReload, Listen, Fail, Spawn,
                Drain, Drained, Joined, Exit
  <2>5. CASE TakeHangup \/ TakeTick \/ ReloaderStops \/ ReloadOn
    BY <2>1, <2>5 DEF TakeHangup, TakeTick, ReloaderStops, ReloadOn, FailReload,
                      Fail, FinishReload, LoadTargets
  <2>6. CASE Calls
    BY <2>1, <2>6 DEF Calls, AdmitCall, HandleCall
  <2>7. CASE Gone
    BY <2>1, <2>7 DEF Gone, processVars
  <2> QED
    BY <2>2, <2>3, <2>4, <2>5, <2>6, <2>7 DEF ProcessNext
<1> QED
  BY <1>1, LifeHolds, PTL DEF ProcessSpec, SurvivesHangup

-----------------------------------------------------------------------------
(* What calls find.                                                        *)

LEMMA ProcessServerInvariant == ProcessSpec => []ServerInvariant
  BY ProcessImplementsServer, ServerInvariantHolds, PTL

\* A table stays until another one replaces it.
LEMMA StaysLoaded ==
  ASSUME ServerInvariant, [ServerNext]_serverVars, snap # NoSnapshot \/ Install
  PROVE  snap' # NoSnapshot
<1>1. CASE Install
  <2>1. snap' \in Snapshot
    BY <1>1, NextShape
       DEF ServerInvariant, StoreInvariant, StoreTypeOK, Install, Snapshot,
           EntryTable
  <2> QED
    BY <2>1, PolicyAssumption
<1>2. CASE ~Install
  <2>1. CASE StoreNext
    BY <1>2, <2>1
       DEF StoreNext, ReloadStep, Edit, EditConfig, EditSource, Cancel,
           StartReload, RefuseConfig, AcceptConfig, NextTarget, AbandonBuild,
           FinishTarget
  <2>2. CASE \E h \in Callers : Admit(h) \/ Handle(h)
    BY <1>2, <2>2, HandlersLeaveStore DEF storeVars
  <2>3. CASE UNCHANGED serverVars
    BY <1>2, <2>3 DEF serverVars
  <2> QED
    BY <2>1, <2>2, <2>3 DEF ServerNext
<1> QED
  BY <1>1, <1>2

\* The service takes calls only after a first reload that succeeded.
Loaded ==
  /\ main \in {"loaded", "listening", "serving", "draining", "joining",
               "abandoning"} => snap # NoSnapshot
  /\ \A h \in Callers : calls[h].pc # "idle" => snap # NoSnapshot
  /\ NeverUnavailable

\* What one handler's step does to one call, when there is a table.
LEMMA NeverAnswersUnavailable ==
  ASSUME snap # NoSnapshot, NEW h \in Callers, Admit(h) \/ Handle(h),
         calls \in [Callers -> Call], NeverUnavailable
  PROVE  NeverUnavailable'
<1> USE DEF NeverUnavailable, Become, Returning
<1>1. CASE Receive(h)
  BY <1>1 DEF Receive
<1>2. CASE AnswerPassthrough(h) \/ CheckResponse(h)
  BY <1>2 DEF AnswerPassthrough, CheckResponse, Pass, Unavailable
<1>3. CASE TakeSnapshot(h)
  BY <1>3 DEF TakeSnapshot, Deciding
<1>4. CASE DecideTarget(h)
  BY <1>4 DEF DecideTarget, Deciding, Deny, Unavailable
<1>5. CASE PassAll(h)
  BY <1>5 DEF PassAll, Pass, Unavailable
<1>6. CASE Return(h)
  BY <1>6 DEF Return, NoCall
<1> QED
  BY <1>1, <1>2, <1>3, <1>4, <1>5, <1>6 DEF Admit, Handle, AnswerUnavailable

LEMMA LoadedStep ==
  Loaded /\ ServerInvariant /\ [ProcessNext]_processVars => Loaded'
<1> SUFFICES ASSUME Loaded, ServerInvariant, [ProcessNext]_processVars
             PROVE  Loaded'
  OBVIOUS
<1>1. snap # NoSnapshot \/ Install => snap' # NoSnapshot
  BY ProcessServerStep, StaysLoaded
<1>2. CASE Calls
  <2>1. PICK h \in Callers : AdmitCall(h) \/ HandleCall(h)
    BY <1>2 DEF Calls
  <2>2. Admit(h) \/ Handle(h)
    BY <2>1 DEF AdmitCall, HandleCall
  <2>3. snap # NoSnapshot
    BY <2>1
       DEF Loaded, AdmitCall, HandleCall, Handle, AnswerUnavailable,
           AnswerPassthrough, TakeSnapshot, DecideTarget, PassAll, Return
  <2>4. NeverUnavailable'
    BY <2>2, <2>3, NeverAnswersUnavailable DEF Loaded, ServerInvariant
  <2>5. main' = main
    BY <2>1 DEF AdmitCall, HandleCall
  <2> QED
    BY <1>1, <2>3, <2>4, <2>5 DEF Loaded
<1>3. CASE ~Calls
  <2>1. UNCHANGED calls
    BY <1>3
       DEF ProcessNext, Surroundings, EditFiles, Hangup, Terminate, TimerFires,
           MainStep, Notify, FirstReload, Listen, Spawn, Drain, Drained,
           Joined, Exit, ServeFails, TakeHangup, TakeTick, ReloaderStops,
           ReloadOn, FailReload, FinishReload, LoadTargets, Gone,
           serverVars, processVars
  <2>2. /\ \A h \in Callers : calls'[h].pc # "idle" => snap' # NoSnapshot
        /\ NeverUnavailable'
    BY <1>1, <2>1 DEF Loaded, NeverUnavailable
  <2>3. main' \in {"loaded", "listening", "serving", "draining", "joining",
                   "abandoning"}
          => \/ main \in {"loaded", "listening", "serving", "draining",
                          "joining", "abandoning"}
             \/ Install
    BY <1>3
       DEF ProcessNext, Surroundings, EditFiles, Hangup, Terminate, TimerFires,
           MainStep, Notify, FirstReload, Listen, Fail, Spawn, Drain, Drained,
           Joined, Exit, ServeFails, TakeHangup, TakeTick, ReloaderStops,
           ReloadOn, FailReload, FinishReload, LoadTargets, Gone,
           serverVars, processVars
  <2> QED
    BY <1>1, <2>2, <2>3 DEF Loaded
<1> QED
  BY <1>2, <1>3

\* No call is ever answered for want of a table: the service starts after a
\* first Reload that succeeded, and no later one takes the table away (run,
\* reloadOn).
THEOREM NoCallFindsItEmpty == ProcessSpec => []NeverUnavailable
<1>1. ProcessInit => Loaded
  BY DEF ProcessInit, ServerInit, NoCall, Loaded, NeverUnavailable
<1>2. Loaded => NeverUnavailable
  BY DEF Loaded
<1> QED
  BY <1>1, <1>2, LoadedStep, ProcessServerInvariant, PTL DEF ProcessSpec

-----------------------------------------------------------------------------
(* Hangups.                                                                *)

\* A build works from the configuration file as it is, and what it has
\* recorded of each target is what its source holds, or that the load failed.
UpToDate ==
  build.pc \in {"next", "verify"} =>
    /\ build.file = configFile
    /\ \A n \in DOMAIN ConfigOf[configFile].targets \ Pending :
         LET t == ConfigOf[configFile].targets[n]
         IN  build.entries[n] \in {Verify(t, content[t.attestation]),
                                  Refused("unreadable")}

\* Nothing has been edited since the hangup, and a reload has taken it.
HangupTaken == asked /\ ~hup /\ ~cancelled /\ ~Ended

HangupKept == HangupTaken => (build = Idle => InForce) /\ UpToDate

\* Steps that leave alone all that HangupKept is about.
LEMMA HangupKeptQuiet ==
  ASSUME HangupKept, UNCHANGED <<storeVars, asked, hup>>, Ended => Ended'
  PROVE  HangupKept'
<1>1. UNCHANGED <<configFile, content, snap, build, cancelled, asked, hup>>
  BY DEF storeVars
<1>2. HangupTaken' => HangupTaken
  BY <1>1 DEF HangupTaken
<1>3. InForce' = InForce
  BY <1>1 DEF InForce
<1>4. UpToDate' = UpToDate
  BY <1>1 DEF UpToDate, Pending
<1> QED
  BY <1>1, <1>2, <1>3, <1>4 DEF HangupKept

\* A build that has just accepted the configuration has recorded nothing.
LEMMA AcceptedUpToDate ==
  ASSUME AcceptConfig
  PROVE  UpToDate' /\ build' # Idle
<1>1. /\ build' = Building(configFile, DOMAIN ConfigOf[configFile].targets,
                           NoEntries)
      /\ UNCHANGED <<configFile, content>>
  BY DEF AcceptConfig
<1>2. /\ build'.pc = "next" /\ build'.file = configFile
      /\ build'.todo = DOMAIN ConfigOf[configFile].targets
  BY <1>1 DEF Building
<1> QED
  BY <1>1, <1>2 DEF UpToDate, Pending, Idle

LEMMA NextUpToDate ==
  ASSUME NextTarget, UpToDate
  PROVE  UpToDate' /\ build' # Idle
<1>1. PICK n \in build.todo : build' = Verifying(build, n)
  BY DEF NextTarget
<1>2. /\ build'.pc = "verify" /\ build'.file = build.file
      /\ build'.entries = build.entries
      /\ build'.todo = build.todo \ {n} /\ build'.target = n
  BY <1>1 DEF Verifying
<1>3. build.pc = "next" /\ UNCHANGED <<configFile, content>>
  BY DEF NextTarget
<1>4. Pending' = Pending
  BY <1>1, <1>2, <1>3 DEF Pending
<1> QED
  BY <1>2, <1>3, <1>4 DEF UpToDate, Idle

\* Unless the context has ended, a load gives what the source holds at that
\* moment, or fails.
LEMMA FinishedUpToDate ==
  ASSUME StoreInvariant, FinishTarget, UpToDate, ~cancelled
  PROVE  UpToDate' /\ build' # Idle
<1> DEFINE f == build.file
           m == build.target
           t == ConfigOf[f].targets[m]
<1>1. PICK outcome \in Outcomes(t.attestation) :
        build' = Building(f, build.todo,
                   [build.entries EXCEPT ![m] = Verify(t, outcome)])
  BY DEF FinishTarget
<1>2. /\ build'.pc = "next" /\ build'.file = f /\ build'.todo = build.todo
      /\ build'.entries = [build.entries EXCEPT ![m] = Verify(t, outcome)]
  BY <1>1 DEF Building
<1>3. /\ build.pc = "verify" /\ UNCHANGED <<configFile, content>>
      /\ f = configFile
  BY DEF FinishTarget, UpToDate
<1>4. /\ build.entries \in [Names -> Entry \cup {NoEntry}]
      /\ f \in ConfigFiles
  BY <1>3, VerifyShape DEF StoreInvariant, StoreTypeOK, EntryTable
<1>5. Verify(t, outcome) \in {Verify(t, content[t.attestation]),
                              Refused("unreadable")}
  BY <1>1 DEF Outcomes, Verify
<1>6. ASSUME NEW n \in DOMAIN ConfigOf[f].targets, n \notin build.todo
      PROVE  build'.entries[n] \in
               {Verify(ConfigOf[f].targets[n],
                       content[ConfigOf[f].targets[n].attestation]),
                Refused("unreadable")}
  <2>1. n \in Names
    BY <1>4, TargetType
  <2>2. CASE n = m
    BY <1>2, <1>4, <1>5, <1>6, <2>1, <2>2
  <2>3. CASE n # m
    <3>1. n \in DOMAIN ConfigOf[configFile].targets \ Pending
      BY <1>3, <1>6, <2>3 DEF Pending
    <3>2. build.entries[n] \in
            {Verify(ConfigOf[f].targets[n],
                    content[ConfigOf[f].targets[n].attestation]),
             Refused("unreadable")}
      BY <1>3, <1>6, <3>1 DEF UpToDate
    <3> QED
      BY <1>2, <1>4, <2>1, <2>3, <3>2
  <2> QED
    BY <2>2, <2>3
<1>7. Pending' = build.todo
  BY <1>2 DEF Pending
<1> QED
  BY <1>2, <1>3, <1>6, <1>7 DEF UpToDate, Idle

\* A build that is up to date brings into force what the files say.
LEMMA InstalledInForce ==
  ASSUME Install, UpToDate, snap' # NoSnapshot
  PROVE  InForce'
<1>1. /\ snap' = [config |-> build.file, entries |-> build.entries]
      /\ build.pc = "next" /\ build.todo = {}
      /\ UNCHANGED <<configFile, content>>
  BY DEF Install
<1>2. /\ build.file = configFile
      /\ \A n \in DOMAIN ConfigOf[configFile].targets :
           LET t == ConfigOf[configFile].targets[n]
           IN  build.entries[n] \in {Verify(t, content[t.attestation]),
                                    Refused("unreadable")}
  BY <1>1 DEF UpToDate, Pending
<1> QED
  BY <1>1, <1>2 DEF InForce

LEMMA HangupKeptStep ==
  HangupKept /\ ServerInvariant /\ [ProcessNext]_processVars => HangupKept'
<1> SUFFICES ASSUME HangupKept, ServerInvariant, [ProcessNext]_processVars
             PROVE  HangupKept'
  OBVIOUS
<1>1. CASE EditFiles
  BY <1>1 DEF EditFiles, HangupKept, HangupTaken
<1>2. CASE Hangup
  BY <1>2 DEF Hangup, HangupKept, HangupTaken, Ended
<1>3. CASE Terminate \/ Drained \/ ServeFails
  BY <1>3 DEF Terminate, Drained, ServeFails, HangupKept, HangupTaken
<1>4. CASE \/ TimerFires \/ Notify \/ Listen \/ Spawn \/ Drain \/ Joined
           \/ Exit \/ ReloaderStops \/ Gone \/ UNCHANGED processVars
  <2>1. UNCHANGED <<storeVars, asked, hup>> /\ (Ended => Ended')
    BY <1>4 DEF TimerFires, Notify, Listen, Fail, Spawn, Drain, Joined, Exit,
                ReloaderStops, Selecting, Gone, Ended, serverVars, storeVars,
                signalVars, processVars
  <2> QED
    BY <2>1, HangupKeptQuiet
<1>5. CASE FirstReload \/ TakeHangup \/ TakeTick
  <2>1. build' = Reading
    BY <1>5 DEF FirstReload, TakeHangup, TakeTick, StartReload
  <2> QED
    BY <2>1 DEF HangupKept, UpToDate, Reading, Idle
<1>6. CASE FailReload
  <2>1. CASE RefuseConfig
    <3>1. build' = Idle /\ ~ReadsConfig(configFile) /\ UNCHANGED configFile
      BY <2>1 DEF RefuseConfig
    <3> QED
      BY <3>1 DEF HangupKept, InForce, UpToDate, Idle
  <2>2. CASE AbandonBuild
    BY <2>2 DEF AbandonBuild, HangupKept, HangupTaken
  <2> QED
    BY <1>6, <2>1, <2>2 DEF FailReload
<1>7. CASE FinishReload
  <2>1. Install /\ ~Ended /\ UNCHANGED <<cancelled, asked, hup>>
    BY <1>7 DEF FinishReload, Install, signalVars
  <2>2. snap' # NoSnapshot
    BY <2>1, ProcessServerStep, StaysLoaded
  <2>3. build' = Idle
    BY <2>1 DEF Install
  <2>4. HangupTaken' => InForce'
    BY <2>1, <2>2, InstalledInForce DEF HangupKept, HangupTaken
  <2> QED
    BY <2>3, <2>4 DEF HangupKept, UpToDate, Idle
<1>8. CASE LoadTargets
  <2>1. /\ AcceptConfig \/ NextTarget \/ FinishTarget
        /\ ~Ended /\ UNCHANGED <<asked, hup>>
    BY <1>8 DEF LoadTargets, signalVars
  <2>2. UNCHANGED cancelled
    BY <2>1 DEF AcceptConfig, NextTarget, FinishTarget
  <2>3. HangupTaken' => UpToDate /\ ~cancelled
    BY <2>1, <2>2 DEF HangupKept, HangupTaken
  <2>4. HangupTaken' => UpToDate' /\ build' # Idle
    BY <2>1, <2>3, AcceptedUpToDate, NextUpToDate, FinishedUpToDate
       DEF ServerInvariant
  <2> QED
    BY <2>4 DEF HangupKept
<1>9. CASE Calls
  <2>1. UNCHANGED <<storeVars, main, signalVars>>
    BY <1>9, HandlersLeaveStore DEF Calls, AdmitCall, HandleCall
  <2>2. UNCHANGED <<storeVars, asked, hup>> /\ (Ended => Ended')
    BY <2>1 DEF signalVars, Ended
  <2> QED
    BY <2>2, HangupKeptQuiet
<1> QED
  BY <1>1, <1>2, <1>3, <1>4, <1>5, <1>6, <1>7, <1>8, <1>9
     DEF ProcessNext, Surroundings, MainStep, ReloadOn

\* No hangup is lost, whenever it comes: in the channel's one place several
\* become one, and the reload that takes it reads the files after it (run,
\* reloadOn).
THEOREM HangupsAreNotLost == ProcessSpec => []NoHangupLost
<1>1. ProcessInit => HangupKept
  BY DEF ProcessInit, HangupKept, HangupTaken
<1>2. HangupKept => NoHangupLost
  BY DEF HangupKept, HangupTaken, NoHangupLost
<1> QED
  BY <1>1, <1>2, HangupKeptStep, ProcessServerInvariant, PTL DEF ProcessSpec

-----------------------------------------------------------------------------
(* Waiting.                                                                *)

\* The reloader is born before run can wait for it, and stops only when its
\* context has ended.
Waits ==
  /\ main = "loading" => build # Idle
  /\ main \in {"serving", "draining", "joining", "abandoning"}
       => reloader \in {"running", "stopped"}
  /\ main \in {"joining", "abandoning"} => cancelled
  /\ reloader = "stopped" => cancelled

LEMMA WaitsStep == Waits /\ [ProcessNext]_processVars => Waits'
<1> SUFFICES ASSUME Waits, [ProcessNext]_processVars
             PROVE  Waits'
  OBVIOUS
<1> USE DEF Waits, signalVars, serverVars, storeVars
<1>1. CASE EditFiles
  BY <1>1 DEF EditFiles, Edit, EditConfig, EditSource
<1>2. CASE Hangup
  BY <1>2 DEF Hangup
<1>3. CASE Terminate \/ TimerFires
  BY <1>3 DEF Terminate, TimerFires
<1>4. CASE Notify \/ Listen \/ Spawn \/ Drain
  BY <1>4 DEF Notify, Listen, Fail, Spawn, Drain
<1>5. CASE FirstReload \/ TakeHangup \/ TakeTick
  <2>1. build' # Idle
    BY <1>5 DEF FirstReload, TakeHangup, TakeTick, StartReload, Reading, Idle
  <2> QED
    BY <1>5, <2>1 DEF FirstReload, TakeHangup, TakeTick, StartReload
<1>6. CASE Drained \/ ServeFails
  BY <1>6 DEF Drained, ServeFails
<1>7. CASE Joined \/ Exit
  BY <1>7 DEF Joined, Exit
<1>8. CASE ReloaderStops
  BY <1>8 DEF ReloaderStops
<1>9. CASE FailReload
  BY <1>9 DEF FailReload, Fail, RefuseConfig, AbandonBuild
<1>10. CASE FinishReload
  BY <1>10 DEF FinishReload, Install
<1>11. CASE LoadTargets
  <2>1. build' # Idle
    BY <1>11 DEF LoadTargets, AcceptConfig, NextTarget, FinishTarget, Building,
                 Verifying, Idle
  <2> QED
    BY <1>11, <2>1 DEF LoadTargets, AcceptConfig, NextTarget, FinishTarget
<1>12. CASE Calls
  <2>1. UNCHANGED <<build, cancelled, main, reloader>>
    BY <1>12, HandlersLeaveStore DEF Calls, AdmitCall, HandleCall
  <2> QED
    BY <2>1
<1>13. CASE Gone \/ UNCHANGED processVars
  BY <1>13 DEF Gone, processVars
<1> QED
  BY <1>1, <1>2, <1>3, <1>4, <1>5, <1>6, <1>7, <1>8, <1>9, <1>10, <1>11,
     <1>12, <1>13 DEF ProcessNext, Surroundings, MainStep, ReloadOn

\* Where run waits for its first reload, that reload is under way; where it waits
\* for the reloader, that exists and its context has ended; and as long as it
\* serves, hangups find a reloader (run, reloadOn).
THEOREM WaitsAreJustified == ProcessSpec => []NobodyWaitsInVain
<1>1. ProcessInit => Waits
  BY DEF ProcessInit, Waits
<1>2. Waits => NobodyWaitsInVain
  BY DEF Waits, NobodyWaitsInVain
<1> QED
  BY <1>1, <1>2, WaitsStep, PTL DEF ProcessSpec

-----------------------------------------------------------------------------
(* Types.                                                                  *)

LifecycleType ==
  /\ main \in Phases
  /\ handler \in BOOLEAN /\ hup \in BOOLEAN /\ tick \in BOOLEAN
  /\ reloader \in {"unborn", "running", "stopped"}
  /\ terminated \in BOOLEAN /\ asked \in BOOLEAN

LEMMA LifecycleTypeStep ==
  LifecycleType /\ [ProcessNext]_processVars => LifecycleType'
<1> SUFFICES ASSUME LifecycleType, [ProcessNext]_processVars
             PROVE  LifecycleType'
  OBVIOUS
<1> USE DEF LifecycleType, Phases, signalVars
<1>1. CASE Surroundings
  BY <1>1 DEF Surroundings, EditFiles, Hangup, Terminate, TimerFires
<1>2. CASE MainStep \/ ServeFails
  BY <1>2 DEF MainStep, ServeFails, Notify, FirstReload, Listen, Fail, Spawn,
              Drain, Drained, Joined, Exit
<1>3. CASE TakeHangup \/ TakeTick \/ ReloaderStops
  BY <1>3 DEF TakeHangup, TakeTick, ReloaderStops
<1>4. CASE ReloadOn
  BY <1>4 DEF ReloadOn, FailReload, Fail, FinishReload, LoadTargets
<1>5. CASE Calls
  BY <1>5 DEF Calls, AdmitCall, HandleCall
<1>6. CASE Gone \/ UNCHANGED processVars
  BY <1>6 DEF Gone, processVars
<1> QED
  BY <1>1, <1>2, <1>3, <1>4, <1>5, <1>6 DEF ProcessNext

\* The command's variables keep their types: run never leaves the phases
\* named here, whatever order signals, reloads and calls come in.
THEOREM ProcessTypeCorrect == ProcessSpec => []ProcessTypeOK
<1>1. ProcessInit => LifecycleType
  BY DEF ProcessInit, LifecycleType, Phases
<1>2. ServerTypeOK /\ LifecycleType => ProcessTypeOK
  BY DEF LifecycleType, ProcessTypeOK
<1> QED
  BY <1>1, <1>2, LifecycleTypeStep, ProcessImplementsServer, ServerTypeCorrect,
     PTL DEF ProcessSpec
=============================================================================
