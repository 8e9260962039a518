------------------------------ MODULE Process ------------------------------
(***************************************************************************)
(* The command agentgateway-extmcp: main, the goroutine that reloads the   *)
(* store on SIGHUP and on a timer, the handler goroutines of the service,  *)
(* and the signals, from the first instruction of run to the process's     *)
(* end.                                                                    *)
(***************************************************************************)
EXTENDS Server

CONSTANT Interval  \* -reload-interval is positive

ASSUME ProcessAssumption == Interval \in BOOLEAN

VARIABLES
  main,        \* where run is
  handler,     \* SIGHUP is delivered to the channel hup
  hup, tick,   \* the two channels of capacity one hold something
  reloader,    \* the goroutine that runs reloadOn
  terminated,  \* main's context ended, on SIGINT or SIGTERM
  asked        \* history: a SIGHUP was sent since the last edit

signalVars == <<handler, hup, tick, terminated, asked>>
processVars == <<configFile, content, snap, build, cancelled, calls,
                 main, handler, hup, tick, reloader, terminated, asked>>

Phases == {"boot", "armed", "loading", "loaded", "listening", "serving",
           "draining", "joining", "leaving", "exited",
           "abandoning", "failing", "failed", "killed"}

ProcessTypeOK ==
  /\ ServerTypeOK
  /\ main \in Phases
  /\ handler \in BOOLEAN /\ hup \in BOOLEAN /\ tick \in BOOLEAN
  /\ reloader \in {"unborn", "running", "stopped"}
  /\ terminated \in BOOLEAN /\ asked \in BOOLEAN

Ended == main \in {"exited", "failed", "killed"}

ProcessInit ==
  /\ ServerInit
  /\ main = "boot"
  /\ handler = FALSE /\ hup = FALSE /\ tick = FALSE
  /\ reloader = "unborn"
  /\ terminated = FALSE /\ asked = FALSE

-----------------------------------------------------------------------------
(* The surroundings: edits, signals and the clock.                         *)

EditFiles ==
  /\ ~Ended
  /\ Edit
  /\ asked' = FALSE
  /\ UNCHANGED <<calls, main, handler, hup, tick, reloader, terminated>>

\* Fault: the channel has no buffer, and signal.Notify does not wait.
HangupUnbuffered ==
  /\ ~Ended
  /\ asked' = TRUE
  /\ IF handler
     THEN /\ hup' = (hup \/ (reloader = "running" /\ build = Idle))
          /\ UNCHANGED main
     ELSE main' = "killed" /\ UNCHANGED hup
  /\ UNCHANGED <<storeVars, calls, handler, tick, reloader, terminated>>

\* SIGHUP.  Without a handler it takes the default action; with one it stays
\* in the channel's buffer, where several become one.
Hangup ==
  /\ ~Ended
  /\ asked' = TRUE
  /\ IF handler THEN hup' = TRUE /\ UNCHANGED main
                ELSE main' = "killed" /\ UNCHANGED hup
  /\ UNCHANGED <<storeVars, calls, handler, tick, reloader, terminated>>

\* SIGINT or SIGTERM ends main's context and those derived from it.  Later
\* ones are swallowed.
Terminate ==
  /\ ~Ended /\ ~terminated
  /\ terminated' = TRUE /\ cancelled' = TRUE
  /\ UNCHANGED <<files, snap, build, calls, main, handler, hup, tick, reloader,
                 asked>>

\* The ticker, which drops what the reloader is too slow for.
TimerFires ==
  /\ Interval /\ reloader = "running" /\ ~tick /\ ~Ended
  /\ tick' = TRUE
  /\ UNCHANGED <<serverVars, main, handler, hup, reloader, terminated, asked>>

-----------------------------------------------------------------------------
(* main: run, in its order.                                                *)

\* Fault: SIGHUP is left to its default action.
NotifyForgotten ==
  /\ main = "boot"
  /\ main' = "armed"
  /\ UNCHANGED <<serverVars, reloader, signalVars>>

Notify ==
  /\ main = "boot"
  /\ main' = "armed" /\ handler' = TRUE
  /\ UNCHANGED <<serverVars, hup, tick, reloader, terminated, asked>>

FirstReload ==
  /\ main = "armed"
  /\ StartReload
  /\ main' = "loading"
  /\ UNCHANGED <<calls, reloader, signalVars>>

\* run returns an error; the deferred signal.Stop comes before main's end.
Fail == main' = "failing" /\ handler' = FALSE

\* The address may be taken.
Listen ==
  /\ main = "loaded"
  /\ Fail \/ (main' = "listening" /\ UNCHANGED handler)
  /\ UNCHANGED <<serverVars, reloader, hup, tick, terminated, asked>>

\* The reloader and the service start.
Spawn ==
  /\ main = "listening"
  /\ main' = "serving" /\ reloader' = "running"
  /\ UNCHANGED <<serverVars, signalVars>>

\* The select sees the context ended: GracefulStop.
Drain ==
  /\ main = "serving" /\ terminated
  /\ main' = "draining"
  /\ UNCHANGED <<serverVars, reloader, signalVars>>

\* GracefulStop returns when no call is pending; then the deferred stopReload.
Drained ==
  /\ main = "draining" /\ \A h \in Callers : calls[h].pc = "idle"
  /\ main' = "joining" /\ cancelled' = TRUE
  /\ UNCHANGED <<files, snap, build, calls, reloader, signalVars>>

\* Fault: the reloader is joined without its context being ended.
ServeFailsUncancelled ==
  /\ main = "serving"
  /\ main' = "abandoning"
  /\ UNCHANGED <<serverVars, reloader, signalVars>>

\* Serve returns an error; the deferred stopReload follows at once.
ServeFails ==
  /\ main = "serving"
  /\ main' = "abandoning" /\ cancelled' = TRUE
  /\ UNCHANGED <<files, snap, build, calls, reloader, signalVars>>

\* Fault: run returns without waiting for the reloader.
JoinNobody ==
  /\ main \in {"joining", "abandoning"}
  /\ main' = IF main = "joining" THEN "leaving" ELSE "failing"
  /\ handler' = FALSE
  /\ UNCHANGED <<serverVars, hup, tick, reloader, terminated, asked>>

\* The reloader has returned; then the deferred signal.Stop.
Joined ==
  /\ main \in {"joining", "abandoning"} /\ reloader = "stopped"
  /\ main' = IF main = "joining" THEN "leaving" ELSE "failing"
  /\ handler' = FALSE
  /\ UNCHANGED <<serverVars, hup, tick, reloader, terminated, asked>>

Exit ==
  /\ main \in {"leaving", "failing"}
  /\ main' = IF main = "leaving" THEN "exited" ELSE "failed"
  /\ UNCHANGED <<serverVars, reloader, signalVars>>

-----------------------------------------------------------------------------
(* Reloads: the first is main's own, the others the reloader's.            *)

\* The reloader waits in its select.
Selecting == reloader = "running" /\ build = Idle /\ ~Ended

TakeHangup ==
  /\ Selecting /\ hup
  /\ hup' = FALSE
  /\ StartReload
  /\ UNCHANGED <<calls, main, handler, tick, reloader, terminated, asked>>

TakeTick ==
  /\ Selecting /\ tick
  /\ tick' = FALSE
  /\ StartReload
  /\ UNCHANGED <<calls, main, handler, hup, reloader, terminated, asked>>

ReloaderStops ==
  /\ Selecting /\ cancelled
  /\ reloader' = "stopped"
  /\ UNCHANGED <<serverVars, main, signalVars>>

\* Fault: main goes on after a first reload that failed.
FailReloadUnnoticed ==
  /\ ~Ended
  /\ RefuseConfig \/ AbandonBuild
  /\ main' = IF main = "loading" THEN "loaded" ELSE main
  /\ UNCHANGED <<calls, reloader, signalVars>>

\* Fault: the reloader returns on the first reload that fails.
FailReloadForGood ==
  /\ ~Ended
  /\ RefuseConfig \/ AbandonBuild
  /\ IF main = "loading"
     THEN Fail /\ UNCHANGED reloader
     ELSE reloader' = "stopped" /\ UNCHANGED <<main, handler>>
  /\ UNCHANGED <<calls, hup, tick, terminated, asked>>

\* Reload returns an error.  It ends main; the reloader logs it and goes on.
FailReload ==
  /\ ~Ended
  /\ RefuseConfig \/ AbandonBuild
  /\ IF main = "loading" THEN Fail ELSE UNCHANGED <<main, handler>>
  /\ UNCHANGED <<calls, reloader, hup, tick, terminated, asked>>

FinishReload ==
  /\ ~Ended
  /\ Install
  /\ main' = IF main = "loading" THEN "loaded" ELSE main
  /\ UNCHANGED <<calls, reloader, signalVars>>

LoadTargets ==
  /\ ~Ended
  /\ AcceptConfig \/ NextTarget \/ FinishTarget
  /\ UNCHANGED <<calls, main, reloader, signalVars>>

-----------------------------------------------------------------------------
(* The service's handlers.                                                 *)

\* A server that stops gracefully takes no new calls; one whose listener
\* failed still takes those of the connections it has.
AdmitCall(h) ==
  /\ main \in {"serving", "abandoning"}
  /\ Admit(h)
  /\ UNCHANGED <<main, reloader, signalVars>>

HandleCall(h) ==
  /\ ~Ended
  /\ Handle(h)
  /\ UNCHANGED <<main, reloader, signalVars>>

-----------------------------------------------------------------------------

Surroundings == EditFiles \/ Hangup \/ Terminate \/ TimerFires

MainStep ==
  Notify \/ FirstReload \/ Listen \/ Spawn \/ Drain \/ Drained \/ Joined \/ Exit

ReloadOn == FailReload \/ FinishReload \/ LoadTargets

Calls == \E h \in Callers : AdmitCall(h) \/ HandleCall(h)

Gone == Ended /\ UNCHANGED processVars

ProcessNext ==
  \/ Surroundings
  \/ MainStep \/ ServeFails
  \/ TakeHangup \/ TakeTick \/ ReloaderStops \/ ReloadOn
  \/ Calls
  \/ Gone

\* Goroutines that can run do run, and a select whose case is ready again and
\* again does not pass it over for ever.  Nothing is assumed of edits, signals,
\* calls coming in, loads or the ticker.
HandlersRun == \A h \in Callers : WF_processVars(HandleCall(h))
Fairness ==
  /\ WF_processVars(MainStep)
  /\ SF_processVars(TakeHangup) /\ SF_processVars(TakeTick)
  /\ SF_processVars(ReloaderStops)
  /\ HandlersRun

\* What some properties assume besides: a load returns, a fetch at the latest
\* on its deadline; the ticker ticks.
LoadsReturn == WF_processVars(ReloadOn)
TickerTicks == WF_processVars(TimerFires)

ProcessSpec == ProcessInit /\ [][ProcessNext]_processVars
FairProcessSpec == ProcessSpec /\ Fairness

-----------------------------------------------------------------------------

\* The process is ready for its clients, which may signal it.
Announced == main \in {"listening", "serving", "draining", "joining",
                       "abandoning"}

\* No call finds the store empty, and no reload empties it: the service
\* starts after a first Reload that succeeded.
NeverUnavailable ==
  \A h \in Callers :
    calls[h].pc = "returning" => calls[h].answer # Unavailable

\* A hangup does not kill a process that has announced itself (the comment on
\* signal.Notify in run).
SurvivesHangup == [][Announced => main' # "killed"]_processVars

\* When run has returned, no reload is under way and none will start (the
\* comment on joining the reloader).
NothingAfterReturn ==
  main \in {"leaving", "failing", "exited", "failed"} =>
    reloader # "running" /\ build = Idle

\* The table in service says what the files say: each target has been judged on
\* what its source holds, or is recorded as unreadable where its load failed, as
\* any load may.
InForce ==
  ReadsConfig(configFile) =>
    /\ snap # NoSnapshot /\ snap.config = configFile
    /\ \A n \in DOMAIN ConfigOf[configFile].targets :
         LET t == ConfigOf[configFile].targets[n]
         IN  snap.entries[n] \in {Verify(t, content[t.attestation]),
                                 Refused("unreadable")}

\* A hangup sent after the last edit is never lost: it waits in the channel,
\* or a reload that took it is under way, or what the files say is in
\* force, unless the reloader's context has ended or the process has.  A reload
\* under way when it came does not count for it (hup's buffer, reloadOn).
NoHangupLost ==
  (asked /\ ~hup /\ build = Idle) => (InForce \/ cancelled \/ Ended)

\* run waits for its first reload only while that is under way, and for the
\* reloader only once the reloader's context has ended; and the hangups of a
\* process that serves wait for a reloader that no failure has stopped (run,
\* reloadOn).
NobodyWaitsInVain ==
  /\ main = "loading" => build # Idle
  /\ main \in {"joining", "abandoning"} => reloader # "unborn" /\ cancelled
  /\ main = "serving" => reloader = "running" \/ cancelled

Stopping == terminated \/ main = "abandoning" \/ Ended

\* A hangup sent after the last edit brings that edit into force, also when
\* it meets a reload under way or other hangups (hup, reloadOn), and however
\* slow the ticker is.
HangupTakesEffect ==
  (LoadsReturn /\ <>[]asked) => <>[](InForce \/ Stopping)

\* With an interval, edits come into force without a hangup.
IntervalTakesEffect ==
  (Interval /\ LoadsReturn /\ TickerTicks /\ <>[][FALSE]_files)
    => <>[](InForce \/ Stopping)

\* GracefulStop comes to its end though a reload hangs for good on a source: the
\* calls it waits for need no more than the table that is in service, and end by
\* themselves (run; Snapshot and Reload, which hold the lock only to read or swap
\* the pointer).
DrainEnds == main = "draining" ~> main # "draining"

\* Told to stop, or without its listener, the process ends: whatever calls are
\* in progress, and whatever reload is under way (run).
ShutsDown ==
  LoadsReturn => ((terminated \/ main = "abandoning") ~> Ended)
=============================================================================
