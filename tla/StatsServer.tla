----------------------------- MODULE StatsServer -----------------------------
(***************************************************************************)
(* The stats emitter (stats.go): a runtime is a capture loop and, for      *)
(* prometheus, an HTTP listener.  Control.Start and reloads start          *)
(* runtimes, reloads stop them, a listener may fail by itself.             *)
(*                                                                         *)
(* runMu is held for whole steps except by StatsStop, which holds it while *)
(* it waits for the last pass of the loop.                                 *)
(***************************************************************************)
EXTENDS Naturals, Sequences, FiniteSets

CONSTANTS
  StatsConfig,    \* configurations: [typ, interval, listen]
  MaxStatsReload  \* bound: reloads

VARIABLES
  stats,     \* enabled, runCfg, run, loopDone (a runtime) and who holds runMu
  runtimes,  \* every Start goroutine, with the runtime it built
  statsReload,    \* the reload callback in progress
  statsCtxDone,   \* the service context is cancelled
  panicked   \* a goroutine panicked and the process is gone

statsVars == <<stats, runtimes, statsReload, statsCtxDone, panicked>>

NoConfig == [typ |-> "unset", interval |-> 0, listen |-> FALSE]
Disabled == [typ |-> "none", interval |-> 0, listen |-> FALSE]
NewStatsStart == [pc |-> "check", cfg |-> NoConfig, cancelled |-> FALSE,
             open |-> FALSE, failed |-> FALSE, loop |-> "none"]

\* newStatsServerFromConfig, up to Control.Start: go statsStart
StatsInit ==
  /\ \E cfg \in StatsConfig \cup {Disabled} :
       stats = [enabled |-> cfg # Disabled, runCfg |-> cfg, run |-> 0,
                loopDone |-> 0, locked |-> FALSE]
  /\ runtimes = <<NewStatsStart>>
  /\ statsReload = [pc |-> "idle", n |-> 0]
  /\ statsCtxDone = FALSE
  /\ panicked = FALSE

-----------------------------------------------------------------------------
(* Start.                                                                  *)

RuntimeAt(s, pc) == runtimes[s].pc = pc /\ ~panicked
RuntimeGoto(s, pc) == runtimes' = [runtimes EXCEPT ![s].pc = pc]
Done(s) == runtimes[s].cancelled \/ statsCtxDone

StatsStartChecks(s) ==
  /\ RuntimeAt(s, "check")
  /\ RuntimeGoto(s, IF stats.enabled THEN "lock" ELSE "done")
  /\ UNCHANGED <<stats, statsReload, statsCtxDone, panicked>>

\* Under runMu: buildRuntime from the configuration of now.
StartBuilds(s) ==
  /\ RuntimeAt(s, "lock") /\ ~stats.locked
  /\ IF statsCtxDone \/ stats.run # 0 \/ stats.runCfg = NoConfig
     THEN RuntimeGoto(s, "done") /\ UNCHANGED stats
     ELSE /\ runtimes' = [runtimes EXCEPT ![s].pc = "prime",
                                          ![s].cfg = stats.runCfg]
          /\ stats' = [stats EXCEPT !.run = s, !.loopDone = s]
  /\ UNCHANGED <<statsReload, statsCtxDone, panicked>>

\* The first capture, the loop's goroutine, and the listener if there is one.
\* time.NewTicker panics when the interval is not positive.
StartServes(s) ==
  /\ RuntimeAt(s, "prime")
  /\ runtimes' = [runtimes EXCEPT ![s].pc = "serve", ![s].loop = "wait",
                                  ![s].open = runtimes[s].cfg.listen
                                                /\ ~Done(s)]
  /\ panicked' = (runtimes[s].cfg.interval = 0)
  /\ UNCHANGED <<stats, statsReload, statsCtxDone>>

ListenerFails(s) ==
  /\ RuntimeAt(s, "serve") /\ runtimes[s].open
  /\ runtimes' = [runtimes EXCEPT ![s].open = FALSE, ![s].failed = TRUE]
  /\ UNCHANGED <<stats, statsReload, statsCtxDone, panicked>>

\* serveListener's watcher
StatsWatcher(s) ==
  /\ RuntimeAt(s, "serve") /\ statsCtxDone /\ runtimes[s].open
  /\ runtimes' = [runtimes EXCEPT ![s].open = FALSE]
  /\ UNCHANGED <<stats, statsReload, statsCtxDone, panicked>>

StartReturns(s) ==
  /\ RuntimeAt(s, "serve")
  /\ IF runtimes[s].cfg.listen THEN ~runtimes[s].open ELSE Done(s)
  /\ RuntimeGoto(s, "clear")
  /\ UNCHANGED <<stats, statsReload, statsCtxDone, panicked>>

\* Mutant of StartClears: the loop of a runtime whose listener failed is not
\* cancelled.
ClearsOnly(s) ==
  /\ RuntimeAt(s, "clear") /\ ~stats.locked
  /\ runtimes' = [runtimes EXCEPT ![s].pc = "done"]
  /\ stats' = IF stats.run # s THEN stats
              ELSE [stats EXCEPT !.run = 0, !.runCfg =
                      IF runtimes[s].failed THEN NoConfig ELSE @]
  /\ UNCHANGED <<statsReload, statsCtxDone, panicked>>

\* The runtime is cleared unless it was replaced; after a failure the
\* configuration is forgotten too, so that the next reload tries again.
StartClears(s) ==
  /\ RuntimeAt(s, "clear") /\ ~stats.locked
  /\ IF stats.run # s
     THEN RuntimeGoto(s, "done") /\ UNCHANGED stats
     ELSE /\ runtimes' = [runtimes EXCEPT ![s].pc = "done",
                                          ![s].cancelled = TRUE]
          /\ stats' = [stats EXCEPT !.run = 0, !.runCfg =
                         IF runtimes[s].failed THEN NoConfig ELSE @]
  /\ UNCHANGED <<statsReload, statsCtxDone, panicked>>

-----------------------------------------------------------------------------
(* captureStatsLoop.                                                       *)

Tick(s) ==
  /\ runtimes[s].loop = "wait" /\ ~panicked
  /\ runtimes' = [runtimes EXCEPT ![s].loop = "capture"]
  /\ UNCHANGED <<stats, statsReload, statsCtxDone, panicked>>

Captured(s) ==
  /\ runtimes[s].loop = "capture" /\ ~panicked
  /\ runtimes' = [runtimes EXCEPT ![s].loop = "wait"]
  /\ UNCHANGED <<stats, statsReload, statsCtxDone, panicked>>

LoopEnds(s) ==
  /\ runtimes[s].loop = "wait" /\ Done(s) /\ ~panicked
  /\ runtimes' = [runtimes EXCEPT ![s].loop = "done"]
  /\ UNCHANGED <<stats, statsReload, statsCtxDone, panicked>>

-----------------------------------------------------------------------------
(* reload, by the configuration's callback.                                *)

\* loadStatsConfig may refuse the stanza: then nothing changes.
StatsReloadBegins(cfg) ==
  /\ statsReload.pc = "idle" /\ statsReload.n < MaxStatsReload /\ ~stats.locked
  /\ ~panicked
  /\ stats' = [stats EXCEPT !.runCfg = cfg]
  /\ statsReload' = [pc |-> "enable", n |-> statsReload.n + 1, cfg |-> cfg,
                same |-> stats.runCfg = cfg]
  /\ UNCHANGED <<runtimes, statsCtxDone, panicked>>

ReloadEnables ==
  /\ statsReload.pc = "enable" /\ ~panicked
  /\ stats' = [stats EXCEPT !.enabled = statsReload.cfg # Disabled]
  /\ statsReload' = [statsReload EXCEPT !.pc = IF statsReload.same THEN "idle" ELSE "stop"]
  /\ UNCHANGED <<runtimes, statsCtxDone, panicked>>

\* StatsStop takes runMu, cancels the runtime and shuts its listener down.
StatsStop ==
  /\ statsReload.pc = "stop" /\ ~stats.locked /\ ~panicked
  /\ stats' = [stats EXCEPT !.run = 0, !.locked = TRUE]
  /\ runtimes' = IF stats.run = 0 THEN runtimes
                 ELSE [runtimes EXCEPT ![stats.run].cancelled = TRUE,
                                       ![stats.run].open = FALSE]
  /\ statsReload' = [statsReload EXCEPT !.pc = "wait"]
  /\ UNCHANGED <<statsCtxDone, panicked>>

\* The rest of it: <-s.loopDone, still with runMu
StatsStopWaits ==
  /\ statsReload.pc = "wait" /\ ~panicked
  /\ stats.loopDone # 0 => runtimes[stats.loopDone].loop = "done"
  /\ stats' = [stats EXCEPT !.locked = FALSE]
  /\ statsReload' = [statsReload EXCEPT !.pc = "start"]
  /\ UNCHANGED <<runtimes, statsCtxDone, panicked>>

StatsGoStart ==
  /\ statsReload.pc = "start" /\ ~panicked
  /\ runtimes' = IF statsReload.cfg = Disabled THEN runtimes
                 ELSE Append(runtimes, NewStatsStart)
  /\ statsReload' = [pc |-> "idle", n |-> statsReload.n]
  /\ UNCHANGED <<stats, statsCtxDone, panicked>>

StatsCancelled ==
  /\ ~statsCtxDone /\ ~panicked
  /\ statsCtxDone' = TRUE
  /\ UNCHANGED <<stats, runtimes, statsReload, panicked>>

-----------------------------------------------------------------------------

StatsStartSteps(s) ==
  \/ StatsStartChecks(s) \/ StartBuilds(s) \/ StartServes(s) \/ StartReturns(s)
  \/ StartClears(s) \/ StatsWatcher(s)
LoopSteps(s) == Captured(s) \/ LoopEnds(s)
StatsReloadSteps == ReloadEnables \/ StatsStop \/ StatsStopWaits \/ StatsGoStart

StatsNext ==
  \/ \E s \in 1..Len(runtimes) :
       StatsStartSteps(s) \/ LoopSteps(s) \/ ListenerFails(s) \/ Tick(s)
  \/ StatsReloadSteps
  \/ \E cfg \in StatsConfig \cup {Disabled} : StatsReloadBegins(cfg)
  \/ StatsCancelled

\* Goroutines are scheduled, a capture ends (an export has a timeout), and a
\* select between a tick and the end of the context does not always tick.
StatsFairness ==
  /\ \A s \in 1..MaxStatsReload + 1 :
       /\ WF_statsVars(s \in 1..Len(runtimes) /\ StatsStartSteps(s))
       /\ WF_statsVars(s \in 1..Len(runtimes) /\ Captured(s))
       /\ SF_statsVars(s \in 1..Len(runtimes) /\ LoopEnds(s))
  /\ WF_statsVars(StatsReloadSteps)

StatsSpec == StatsInit /\ [][StatsNext]_statsVars /\ StatsFairness

-----------------------------------------------------------------------------

\* A reload that stops a runtime ends: it waits with runMu for a loop that
\* never needs runMu, and a runtime stops capturing once it is out of the
\* slot.
StatsReloadEnds ==
  /\ []<>(statsReload.pc = "idle" \/ panicked)
  /\ <>[](\A s \in 1..Len(runtimes) :
            runtimes[s].pc = "done" => runtimes[s].loop \in {"none", "done"} \/ panicked)
=============================================================================
