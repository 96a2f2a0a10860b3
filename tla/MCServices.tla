------------------------------ MODULE MCServices ------------------------------
(* Small instances of the goroutines that start, stop and wait: the timer   *)
(* wheel, the servers and their reloads, the shutdown of a node, the update *)
(* worker and the batch writer.  The parts share no state: a behaviour is   *)
(* one of one of them, the one part names, and the others stay where they   *)
(* started.                                                                 *)
EXTENDS DNSServer, StatsServer, SSHServer, Lifecycle, LightHouseWorkers,
        TimerWheel, UDPBatch

VARIABLE part

Part == {"dns", "stats", "ssh", "lifecycle", "workers", "wheel", "batch"}

mcVars == <<part, dnsVars, statsVars, sshVars, lcVars, workerVars, wheelVars,
            batchVars>>

\* stats.go: a listener that can fail, and an emitter without one.
MCStatsConfig ==
  {[typ |-> "prometheus", interval |-> 1, listen |-> TRUE],
   [typ |-> "graphite", interval |-> 1, listen |-> FALSE]}

-----------------------------------------------------------------------------

\* A part that stays out starts with its service turned off.
Init ==
  /\ part \in Part
  /\ DNSInit /\ (part = "dns" \/ dns = [enabled |-> FALSE, addr |-> "a1", server |-> 0])
  /\ StatsInit /\ (part = "stats" \/ ~stats.enabled)
  /\ SSHInit /\ (part = "ssh" \/ ssh.cfg = [enabled |-> FALSE, listen |-> "a1", keys |-> {}])
  /\ LifecycleInit /\ (part = "lifecycle" \/ ~hostDNS.enabled)
  /\ NewLightHouse /\ (part = "workers" \/ conf = [interval |-> 0, lighthouses |-> {"l1"},
                                                   relays |-> "ra", addrs |-> "a1"])
  /\ WheelInit
  /\ BatchInit /\ (part = "batch" \/ gsoSupported)

\* A step of part p.
Only(p) ==
  /\ part = p /\ UNCHANGED part
  /\ IF p = "dns" THEN TRUE ELSE UNCHANGED dnsVars
  /\ IF p = "stats" THEN TRUE ELSE UNCHANGED statsVars
  /\ IF p = "ssh" THEN TRUE ELSE UNCHANGED sshVars
  /\ IF p = "lifecycle" THEN TRUE ELSE UNCHANGED lcVars
  /\ IF p = "workers" THEN TRUE ELSE UNCHANGED workerVars
  /\ IF p = "wheel" THEN TRUE ELSE UNCHANGED wheelVars
  /\ IF p = "batch" THEN TRUE ELSE UNCHANGED batchVars

Next ==
  \/ Only("dns") /\ DNSNext
  \/ Only("stats") /\ StatsNext
  \/ Only("ssh") /\ SSHNext
  \/ Only("lifecycle") /\ LifecycleNext
  \/ Only("workers") /\ WorkersNext
  \/ Only("wheel") /\ WheelNext
  \/ Only("batch") /\ BatchNext

-----------------------------------------------------------------------------
(* The fairness of each part.  Only one of them takes steps, so that a      *)
(* formula may be about an action of each: the k-th goroutine of whichever  *)
(* service it is, and up to three actions more.                             *)

Goroutine(k) ==
  \/ Only("dns") /\ k \in 1..Len(starts) /\ DNSStartSteps(k)
  \/ Only("stats") /\ k \in 1..Len(runtimes) /\ StatsStartSteps(k)
  \/ Only("ssh") /\ k \in 1..Len(runs) /\ RunSteps(k)
  \/ Only("workers") /\ k \in 1..Len(workers) /\ WorkerSteps(k)

\* A select that again and again could end the goroutine, or a mutex that is
\* free again and again.
StopperNo == <<"signal", "embedder", "onFatal">>
Chosen(k) ==
  \/ Only("stats") /\ k \in 1..Len(runtimes) /\ LoopEnds(k)
  \/ Only("lifecycle") /\ StopLocks(StopperNo[k])
  \/ Only("workers") /\ k \in 1..Len(workers) /\ WorkerSelects(k) /\ WorkerDone(k)

Loop(k) ==
  \/ Only("stats") /\ k \in 1..Len(runtimes) /\ Captured(k)
  \/ Only("lifecycle") /\ StopSteps(StopperNo[k])

First ==
  \/ Only("dns") /\ DNSReloadSteps
  \/ Only("stats") /\ StatsReloadSteps
  \/ Only("ssh") /\ \E s \in sessions : SessionEnds(s)
  \/ Only("lifecycle") /\ StartSteps
  \/ Only("workers") /\ Start
  \/ Only("wheel") /\ Pass
  \/ Only("batch") /\ Proceeds

Second ==
  \/ Only("lifecycle") /\ HostDNSStart
  \/ Only("wheel") /\ Advance

Third(r) ==
  \/ Only("lifecycle") /\ ReaderExits(r)
  \/ Only("wheel") /\ Purge

Spec ==
  /\ Init /\ [][Next]_mcVars
  /\ \A k \in 1..3 : WF_mcVars(Goroutine(k)) /\ SF_mcVars(Chosen(k)) /\ WF_mcVars(Loop(k))
  /\ WF_mcVars(First) /\ WF_mcVars(Second)
  /\ \A r \in Reader : WF_mcVars(Third(r))
=============================================================================
