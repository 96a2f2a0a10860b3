------------------------------ MODULE Lifecycle ------------------------------
(***************************************************************************)
(* Starting and stopping a node: Control (control.go), the interface's     *)
(* readers and Close (interface.go) and the host's DNS (hostdns.go).       *)
(*                                                                         *)
(* Stop may be called by anyone, at any time and more than once: by the    *)
(* embedder, by a signal, and by the first reader that fails.  stateLock   *)
(* is held by Start throughout and by Stop at its beginning and while it   *)
(* closes the interface.  The library that edits the host's resolver is    *)
(* external: it has a goal, and Close removes what was applied.            *)
(***************************************************************************)
EXTENDS Naturals, Sequences, FiniteSets

CONSTANTS
  Reader,      \* the packet readers, of the udp sockets and the tun device
  Caller,      \* who may call Stop, besides a failing reader
  MaxReloads   \* bound: reloads of the dns stanza

VARIABLES
  control,    \* state, and the one that holds stateLock
  starting,   \* Control.Start
  stops,      \* the calls of Stop
  readers,    \* reader -> "off", "reading" or "exited"
  iface,      \* closed, woken (Shutdown was called), released, token
  fatalErr,   \* a reader failed before the teardown
  ctxDone,    \* the service context is cancelled
  hostDNS,    \* state, the stanza is enabled, the goal of the manager
  dnsStart,   \* the goroutine of hostDNSStart
  reloads

control_ == <<control, starting, stops>>
interface_ == <<readers, iface, fatalErr, ctxDone>>
dns_ == <<hostDNS, dnsStart, reloads>>
lcVars == <<control, starting, stops, readers, iface, fatalErr, ctxDone,
            hostDNS, dnsStart, reloads>>

Stopper == Caller \cup {"onFatal"}

\* Main returned: hostDNS.Recover has asked to remove what a crashed run left.
LifecycleInit ==
  /\ control = [state |-> "Ready", lock |-> "free"]
  /\ starting = "idle"
  /\ stops = [c \in Stopper |-> "none"]
  /\ readers = [r \in Reader |-> "off"]
  /\ iface = [closed |-> FALSE, woken |-> FALSE, released |-> FALSE,
              token |-> TRUE]
  /\ fatalErr = FALSE
  /\ ctxDone = FALSE
  /\ hostDNS \in [state : {"New"}, enabled : BOOLEAN, goal : {"clear"}]
  /\ dnsStart = "none"
  /\ reloads = 0

-----------------------------------------------------------------------------
(* hostDNS.                                                                *)

\* convergeLocked
Converged(h) ==
  IF h.state # "Started" THEN h
  ELSE [h EXCEPT !.goal = IF h.enabled THEN "set" ELSE "clear"]

\* hostDNS.Start: only from New, a Restore may have been first.
HostDNSStart ==
  /\ dnsStart = "go"
  /\ dnsStart' = "done"
  /\ hostDNS' = Converged(IF hostDNS.state = "New"
                          THEN [hostDNS EXCEPT !.state = "Started"]
                          ELSE hostDNS)
  /\ UNCHANGED <<control_, interface_, reloads>>

HostDNSReload(enabled) ==
  /\ reloads < MaxReloads
  /\ reloads' = reloads + 1
  /\ hostDNS' = Converged([hostDNS EXCEPT !.enabled = enabled])
  /\ UNCHANGED <<control_, interface_, dnsStart>>

\* hostDNS.Restore: Close removes whatever was applied.
Restored(h) == [h EXCEPT !.state = "Stopped", !.goal = "closed"]

-----------------------------------------------------------------------------
(* Control.Start.                                                          *)

StartLocks ==
  /\ starting = "idle" /\ control.lock = "free"
  /\ IF control.state = "Ready"
     THEN starting' = "activate" /\ control' = [control EXCEPT !.lock = "start"]
     ELSE starting' = "error" /\ UNCHANGED control
  /\ UNCHANGED <<stops, interface_, dns_>>

\* The device activates: the delayed functions, and run starts the readers.
StartRuns ==
  /\ starting = "activate"
  /\ dnsStart' = "go"
  /\ readers' = [r \in Reader |-> "reading"]
  /\ control' = [state |-> "Started", lock |-> "free"]
  /\ starting' = "done"
  /\ UNCHANGED <<stops, iface, fatalErr, ctxDone, hostDNS, reloads>>

\* Or it does not: the context first, then Close.
StartFails ==
  /\ starting = "activate"
  /\ ctxDone' = TRUE
  /\ starting' = "close"
  /\ UNCHANGED <<control, stops, readers, iface, fatalErr, dns_>>

\* Close with no reader: everything is released and the token given back.
StartCloses ==
  /\ starting = "close"
  /\ iface' = [closed |-> TRUE, woken |-> TRUE, released |-> TRUE,
               token |-> FALSE]
  /\ control' = [state |-> "Stopped", lock |-> "free"]
  /\ starting' = "error"
  /\ UNCHANGED <<stops, readers, fatalErr, ctxDone, dns_>>

-----------------------------------------------------------------------------
(* Control.Stop.                                                           *)

Goto(c, pc) == stops' = [stops EXCEPT ![c] = pc]

CallStop(c) ==
  /\ stops[c] = "none" /\ c \in Caller
  /\ Goto(c, "lock")
  /\ UNCHANGED <<control, starting, interface_, dns_>>

\* Under stateLock: the first call of a started node goes on without the
\* lock, one of a node never started does everything under it.
StopLocks(c) ==
  /\ stops[c] = "lock" /\ control.lock = "free"
  /\ CASE control.state = "Started" ->
            /\ Goto(c, "restore")
            /\ control' = [control EXCEPT !.state = "Stopping"]
            /\ UNCHANGED <<hostDNS, ctxDone>>
       [] control.state = "Ready" ->
            /\ Goto(c, "close")
            /\ control' = [state |-> "Stopped", lock |-> c]
            /\ hostDNS' = Restored(hostDNS)
            /\ ctxDone' = TRUE
       [] OTHER -> Goto(c, "done") /\ UNCHANGED <<control, hostDNS, ctxDone>>
  /\ UNCHANGED <<starting, readers, iface, fatalErr, dnsStart, reloads>>

StopRestores(c) ==
  /\ stops[c] = "restore"
  /\ hostDNS' = Restored(hostDNS)
  /\ Goto(c, "cancel")
  /\ UNCHANGED <<control, starting, interface_, dnsStart, reloads>>

\* cancel and CloseAllTunnels
StopCancels(c) ==
  /\ stops[c] = "cancel"
  /\ ctxDone' = TRUE
  /\ Goto(c, "relock")
  /\ UNCHANGED <<control, starting, readers, iface, fatalErr, dns_>>

StopRelocks(c) ==
  /\ stops[c] = "relock" /\ control.lock = "free"
  /\ control' = [state |-> "Stopped", lock |-> c]
  /\ Goto(c, "close")
  /\ UNCHANGED <<starting, interface_, dns_>>

\* Interface.Close: once; every reader is woken before anything is released.
Close(c) ==
  /\ stops[c] = "close"
  /\ iface' = [iface EXCEPT !.closed = TRUE, !.woken = TRUE]
  /\ Goto(c, IF iface.closed THEN "unlock" ELSE "wait")
  /\ UNCHANGED <<control, starting, readers, fatalErr, ctxDone, dns_>>

Gone(r) == readers[r] # "reading"

\* The readers are done, or readerShutdownTimeout passed.
CloseReleases(c) ==
  /\ stops[c] = "wait"
  /\ iface' = [iface EXCEPT !.released = TRUE, !.token = FALSE]
  /\ Goto(c, "unlock")
  /\ UNCHANGED <<control, starting, readers, fatalErr, ctxDone, dns_>>

StopUnlocks(c) ==
  /\ stops[c] = "unlock"
  /\ control' = [control EXCEPT !.lock = "free"]
  /\ Goto(c, "done")
  /\ UNCHANGED <<starting, interface_, dns_>>

-----------------------------------------------------------------------------
(* The readers.                                                            *)

\* Mutant of ReaderFails: the first to fail leaves, and nobody is told.
FailsAlone(r) ==
  /\ readers[r] = "reading" /\ ~ctxDone
  /\ readers' = [readers EXCEPT ![r] = "exited"]
  /\ fatalErr' = TRUE
  /\ UNCHANGED <<stops, control, starting, iface, ctxDone, dns_>>

\* A read fails.  Before the teardown that is fatal (onFatal), and the first
\* one stops the node in a goroutine of its own.
ReaderFails(r) ==
  /\ readers[r] = "reading"
  /\ readers' = [readers EXCEPT ![r] = "exited"]
  /\ IF iface.closed \/ ctxDone \/ fatalErr
     THEN fatalErr' = (fatalErr \/ ~(iface.closed \/ ctxDone))
            /\ UNCHANGED stops
     ELSE fatalErr' = TRUE /\ Goto("onFatal", "lock")
  /\ UNCHANGED <<control, starting, iface, ctxDone, dns_>>

\* A reader that was woken returns; one stuck in a packet returns once its
\* file descriptor is released, at the latest.
ReaderExits(r) ==
  /\ readers[r] = "reading"
  /\ iface.woken
  /\ readers' = [readers EXCEPT ![r] = "exited"]
  /\ UNCHANGED <<control_, iface, fatalErr, ctxDone, dns_>>

-----------------------------------------------------------------------------

StopSteps(c) ==
  \/ StopLocks(c) \/ StopRestores(c) \/ StopCancels(c) \/ StopRelocks(c)
  \/ Close(c) \/ CloseReleases(c) \/ StopUnlocks(c)
StartSteps == StartRuns \/ StartFails \/ StartCloses

LifecycleNext ==
  \/ StartLocks \/ StartSteps
  \/ HostDNSStart
  \/ \E enabled \in BOOLEAN : HostDNSReload(enabled)
  \/ \E c \in Stopper : CallStop(c) \/ StopSteps(c)
  \/ \E r \in Reader : ReaderFails(r) \/ ReaderExits(r)

LifecycleFairness ==
  /\ WF_lcVars(StartSteps)
  /\ WF_lcVars(HostDNSStart)
  /\ \A c \in Stopper : WF_lcVars(StopSteps(c)) /\ SF_lcVars(StopLocks(c))
  /\ \A r \in Reader : WF_lcVars(ReaderExits(r))

LifecycleSpec == LifecycleInit /\ [][LifecycleNext]_lcVars /\ LifecycleFairness

-----------------------------------------------------------------------------

\* Wait would return: the token is given back and the readers are gone.
WaitReturns == ~iface.token /\ \A r \in Reader : Gone(r)

\* Whoever returns from Wait finds the context cancelled (Start: "a caller
\* returning from Wait always observes a dead Context"), and the host's DNS
\* does not point into a tunnel device that was released, whatever reloads
\* and late starts of the host's DNS came in between.
CleanWait ==
  /\ WaitReturns => ctxDone
  /\ iface.released => hostDNS.goal # "set"

\* Once Stop was called, or a reader failed, Wait returns: no Stop waits for
\* another, for Start or for a reader that waits for it.
EventuallyWaits ==
  []<>(fatalErr \/ (\E c \in Caller : stops[c] # "none") => WaitReturns)

\* Stop's promise to whoever waits: Wait returns, and into a clean state.
StopsClean == []CleanWait /\ EventuallyWaits
=============================================================================
