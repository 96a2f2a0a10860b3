------------------------------ MODULE DNSServer ------------------------------
(***************************************************************************)
(* The lighthouse's DNS responder (dns_server.go): Start goroutines, one   *)
(* from Control.Start and one for each reload that wants the responder up, *)
(* the slot they compete for, and reloads that stop and restart it.        *)
(*                                                                         *)
(* A step is what happens under one hold of serverMu, or between two.  The *)
(* library's server is external: Shutdown of one that has not bound yet    *)
(* does nothing.                                                           *)
(***************************************************************************)
EXTENDS Naturals, Sequences, FiniteSets

CONSTANTS
  DNSAddr,      \* listen addresses a configuration may have
  DNSHost,      \* names handshakes add
  MaxDNSReload  \* bound: reloads

VARIABLES
  dns,      \* enabled, addr and server (the slot: a run, or 0)
  starts,   \* every Start goroutine, with the server it made
  dnsReload,   \* the reload callback in progress
  records,  \* the names answered
  dnsCtxDone,  \* the service context is cancelled
  adding,   \* names whose AddRecord has passed the check, before the records' lock
  bindFails \* auxiliary: a bind failed since a reload found the slot empty

dnsVars == <<dns, starts, dnsReload, records, adding, dnsCtxDone, bindFails>>

Self == "self"
NewDNSStart == [pc |-> "check", addr |-> "none", started |-> FALSE,
             open |-> FALSE]
Reloads == 1..MaxDNSReload
IdleReload == [pc |-> "idle", n |-> 0]

\* newDnsServerFromConfig, up to Control.Start: go dnsStart
DNSInit ==
  /\ dns \in [enabled : BOOLEAN, addr : DNSAddr, server : {0}]
  /\ starts = <<NewDNSStart>>
  /\ dnsReload = IdleReload
  /\ records = IF dns.enabled THEN {Self} ELSE {}
  /\ adding = {}
  /\ dnsCtxDone = FALSE
  /\ bindFails = FALSE

-----------------------------------------------------------------------------
(* Start.                                                                  *)

StartAt(s, pc) == starts[s].pc = pc
StartGoto(s, pc) == starts' = [starts EXCEPT ![s].pc = pc]

\* The check before the lock.
DNSStartChecks(s) ==
  /\ StartAt(s, "check")
  /\ StartGoto(s, IF dns.enabled THEN "lock" ELSE "done")
  /\ UNCHANGED <<dns, dnsReload, records, adding, dnsCtxDone, bindFails>>

\* Mutant of StartClaims: the lock is taken, nothing is checked again.
ClaimUnchecked(s) ==
  /\ StartAt(s, "lock")
  /\ IF dnsCtxDone \/ dns.server # 0
     THEN StartGoto(s, "done") /\ UNCHANGED dns
     ELSE /\ starts' = [starts EXCEPT ![s].pc = "bind", ![s].addr = dns.addr]
          /\ dns' = [dns EXCEPT !.server = s]
  /\ UNCHANGED <<dnsReload, records, adding, dnsCtxDone, bindFails>>

\* Under serverMu: the slot is taken with the address of now.
StartClaims(s) ==
  /\ StartAt(s, "lock")
  /\ IF dnsCtxDone \/ dns.server # 0 \/ ~dns.enabled
     THEN StartGoto(s, "done") /\ UNCHANGED dns
     ELSE /\ starts' = [starts EXCEPT ![s].pc = "bind", ![s].addr = dns.addr]
          /\ dns' = [dns EXCEPT !.server = s]
  /\ UNCHANGED <<dnsReload, records, adding, dnsCtxDone, bindFails>>

DNSInUse(addr) == \E s \in 1..Len(starts) : starts[s].open /\ starts[s].addr = addr

\* ListenAndServe binds (NotifyStartedFunc closes started), or cannot, which
\* it also cannot while another of ours has the address.
Binds(s) ==
  /\ StartAt(s, "bind") /\ ~DNSInUse(starts[s].addr)
  /\ starts' = [starts EXCEPT ![s].pc = "serve", ![s].open = TRUE,
                              ![s].started = TRUE]
  /\ UNCHANGED <<dns, dnsReload, records, adding, dnsCtxDone, bindFails>>

BindFails(s) ==
  /\ StartAt(s, "bind")
  /\ StartGoto(s, "release")
  /\ bindFails' = TRUE
  /\ UNCHANGED <<dns, dnsReload, records, adding, dnsCtxDone>>

\* ListenAndServe returns once the server was shut down.
Returns(s) ==
  /\ StartAt(s, "serve") /\ ~starts[s].open
  /\ StartGoto(s, "release")
  /\ UNCHANGED <<dns, dnsReload, records, adding, dnsCtxDone, bindFails>>

\* started is closed, and the slot released unless it was replaced.
Releases(s) ==
  /\ StartAt(s, "release")
  /\ starts' = [starts EXCEPT ![s].pc = "done", ![s].started = TRUE]
  /\ dns' = [dns EXCEPT !.server = IF @ = s THEN 0 ELSE @]
  /\ UNCHANGED <<dnsReload, records, adding, dnsCtxDone, bindFails>>

\* shutdownServer, once started is closed
Shutdown(s) == [starts EXCEPT ![s].open = FALSE]

\* The watcher of this invocation.
DNSWatcher(s) ==
  /\ dnsCtxDone /\ starts[s].pc \in {"bind", "serve"} /\ starts[s].started
  /\ starts[s].open
  /\ starts' = Shutdown(s)
  /\ UNCHANGED <<dns, dnsReload, records, adding, dnsCtxDone, bindFails>>

-----------------------------------------------------------------------------
(* reload, by the configuration's callback: never two at once.             *)

DNSReloadBegins(enabled, addr) ==
  /\ dnsReload.pc = "idle" /\ dnsReload.n < MaxDNSReload
  /\ dns' = [dns EXCEPT !.enabled = enabled, !.addr = addr]
  /\ LET running == dns.server # 0
     IN dnsReload' = [n |-> dnsReload.n + 1, pc |->
          CASE ~enabled /\ running  -> "stop"
            [] ~enabled /\ ~running -> "clear"
            [] enabled /\ ~running  -> "start"
            [] enabled /\ running /\ addr # dns.addr -> "stop"
            [] OTHER -> "seed"]
  /\ bindFails' = (bindFails /\ dns.server # 0)
  /\ UNCHANGED <<starts, records, adding, dnsCtxDone>>

\* DNSStop empties the slot first, then waits for the bind and shuts down.
DNSStop ==
  /\ dnsReload.pc = "stop"
  /\ dnsReload' = [pc |-> "shutdown", n |-> dnsReload.n, server |-> dns.server]
  /\ dns' = [dns EXCEPT !.server = 0]
  /\ UNCHANGED <<starts, records, adding, dnsCtxDone, bindFails>>

DNSStopWaits ==
  /\ dnsReload.pc = "shutdown"
  /\ dnsReload.server # 0 => starts[dnsReload.server].started
  /\ starts' = IF dnsReload.server = 0 THEN starts ELSE Shutdown(dnsReload.server)
  /\ dnsReload' = [pc |-> IF dns.enabled THEN "start" ELSE "clear", n |-> dnsReload.n]
  /\ UNCHANGED <<dns, records, adding, dnsCtxDone, bindFails>>

DNSGoStart ==
  /\ dnsReload.pc = "start"
  /\ starts' = Append(starts, NewDNSStart)
  /\ dnsReload' = [dnsReload EXCEPT !.pc = "seed"]
  /\ UNCHANGED <<dns, records, adding, dnsCtxDone, bindFails>>

clearRecords ==
  /\ dnsReload.pc = "clear"
  /\ records' = {}
  /\ dnsReload' = [dnsReload EXCEPT !.pc = "idle"]
  /\ UNCHANGED <<dns, starts, adding, dnsCtxDone, bindFails>>

seedSelf ==
  /\ dnsReload.pc = "seed"
  /\ records' = IF dns.enabled THEN records \cup {Self} ELSE records
  /\ dnsReload' = [dnsReload EXCEPT !.pc = "idle"]
  /\ UNCHANGED <<dns, starts, adding, dnsCtxDone, bindFails>>

\* AddRecord, by a handshake that completed: the check, then under the lock of the
\* records.
AddChecks(host) ==
  /\ dns.enabled /\ host \notin records \cup adding
  /\ adding' = adding \cup {host}
  /\ UNCHANGED <<dns, starts, dnsReload, records, dnsCtxDone, bindFails>>

AddRecord(host) ==
  /\ host \in adding
  /\ adding' = adding \ {host}
  /\ records' = records \cup {host}
  /\ UNCHANGED <<dns, starts, dnsReload, dnsCtxDone, bindFails>>

Cancelled ==
  /\ ~dnsCtxDone
  /\ dnsCtxDone' = TRUE
  /\ UNCHANGED <<dns, starts, dnsReload, records, adding, bindFails>>

-----------------------------------------------------------------------------

DNSStartSteps(s) ==
  \/ DNSStartChecks(s) \/ StartClaims(s) \/ Binds(s) \/ BindFails(s)
  \/ Returns(s) \/ Releases(s) \/ DNSWatcher(s)

DNSReloadSteps == DNSStop \/ DNSStopWaits \/ DNSGoStart \/ clearRecords \/ seedSelf

DNSNext ==
  \/ \E s \in 1..Len(starts) : DNSStartSteps(s)
  \/ DNSReloadSteps
  \/ \E enabled \in BOOLEAN, addr \in DNSAddr : DNSReloadBegins(enabled, addr)
  \/ \E host \in DNSHost : AddChecks(host) \/ AddRecord(host)
  \/ Cancelled

\* Goroutines are scheduled, and so is the callback once it has begun.
DNSFairness ==
  /\ \A s \in 1..MaxDNSReload + 1 :
       WF_dnsVars(s \in 1..Len(starts) /\ DNSStartSteps(s))
  /\ WF_dnsVars(DNSReloadSteps)

DNSSpec == DNSInit /\ [][DNSNext]_dnsVars /\ DNSFairness

-----------------------------------------------------------------------------

Listening == {starts[s].addr : s \in {t \in 1..Len(starts) : starts[t].open}}

\* Whatever reloads came and however late the goroutines they started ran,
\* the responder ends up listening where the last configuration says and
\* nowhere else, unless a bind failed since; and nowhere after shutdown.
DNSSettles ==
  <>[](\/ dnsCtxDone /\ Listening = {}
       \/ ~dnsCtxDone /\ bindFails /\ Listening \subseteq {dns.addr}
       \/ ~dnsCtxDone /\ Listening = IF dns.enabled THEN {dns.addr} ELSE {})
=============================================================================
