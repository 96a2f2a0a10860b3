------------------------------ MODULE SSHServer ------------------------------
(***************************************************************************)
(* The debug ssh server (sshd/server.go) and its reloads (ssh.go).  Every  *)
(* Run owns a listener; reloads replace the run through the listener that  *)
(* was stored last.  Sessions belong to the context of their run.          *)
(***************************************************************************)
EXTENDS Naturals, Sequences, FiniteSets

CONSTANTS
  SSHAddr,      \* listen addresses a configuration may have
  SSHKey,       \* authorized keys a configuration may have
  MaxSSHReload  \* bound: reloads

VARIABLES
  ssh,      \* the configuration, the trusted keys, the stored listener
  runs,     \* every Run goroutine
  sessions, \* logged in: the run and the key
  sshReloads,  \* how many there were
  sshCtxDone   \* the service context is cancelled

sshVars == <<ssh, runs, sessions, sshReloads, sshCtxDone>>

SSHConfig == [enabled : BOOLEAN, listen : SSHAddr, keys : SUBSET SSHKey]
NewRun(addr) == [pc |-> "check", addr |-> addr, open |-> FALSE,
                 cancelled |-> FALSE]

\* Main: configSSH, and sshStart by Control.Start.
SSHInit ==
  /\ \E cfg \in SSHConfig :
       /\ ssh = [cfg |-> cfg, trusted |-> IF cfg.enabled THEN cfg.keys ELSE {},
                 listener |-> 0]
       /\ runs = IF cfg.enabled THEN <<NewRun(cfg.listen)>> ELSE <<>>
  /\ sessions = {}
  /\ sshReloads = 0
  /\ sshCtxDone = FALSE

-----------------------------------------------------------------------------
(* Run.                                                                    *)

RunAt(r, pc) == runs[r].pc = pc

RunChecks(r) ==
  /\ RunAt(r, "check")
  /\ runs' = [runs EXCEPT ![r].pc = IF sshCtxDone THEN "done" ELSE "listen"]
  /\ UNCHANGED <<ssh, sessions, sshReloads, sshCtxDone>>

SSHInUse(addr) == \E r \in 1..Len(runs) : runs[r].open /\ runs[r].addr = addr

\* net.Listen, then the listener is stored; or the address is taken.
Listens(r) ==
  /\ RunAt(r, "listen")
  /\ IF SSHInUse(runs[r].addr)
     THEN runs' = [runs EXCEPT ![r].pc = "done"] /\ UNCHANGED ssh
     ELSE /\ runs' = [runs EXCEPT ![r].pc = "accept", ![r].open = TRUE]
          /\ ssh' = [ssh EXCEPT !.listener = r]
  /\ UNCHANGED <<sessions, sshReloads, sshCtxDone>>

\* Mutant of RunContextDone: the watcher closes the listener that is stored.
ClosesStored(r) ==
  /\ runs[r].cancelled \/ sshCtxDone
  /\ RunAt(r, "accept") /\ ssh.listener # 0 /\ runs[ssh.listener].open
  /\ runs' = [runs EXCEPT ![ssh.listener].open = FALSE]
  /\ UNCHANGED <<ssh, sessions, sshReloads, sshCtxDone>>

\* The watcher of the run: its own listener goes with its context.
RunContextDone(r) ==
  /\ runs[r].cancelled \/ sshCtxDone
  /\ runs[r].open
  /\ runs' = [runs EXCEPT ![r].open = FALSE]
  /\ UNCHANGED <<ssh, sessions, sshReloads, sshCtxDone>>

\* Accept fails on a closed listener: run returns and cancels its context.
RunReturns(r) ==
  /\ RunAt(r, "accept") /\ ~runs[r].open
  /\ runs' = [runs EXCEPT ![r].pc = "done", ![r].cancelled = TRUE]
  /\ UNCHANGED <<ssh, sessions, sshReloads, sshCtxDone>>

\* A client is accepted and logs in with a key that is trusted then.
Login(r, key) ==
  /\ RunAt(r, "accept") /\ runs[r].open
  /\ key \in ssh.trusted
  /\ sessions' = sessions \cup {[run |-> r, key |-> key]}
  /\ UNCHANGED <<ssh, runs, sshReloads, sshCtxDone>>

\* The session's connection goes with the context of its run.
SessionEnds(s) ==
  /\ s \in sessions
  /\ runs[s.run].cancelled \/ sshCtxDone
  /\ sessions' = sessions \ {s}
  /\ UNCHANGED <<ssh, runs, sshReloads, sshCtxDone>>

-----------------------------------------------------------------------------
(* wireSSHReload's callback: one at a time.                                *)

Running == \E r \in 1..Len(runs) : RunAt(r, "accept")

\* Stop closes the listener stored last.
Stopped == IF ssh.listener = 0 THEN runs
           ELSE [runs EXCEPT ![ssh.listener].open = FALSE]

\* Nothing of it changed and it runs: only the host key is set again.
Untouched(cfg) == cfg.enabled /\ Running /\ cfg = ssh.cfg

\* configSSH, which clears the trusted keys and adds those configured, and
\* go sshRun; or Stop.  A configuration that fails stops the server too.
ReloadSSH(cfg, fails) ==
  /\ sshReloads < MaxSSHReload
  /\ sshReloads' = sshReloads + 1
  /\ IF cfg.enabled
     THEN IF fails
          THEN /\ runs' = Stopped
               /\ ssh' = [ssh EXCEPT !.cfg = cfg]
          ELSE IF Untouched(cfg) THEN UNCHANGED <<ssh, runs>>
          ELSE /\ runs' = Append(Stopped, NewRun(cfg.listen))
               /\ ssh' = [ssh EXCEPT !.cfg = cfg, !.trusted = cfg.keys]
     ELSE /\ runs' = Stopped
          /\ ssh' = [ssh EXCEPT !.cfg = cfg]
  /\ UNCHANGED <<sessions, sshCtxDone>>

SSHCancelled ==
  /\ ~sshCtxDone
  /\ sshCtxDone' = TRUE
  /\ UNCHANGED <<ssh, runs, sessions, sshReloads>>

-----------------------------------------------------------------------------

RunSteps(r) ==
  RunChecks(r) \/ Listens(r) \/ RunContextDone(r) \/ RunReturns(r)

SSHNext ==
  \/ \E r \in 1..Len(runs) :
       RunSteps(r) \/ \E key \in SSHKey : Login(r, key)
  \/ \E s \in sessions : SessionEnds(s)
  \/ \E cfg \in SSHConfig, fails \in BOOLEAN : ReloadSSH(cfg, fails)
  \/ SSHCancelled

SSHFairness ==
  /\ \A r \in 1..MaxSSHReload + 1 :
       WF_sshVars(r \in 1..Len(runs) /\ RunSteps(r))
  /\ WF_sshVars(\E s \in sessions : SessionEnds(s))

SSHSpec == SSHInit /\ [][SSHNext]_sshVars /\ SSHFairness

-----------------------------------------------------------------------------

\* Cancelling the context "tears the server down even across reloads"
\* (server.go): no listener stays open, whichever run replaced whose handle,
\* and no session goes on.
SSHTornDown ==
  <>[](sshCtxDone => (\A r \in 1..Len(runs) : ~runs[r].open) /\ sessions = {})
=============================================================================
