---------------------------- MODULE ConfigReload ----------------------------
(***************************************************************************)
(* Reloading the configuration (config/config.go, config/reload.go) and    *)
(* what the callbacks of the daemon's parts do with it.                    *)
(*                                                                         *)
(* A reload reads the new settings, keeps the old ones to compare with,    *)
(* and runs every callback under reloadLock, so it is one step.  A         *)
(* callback is a sequence of sections; a section looks at a few keys,      *)
(* usually only when HasChanged says so, and takes them over unless a      *)
(* value is bad.  Values are abstracted to good ones and "bad".            *)
(***************************************************************************)
EXTENDS Naturals, Sequences

CONSTANTS
  GoodValue,  \* values a key may have that can be applied
  Changing    \* the keys the configurations differ in, among Key

VARIABLES
  settings,      \* C.Settings
  running,       \* what each part of the daemon uses for a key
  result,        \* the ReloadResult of the last reload
  needsRestart   \* C.needsRestart

crVars == <<settings, running, result, needsRestart>>

(***************************************************************************)
(* Sections.  when: the section runs if one of its keys changed since the  *)
(* last configuration, or always.  bad: what a bad value does: "stop" ends *)
(* the callback with an error, "keep" reports it and keeps what is         *)
(* running, "skip" reports it and takes over the rest, "quiet" keeps and   *)
(* only logs, "default" cannot fail.                                       *)
(***************************************************************************)
Section(keys, when, bad) == [keys |-> keys, when |-> when, bad |-> bad]

LoggingSections == <<Section({"logging"}, "always", "keep")>>

\* PKI.reload: the certificates and the authorities, each on its own.
PKISections == <<Section({"pki.cert"}, "always", "keep"),
                 Section({"pki.ca"}, "always", "skip")>>

HostMapSections == <<Section({"preferred_ranges"}, "changed", "skip")>>

PunchySections ==
  <<Section({"punchy.punch", "punchy"}, "changed", "default"),
    Section({"punchy.respond", "punch_back"}, "changed", "default"),
    Section({"punchy.delay"}, "changed", "default"),
    Section({"punchy.target_all_remotes"}, "changed", "default"),
    Section({"punchy.respond_delay"}, "changed", "default")>>

ConnectionManagerSections ==
  <<Section({"tunnels.inactivity_timeout"}, "changed", "default"),
    Section({"tunnels.drop_inactive"}, "changed", "default")>>

RelayManagerSections ==
  <<Section({"relay.am_relay", "relay.use_relays"}, "changed", "default")>>

StaticMapSection ==
  Section({"static_host_map", "static_map.cadence", "static_map.network",
           "static_map.lookup_timeout"}, "changed", "stop")
LighthousesSection == Section({"lighthouse.hosts"}, "changed", "stop")
RelaysForMeSection == Section({"relay.relays", "relay.am_relay"}, "changed", "skip")

\* LightHouse.reload returns at the first section that fails.
LightHouseSections ==
  <<Section({"lighthouse.advertise_addrs"}, "changed", "stop"),
    Section({"lighthouse.interval"}, "changed", "default"),
    Section({"lighthouse.remote_allow_list", "lighthouse.remote_allow_ranges"},
            "changed", "stop"),
    Section({"lighthouse.local_allow_list"}, "changed", "stop"),
    Section({"lighthouse.calculated_remotes"}, "changed", "stop"),
    StaticMapSection,
    LighthousesSection,
    RelaysForMeSection>>

\* reloadFirewall compares with what the running firewall was built from.
FirewallSections == <<Section({"firewall"}, "always", "keep")>>

InterfaceSections ==
  <<Section({"pki.disconnect_invalid"}, "changed", "default"),
    Section({"listen.send_recv_error"}, "changed", "default"),
    Section({"listen.accept_recv_error"}, "changed", "default"),
    Section({"counters.try_promote"}, "changed", "default"),
    Section({"counters.requery_every_packets"}, "changed", "default"),
    Section({"timers.requery_wait_duration"}, "changed", "default")>>

\* tun.reload on Linux: the routes and the default MTU are one section.
TunSections ==
  <<Section({"tun.routes", "tun.unsafe_routes", "tun.mtu"}, "changed", "stop")>>

\* StdConn.ReloadConfig sets the socket options on every reload.
UDPSections == <<Section({"listen.read_buffer"}, "always", "keep"),
                 Section({"listen.write_buffer"}, "always", "keep"),
                 Section({"listen.so_mark"}, "always", "keep")>>

HostDNSSections == <<Section({"dns"}, "changed", "keep")>>
StatsSections == <<Section({"stats"}, "always", "keep")>>
DNSServerSections ==
  <<Section({"lighthouse.serve_dns", "lighthouse.dns"}, "always", "default")>>

\* localapi: the callbacks ignore the Reload they are given.
LocalAPISections == <<Section({"ctl"}, "always", "quiet"),
                      Section({"info_api"}, "always", "quiet")>>

Callbacks ==
  <<LoggingSections, PKISections, HostMapSections, PunchySections,
    ConnectionManagerSections, LightHouseSections, RelayManagerSections, TunSections,
    HostDNSSections, FirewallSections,
    InterfaceSections, UDPSections, StatsSections, DNSServerSections,
    LocalAPISections>>

\* Keys only read at startup: RestartRequiredIfChanged
StartupKeys ==
  {"routines", "tun.routines", "listen.routines", "listen.port",
   "listen.host", "handshakes.try_interval", "handshakes.retries",
   "handshakes.trigger_buffer", "tun.drop_multicast",
   "tun.drop_local_broadcast", "firewall.conntrack.routine_cache_timeout",
   "stats.message_metrics", "listen.batch", "tun.disabled",
   "tun.dev", "lighthouse.am_lighthouse", "dns.identity",
   "timers.connection_alive_interval"}

Key ==
  StartupKeys \cup
  UNION {UNION {Callbacks[c][i].keys : i \in 1..Len(Callbacks[c])} :
           c \in 1..Len(Callbacks)}
QuietKeys == {"ctl", "info_api"}

ASSUME ConfigAssumption == Changing \subseteq Key

-----------------------------------------------------------------------------

HasChanged(old, new, k) == old[k] # new[k]

InPlay == {c \in 1..Len(Callbacks) :
             \E i \in 1..Len(Callbacks[c]) :
               Callbacks[c][i].keys \cap Changing # {}}

Touched(old, new, section) ==
  section.when = "always" \/ \E k \in section.keys \cap Changing : HasChanged(old, new, k)

Broken(new, section) ==
  section.bad # "default" /\ \E k \in section.keys \cap Changing : new[k] = "bad"

\* A callback gets to its section i: none before it returned with an error.
Reaches(old, new, callback, i) ==
  \A j \in 1..i - 1 : Touched(old, new, callback[j]) =>
    ~(Broken(new, callback[j]) /\ callback[j].bad = "stop")

\* The sections of all callbacks that run and do not return early.
Runs(old, new) ==
  UNION {{Callbacks[c][i] : i \in {j \in 1..Len(Callbacks[c]) :
            Reaches(old, new, Callbacks[c], j)
              /\ Touched(old, new, Callbacks[c][j])}} :
         c \in InPlay}

TakesOver(new, section) == Broken(new, section) => section.bad = "skip"

\* Mutant of Fails: an error that ends a callback is not passed on.
FailsUnreported(new, section) ==
  Broken(new, section) /\ section.bad \notin {"quiet", "stop"}

\* Reload.Failed is called.
Fails(new, section) == Broken(new, section) /\ section.bad # "quiet"

\* ReloadConfig, from SIGHUP, a command or ReloadConfigString: the new
\* settings are loaded and runCallbacks runs every callback.
ReloadConfig(new) ==
  LET runs == Runs(settings, new)
      taken == UNION {s.keys : s \in {r \in runs : TakesOver(new, r)}}
  IN /\ settings' = new
     /\ running' = [k \in Changing |-> IF k \in taken THEN new[k] ELSE running[k]]
     /\ needsRestart' = (needsRestart
          \/ \E k \in StartupKeys \cap Changing : HasChanged(settings, new, k))
     /\ result' = CASE \E s \in runs : Fails(new, s) -> "completed with errors"
                    [] needsRestart' -> "requires a restart"
                    [] OTHER -> "complete"

\* The new configuration could not be read or parsed.
LoadFails ==
  /\ result' = "did not load"
  /\ UNCHANGED <<settings, running, needsRestart>>

ConfigInit ==
  /\ \E g \in GoodValue : settings = [k \in Changing |-> g]
  /\ running = settings
  /\ result = "complete"
  /\ needsRestart = FALSE

ConfigNext ==
  \/ \E vs \in [Changing -> GoodValue \cup {"bad"}] :
       ReloadConfig(vs)
  \/ LoadFails

ConfigSpec == ConfigInit /\ [][ConfigNext]_crVars

-----------------------------------------------------------------------------

\* What a reload was asked to change and could not is reported by that
\* reload, whichever callback it concerns and whatever failed before it:
\* either it failed or it needs a restart.  (Not the local API's sockets,
\* whose callbacks only log.)
ChangeReported ==
  [][\A k \in Changing \ QuietKeys :
       settings'[k] # settings[k] /\ running'[k] # settings'[k] =>
         result' # "complete"]_crVars
=============================================================================
