---- MODULE LightHouseWorkers ----
\* The background work a node that is not a lighthouse does for its
\* lighthouses (lighthouse.go): the update worker, which sends a HostUpdate
\* notification at every tick of lighthouse.interval or when it is triggered.
\* A config reload changes what is advertised, to whom, and replaces the
\* worker.
EXTENDS Naturals, Sequences, SequencesExt, FiniteSets

CONSTANTS Interval,        \* values of lighthouse.interval, 0 for no updates
          Lighthouse,      \* vpn addresses that may be configured as lighthouses
          V1Lighthouse,    \* the ones whose tunnel speaks the v1 protocol
          Relays,          \* values of relay.relays; one of them is V6Relays
          V6Relays,        \* relays that have no IPv4 address at all
          Addrs,           \* what the node can advertise
          MaxReload,       \* bound: config reloads
          MaxLost          \* bound: notifications the network loses

VARIABLES conf,            \* interval, lighthouses, relays and addresses in force
          workers,         \* the update goroutines, oldest first
          updateCancel,    \* the worker lh.updateCancel cancels, 0 for nil
          updateTrigger,   \* the one slot of the trigger channel
          workerStarted,         \* Control.Start has started the worker
          told,            \* what each lighthouse last heard from this node
          workerReloads, lost

workerVars == <<conf, workers, updateCancel, updateTrigger, workerStarted, told, workerReloads, lost>>

Nothing == "nothing"
NoUpdate == [addrs |-> Nothing, relays |-> Nothing]

\* The relays a notification carries: the v1 message has only room for IPv4.
RelaysIn(version, relays) ==
    IF version = 1 /\ relays = V6Relays THEN Nothing ELSE relays
Version(l) == IF l \in V1Lighthouse THEN 1 ELSE 2

\* A worker about to build a notification: it has read neither the addresses
\* nor the lighthouses, and holds no encoded message for either version.
NewWorker == [pc |-> "build", cancelled |-> FALSE, addrs |-> Nothing,
              left |-> <<>>, update |-> [v \in 1 .. 2 |-> NoUpdate]]

----

\* StartUpdateWorker with an interval: the new goroutine's cancel replaces the
\* one before it, which nobody holds any more.
StartUpdateWorker(interval, ws) ==
    IF interval # 0 THEN /\ workers' = Append(ws, NewWorker)
                     /\ updateCancel' = Len(ws) + 1
    ELSE workers' = ws /\ UNCHANGED updateCancel

Start ==
    /\ ~workerStarted
    /\ workerStarted' = TRUE
    /\ StartUpdateWorker(conf.interval, workers)
    /\ UNCHANGED <<conf, updateTrigger, told, workerReloads, lost>>

\* TriggerUpdate after a handshake with a lighthouse; a full slot is left full.
TriggerUpdate ==
    /\ workerStarted
    /\ updateTrigger' = TRUE
    /\ UNCHANGED <<conf, workers, updateCancel, workerStarted, told,
                   workerReloads, lost>>

----

\* SendUpdate: the advertised addresses are read first, then the lighthouses.
Build(w) ==
    /\ workers[w].pc = "build"
    /\ workers' = [workers EXCEPT ![w].pc = "lighthouses", ![w].addrs = conf.addrs]
    /\ UNCHANGED <<conf, updateCancel, updateTrigger, workerStarted, told, workerReloads, lost>>

Lighthouses(w) ==
    /\ workers[w].pc = "lighthouses"
    /\ \E order \in SetToSeqs(conf.lighthouses) :
          workers' = [workers EXCEPT ![w].pc = "send", ![w].left = order,
                                     ![w].update = [v \in 1 .. 2 |-> NoUpdate]]
    /\ UNCHANGED <<conf, updateCancel, updateTrigger, workerStarted, told, workerReloads, lost>>

\* One turn of SendUpdate's loop: the message of each protocol version is
\* encoded for the first lighthouse that speaks it, with the relays of that
\* moment, and kept for the others.  The network may lose it.
SendUpdate(w) ==
    /\ workers[w].pc = "send" /\ workers[w].left # <<>>
    /\ LET l == Head(workers[w].left)
           v == Version(l)
           msg == IF workers[w].update[v] # NoUpdate THEN workers[w].update[v]
                  ELSE [addrs |-> workers[w].addrs, relays |-> RelaysIn(v, conf.relays)]
       IN /\ workers' = [workers EXCEPT ![w].left = Tail(@), ![w].update[v] = msg]
          /\ \/ told' = [told EXCEPT ![l] = msg] /\ UNCHANGED lost
             \/ lost < MaxLost /\ lost' = lost + 1 /\ UNCHANGED told
    /\ UNCHANGED <<conf, updateCancel, updateTrigger, workerStarted, workerReloads>>

\* The worker's select, its notifications sent: Go takes any of the cases that
\* are ready, so a cancelled worker may still take the trigger or a tick.
WorkerDone(w) ==
    /\ workers[w].pc = "send" /\ workers[w].left = <<>> /\ workers[w].cancelled
    /\ workers' = [workers EXCEPT ![w] = [NewWorker EXCEPT !.pc = "gone", !.cancelled = TRUE]]
    /\ UNCHANGED updateTrigger

WorkerTicks(w) ==
    /\ workers[w].pc = "send" /\ workers[w].left = <<>>
    /\ workers' = [workers EXCEPT ![w] = [NewWorker EXCEPT !.cancelled = workers[w].cancelled]]
    /\ UNCHANGED updateTrigger

WorkerTriggered(w) ==
    /\ workers[w].pc = "send" /\ workers[w].left = <<>> /\ updateTrigger
    /\ updateTrigger' = FALSE
    /\ workers' = [workers EXCEPT ![w] = [NewWorker EXCEPT !.cancelled = workers[w].cancelled]]

WorkerSelects(w) ==
    /\ WorkerDone(w) \/ WorkerTicks(w) \/ WorkerTriggered(w)
    /\ UNCHANGED <<conf, updateCancel, workerStarted, told, workerReloads, lost>>

----

\* What a reload may store.
NewConf == [interval : Interval, lighthouses : SUBSET Lighthouse \ {{}},
            relays : Relays, addrs : Addrs]

\* Mutant of RestartWorker: the cancel is taken after the new worker starts.
CancelsLast(interval) ==
    IF interval # 0 THEN /\ workers' = Append(workers, [NewWorker EXCEPT !.cancelled = TRUE])
                     /\ updateCancel' = Len(workers) + 1
    ELSE UNCHANGED <<workers, updateCancel>>

\* An interval that changed: cancel the running worker, if any, start another.
RestartWorker(interval) ==
    StartUpdateWorker(interval, IF updateCancel = 0 THEN workers
                                ELSE [workers EXCEPT ![updateCancel].cancelled = TRUE])

\* LightHouse.reload with one changed section: the addresses wait for the next
\* tick, new lighthouses or relays trigger the worker.  Control.Start has run:
\* the worker needs the interface it sets.
reloadSection ==
    /\ workerStarted /\ workerReloads < MaxReload
    /\ workerReloads' = workerReloads + 1
    /\ \E c \in NewConf :
          /\ Cardinality({k \in DOMAIN conf : conf[k] # c[k]}) = 1
          /\ conf' = c
          /\ IF c.interval # conf.interval THEN RestartWorker(c.interval)
             ELSE UNCHANGED <<workers, updateCancel>>
          /\ updateTrigger' = (updateTrigger \/ c.lighthouses # conf.lighthouses
                                             \/ c.relays # conf.relays)
    /\ UNCHANGED <<workerStarted, told, lost>>

----

NewLightHouse ==
    /\ conf \in {c \in NewConf : c.relays # V6Relays}
    /\ workers = <<>>
    /\ updateCancel = 0
    /\ updateTrigger = FALSE
    /\ workerStarted = FALSE
    /\ told = [l \in Lighthouse |-> NoUpdate]
    /\ workerReloads = 0
    /\ lost = 0

\* The steps of a worker, its ticker included: a ticker always ticks again.
WorkerSteps(w) ==
    Build(w) \/ Lighthouses(w) \/ SendUpdate(w) \/ WorkerSelects(w)

WorkersNext ==
    \/ Start \/ TriggerUpdate
    \/ \E w \in 1 .. Len(workers) : WorkerSteps(w)
    \/ reloadSection

\* A started worker is scheduled and its ticker ticks; of two ready cases of
\* its select Go takes each again and again.
WorkersFairness ==
    /\ WF_workerVars(Start)
    /\ \A w \in 1 .. MaxReload + 1 :
          /\ WF_workerVars(w \in 1 .. Len(workers) /\ WorkerSteps(w))
          /\ SF_workerVars(w \in 1 .. Len(workers) /\ WorkerSelects(w) /\ WorkerDone(w))

WorkersSpec == NewLightHouse /\ [][WorkersNext]_workerVars /\ WorkersFairness

----

\* However reloads, triggers and losses interleave with running workers, every
\* configured lighthouse is in the end told what the node advertises, and stays
\* told, as long as an interval is configured (SendUpdate, StartUpdateWorker):
\* a worker replaced in the middle of a round may send what was true before,
\* after its successor has sent what is true now.
LighthousesTold ==
    <>[](conf.interval # 0 =>
            \A l \in conf.lighthouses :
               told[l] = [addrs |-> conf.addrs,
                          relays |-> RelaysIn(Version(l), conf.relays)])
====
