---- MODULE Punchy ----
\* Hole punching (punchy.go) over the pooled delay scheduler (scheduler.go): a
\* lighthouse's punch notification schedules one job per address and one test
\* packet back; each job waits in a pooled item's timer, whose callback hands it
\* to the bounded worker queue and returns the item to the pool.
EXTENDS Naturals, Sequences, FiniteSets

CONSTANTS Target,        \* addresses a notification may carry
          AllowedTarget, \* the ones the remote allow list and the socket accept
          Item,          \* schedItems the process may allocate
          QueueSize,     \* holepunchQueueSize
          MaxAddrs,      \* bound: addresses of a notification
          MaxJobs        \* bound: jobs scheduled

ASSUME PunchAssumption == MaxAddrs \in Nat

VARIABLES items,         \* each schedItem: its value, context and timer
          queue,         \* Scheduler.queue
          scheduled,     \* the jobs in the order they were scheduled
          sent,          \* what the worker sent, as positions of scheduled
          notified,      \* what the notification handler has still to go through
          respond,       \* punchy.respond
          punchStarted, punchDone

punchVars == <<items, queue, scheduled, sent, notified, respond, punchStarted, punchDone>>

\* The job of one address, and the punchback to the peer.
Peer == "peer"
PunchTo(t) == [target |-> t, kind |-> IF t = Peer THEN "test" ELSE "punch"]

\* A value is a position of scheduled, 0 the zero value of a pooled item.
Zero == 0
Free == {i \in Item : items[i].timer = "pooled"}

----

\* NewPunchyFromConfig and, in Control.Start, Punchy.Start.
Start ==
    /\ ~punchStarted
    /\ punchStarted' = TRUE
    /\ UNCHANGED <<items, queue, scheduled, sent, notified, respond, punchDone>>

\* An item comes from the pool or is allocated: either way nothing else has it.
Schedule(job) ==
    \E i \in Free :
       /\ scheduled' = Append(scheduled, job)
       /\ items' = [items EXCEPT ![i] = [val |-> Len(scheduled) + 1, timer |-> "armed"]]

\* handleHostPunchNotification from a lighthouse: the addresses in the order of
\* the message, then the peer.
handleHostPunchNotification(addrs) ==
    /\ notified = <<>>
    /\ Len(scheduled) + Len(addrs) < MaxJobs
    /\ notified' = Append(addrs, Peer)
    /\ UNCHANGED <<items, queue, scheduled, sent, respond, punchStarted, punchDone>>

\* Its loop: Punchy.Schedule and ScheduleRespond do nothing before Start, and
\* timers, the worker and reloads go on between two calls of them.
Wanted(t) == punchStarted /\ IF t = Peer THEN respond ELSE t \in AllowedTarget

scheduleNext ==
    /\ notified # <<>>
    /\ notified' = Tail(notified)
    /\ \/ Wanted(Head(notified)) /\ Schedule(PunchTo(Head(notified)))
       \/ ~Wanted(Head(notified)) /\ UNCHANGED <<items, scheduled>>
    /\ UNCHANGED <<queue, sent, respond, punchStarted, punchDone>>

\* Mutant of FireDelivers: a full queue drops the job instead of blocking.
FireDrops(i) ==
    /\ items[i].timer = "armed"
    /\ queue' = IF Len(queue) < QueueSize THEN Append(queue, items[i].val) ELSE queue
    /\ items' = [items EXCEPT ![i].timer = "fired"]
    /\ UNCHANGED <<scheduled, sent, notified, respond, punchStarted, punchDone>>

\* The callback: the value goes to the queue when there is room, or is dropped
\* once the context is done (either, when both cases are ready).
FireDelivers(i) ==
    /\ items[i].timer = "armed"
    /\ \/ /\ Len(queue) < QueueSize
          /\ queue' = Append(queue, items[i].val)
       \/ punchDone /\ UNCHANGED queue
    /\ items' = [items EXCEPT ![i].timer = "fired"]
    /\ UNCHANGED <<scheduled, sent, notified, respond, punchStarted, punchDone>>

FireClears(i) ==
    /\ items[i].timer = "fired"
    /\ items' = [items EXCEPT ![i].timer = "cleared", ![i].val = Zero]
    /\ UNCHANGED <<queue, scheduled, sent, notified, respond, punchStarted, punchDone>>

FirePuts(i) ==
    /\ items[i].timer = "cleared"
    /\ items' = [items EXCEPT ![i].timer = "pooled"]
    /\ UNCHANGED <<queue, scheduled, sent, notified, respond, punchStarted, punchDone>>

\* Scheduler.Run with the function Start gives it.  The worker may still take
\* an item when the context is done.
Run ==
    /\ punchStarted
    /\ queue # <<>>
    /\ sent' = Append(sent, Head(queue))
    /\ queue' = Tail(queue)
    /\ UNCHANGED <<items, scheduled, notified, respond, punchStarted, punchDone>>

\* Punchy.reload of punchy.respond; Control.Stop.
reload ==
    /\ respond' = ~respond
    /\ UNCHANGED <<items, queue, scheduled, sent, notified, punchStarted, punchDone>>

Cancelled ==
    /\ ~punchDone
    /\ punchDone' = TRUE
    /\ UNCHANGED <<items, queue, scheduled, sent, notified, respond, punchStarted>>

----

NewScheduler ==
    /\ items = [i \in Item |-> [val |-> Zero, timer |-> "pooled"]]
    /\ queue = <<>>
    /\ scheduled = <<>>
    /\ sent = <<>>
    /\ notified = <<>>
    /\ respond \in BOOLEAN
    /\ punchStarted = FALSE
    /\ punchDone = FALSE

PunchNext ==
    \/ Start \/ scheduleNext \/ Run \/ reload \/ Cancelled
    \/ \E n \in 0 .. MaxAddrs : \E addrs \in [1 .. n -> Target] :
         handleHostPunchNotification(addrs)
    \/ \E i \in Item : FireDelivers(i) \/ FireClears(i) \/ FirePuts(i)

PunchSpec == NewScheduler /\ [][PunchNext]_punchVars

----

\* The places a job is: armed in an item's timer, queued, or sent.
Places(j) ==
    Cardinality({i \in Item : items[i].timer = "armed" /\ items[i].val = j})
    + Cardinality({q \in 1 .. Len(queue) : queue[q] = j})
    + Cardinality({s \in 1 .. Len(sent) : sent[s] = j})

\* Items are pooled and their callbacks run in goroutines of their own, and yet
\* no punch is lost, doubled or turned into another while the node runs, and
\* none is doubled when it stops (schedItem.fire, Scheduler.Schedule, Run).
JobsConserved ==
    \A j \in 1 .. Len(scheduled) : Places(j) = 1 \/ (punchDone /\ Places(j) = 0)
====
