------------------------------ MODULE TimerWheel ------------------------------
(***************************************************************************)
(* The timing wheel of timeout.go, which drives handshake retries, traffic *)
(* checks and conntrack eviction.  Time is kept relative to lastTick, so   *)
(* the wheel turns forever on finitely many states.  The slots' linked     *)
(* lists are sequences; the cache of list cells is left out.               *)
(***************************************************************************)
EXTENDS Integers, Sequences, Functions

CONSTANTS
  Item,           \* what is scheduled; an item is in the wheel at most once
  tickDuration,   \* min of NewTimerWheel
  wheelDuration,  \* max of NewTimerWheel
  Timeout,        \* durations requested by callers
  MaxLag          \* bound: longest time between two calls of Advance

ASSUME WheelAssumption ==
  /\ tickDuration \in Nat \ {0} /\ wheelDuration \in Nat \ {0}
  /\ Timeout \subseteq Nat
  /\ MaxLag \in Nat /\ MaxLag >= tickDuration

VARIABLES
  ticking,  \* lastTick is set
  lag,      \* now - lastTick
  current,
  wheel,    \* per slot the items in arrival order
  expired,
  asked,    \* history, per item in the wheel: the timeout after clamping
  age,      \* history, per item in the wheel: time since Add
  prompt    \* history, per item in the wheel: it was less than a tick behind at Add

wheelVars == <<ticking, lag, current, wheel, expired, asked, age, prompt>>

wheelLen == (wheelDuration \div tickDuration) + 2

Slot == 0..(wheelLen - 1)

InWheel(v) == \E i \in Slot : v \in Range(wheel[i])

Queued(v) == InWheel(v) \/ v \in Range(expired)

Clamp(t) == IF t < tickDuration THEN tickDuration
            ELSE IF t > wheelDuration THEN wheelDuration ELSE t

\* Mutant of findWheel: the extra tick is missing.
FindWheelEarly(t) ==
  (((Clamp(t) - 1) \div tickDuration) + 1 + current) % wheelLen

\* Rounded up, one more tick because the current one may almost be over.
findWheel(t) ==
  LET tick == ((Clamp(t) - 1) \div tickDuration) + 1 + current + 1
  IN  IF tick >= wheelLen THEN tick - wheelLen ELSE tick

Add(v, t) ==
  /\ ~Queued(v)
  /\ wheel' = [wheel EXCEPT ![findWheel(t)] = Append(@, v)]
  /\ asked' = [asked EXCEPT ![v] = Clamp(t)]
  /\ age' = [age EXCEPT ![v] = 0]
  /\ prompt' = [prompt EXCEPT ![v] = lag < tickDuration]
  /\ UNCHANGED <<ticking, lag, current, expired>>

Purge ==
  /\ expired # <<>>
  /\ expired' = Tail(expired)
  /\ UNCHANGED <<ticking, lag, current, wheel, asked, age, prompt>>

\* A jump of more than a turn passes over every slot once.
Ticks == LET ticks == lag \div tickDuration
         IN  IF ticks > wheelLen THEN wheelLen ELSE ticks

\* The slots passed over, in the order the loop visits them.
Passed == [i \in 1..Ticks |-> (current + i) % wheelLen]

\* Mutant of Expire: what expires last is purged first.
ExpirePrepending ==
  LET loop[i \in 0..Ticks] == IF i = 0 THEN expired ELSE wheel[Passed[i]] \o loop[i - 1]
  IN  loop[Ticks]

Expire ==
  LET loop[i \in 0..Ticks] == IF i = 0 THEN expired ELSE loop[i - 1] \o wheel[Passed[i]]
  IN  loop[Ticks]

Emptied == [i \in Slot |-> IF i \in Range(Passed) THEN <<>> ELSE wheel[i]]

\* lastTick moves by whole ticks, uncapped.
Remainder == lag % tickDuration

PassedOver(v) == \E i \in Range(Passed) : v \in Range(wheel[i])

Advance ==
  /\ ticking' = TRUE
  /\ expired' = Expire
  /\ wheel' = Emptied
  /\ current' = (current + Ticks) % wheelLen
  /\ lag' = Remainder
  /\ asked' = [v \in Item |-> IF PassedOver(v) THEN 0 ELSE asked[v]]
  /\ age' = [v \in Item |-> IF PassedOver(v) THEN 0 ELSE age[v]]
  /\ prompt' = [v \in Item |-> ~PassedOver(v) /\ prompt[v]]

\* Time passes.  Before the first Advance the wheel has no notion of time.
Pass ==
  /\ ticking /\ lag < MaxLag
  /\ lag' = lag + 1
  /\ age' = [v \in Item |-> IF InWheel(v) THEN age[v] + 1 ELSE age[v]]
  /\ UNCHANGED <<ticking, current, wheel, expired, asked, prompt>>

\* NewTimerWheel
WheelInit ==
  /\ ticking = FALSE /\ lag = 0 /\ current = 0
  /\ wheel = [i \in Slot |-> <<>>] /\ expired = <<>>
  /\ asked = [v \in Item |-> 0]
  /\ age = [v \in Item |-> 0]
  /\ prompt = [v \in Item |-> FALSE]

WheelNext ==
  \/ \E v \in Item, t \in Timeout : Add(v, t)
  \/ Purge \/ Advance \/ Pass

\* The owners call Advance and Purge from a ticker loop.
WheelSpec ==
  /\ WheelInit /\ [][WheelNext]_wheelVars
  /\ WF_wheelVars(Pass) /\ WF_wheelVars(Advance) /\ WF_wheelVars(Purge)

-----------------------------------------------------------------------------
(* Properties.                                                             *)

\* The slots' lists and, after the last of them, the expired one.
ListAt(i) == IF i = wheelLen THEN expired ELSE wheel[i]

\* Advance moves items, it does not copy them: an item is at one place of one
\* list, be it a slot's or the expired one.
EachOnce ==
  \A i, j \in 0..wheelLen : \A k \in DOMAIN ListAt(i), l \in DOMAIN ListAt(j) :
    ListAt(i)[k] = ListAt(j)[l] => i = j /\ k = l

\* Advance loses nothing: only what Purge takes from the head of the expired
\* list leaves.
LeavesByPurge ==
  [][\A v \in Item : Queued(v) /\ ~Queued(v)' => expired # <<>> /\ v = Head(expired)]_wheelVars

\* A timeout never fires early, wherever in the current tick it was added and
\* however far the wheel jumps, if the wheel was less than a tick behind when
\* it was added.
NeverEarly ==
  [][\A v \in Item : InWheel(v) /\ ~InWheel(v)' /\ prompt[v] => age[v] >= asked[v]]_wheelVars

\* A timeout is passed over at most two ticks after it is due.
NeverLate ==
  \A v \in Item : InWheel(v) => age[v] - lag < asked[v] + 2 * tickDuration

\* Add and Advance keep their promise to the wheel's owners: a timeout fires
\* neither early nor more than two ticks late.
FiresInTime == NeverEarly /\ []NeverLate

\* Everything added comes out of the wheel, even if other items are added again
\* and again: expired items are appended "as to not starve evicting the oldest".
EventuallyPurged == \A v \in Item : []<>~Queued(v)

\* Advance and Purge hand out every item that was added, and each one once.
PurgedOnce == []EachOnce /\ LeavesByPurge /\ EventuallyPurged
=============================================================================
