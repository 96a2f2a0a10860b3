----------------------------- MODULE ReplayWindow -----------------------------
(***************************************************************************)
(* The anti-replay window of a tunnel (bits.go) and the two critical       *)
(* sections in which Decrypt and VerifyRelay (connection_state.go) use it: *)
(* a packet's counter is checked, the packet is decrypted without the      *)
(* lock, and only then is the counter recorded.  Several packet readers    *)
(* work on one tunnel at a time, so copies of a packet can be in flight    *)
(* between the two sections.                                               *)
(***************************************************************************)
EXTENDS Integers, FiniteSets

CONSTANTS
  Reader,      \* goroutines that receive packets
  Length,      \* ReplayWindow, 8192 in connection_state.go
  Seed,        \* Result.MessageIndex: counters the handshake has used
  MaxCounter,  \* bound on the counters the peer sends
  Nil

ASSUME WindowAssumption ==
  /\ Length \in Nat \ {0}
  /\ Seed \in 0..(Length - 1)      \* newConnectionStateFromResult refuses more
  /\ MaxCounter \in Nat /\ Seed <= MaxCounter

VARIABLES
  current,    \* highest counter recorded
  bits,       \* the positions of the circular bitmap that are set
  lost,       \* network.packets.lost
  packet,     \* per reader: counter of the packet being decrypted, or Nil
  delivered   \* history: how often each counter was let through

vars == <<current, bits, lost, packet, delivered>>

Counter == 1..MaxCounter

pos(i) == i % Length

get(i) == pos(i) \in bits

\* The first disjunct is the warmup guard against unsigned underflow.
strictlyWithinWindow(i) ==
  \/ current < Length /\ i < Length
  \/ current >= Length /\ i > current - Length

Check(i) == i > current \/ (strictlyWithinWindow(i) /\ ~get(i))

\* clearRange((current + 1) & lengthMask, count), as a set of positions.
clearRange(count) == {pos(n) : n \in (current + 1)..(current + count)}

\* Recording the next counter stomps on the slot of i - Length.
FastLost(i) == IF i > Length /\ ~get(i) THEN 1 ELSE 0

Min2(a, b) == IF a < b THEN a ELSE b

\* Slots passed over whose old counter never came, and counters that are
\* older than the window from the start.
JumpLost(i) ==
  LET end == Min2(i, current + Length)
  IN  Cardinality({n \in (current + 1)..end : n > Length /\ ~get(n)})
      + (IF i > current + Length THEN i - current - Length ELSE 0)

\* Mutant of JumpClear: the slot after the last one passed over is missed.
JumpClearShort(i) == bits \ clearRange(Min2(i, current + Length) - current - 1)

JumpClear(i) == bits \ clearRange(Min2(i, current + Length) - current)

\* Mutant of Duplicate: Decrypt's own Check is trusted.
NotDuplicate(i) == FALSE

Duplicate(i) == current = i \/ get(i)

Deliver(i) == delivered' = [delivered EXCEPT ![i] = @ + 1]

-----------------------------------------------------------------------------
(* Update, by the three branches of the code.                              *)

UpdateNext(i) ==
  /\ i = current + 1
  /\ lost' = lost + FastLost(i)
  /\ bits' = bits \cup {pos(i)}
  /\ current' = i
  /\ Deliver(i)

UpdateJump(i) ==
  /\ i > current + 1
  /\ lost' = lost + JumpLost(i)
  /\ bits' = JumpClear(i) \cup {pos(i)}
  /\ current' = i
  /\ Deliver(i)

UpdateBackfill(i) ==
  /\ i <= current /\ strictlyWithinWindow(i) /\ ~Duplicate(i)
  /\ bits' = bits \cup {pos(i)}
  /\ Deliver(i)
  /\ UNCHANGED <<current, lost>>

\* Duplicate, or out of the window: ErrAlreadySeen.
UpdateReject(i) ==
  /\ i <= current /\ (~strictlyWithinWindow(i) \/ Duplicate(i))
  /\ UNCHANGED <<current, bits, lost, delivered>>

-----------------------------------------------------------------------------
(* Decrypt and VerifyRelay.                                                *)

\* The first critical section.
DecryptCheck(r, i) ==
  /\ packet[r] = Nil
  /\ Check(i)
  /\ packet' = [packet EXCEPT ![r] = i]
  /\ UNCHANGED <<current, bits, lost, delivered>>

\* ErrAlreadySeen before any decryption.
DecryptDrop(r, i) ==
  /\ packet[r] = Nil
  /\ ~Check(i)
  /\ UNCHANGED vars

\* The packet does not authenticate.
DecryptFails(r) ==
  /\ packet[r] # Nil
  /\ packet' = [packet EXCEPT ![r] = Nil]
  /\ UNCHANGED <<current, bits, lost, delivered>>

\* The second critical section.
DecryptUpdate(r) ==
  /\ packet[r] # Nil
  /\ packet' = [packet EXCEPT ![r] = Nil]
  /\ \/ UpdateNext(packet[r])
     \/ UpdateJump(packet[r])
     \/ UpdateBackfill(packet[r])
     \/ UpdateReject(packet[r])

-----------------------------------------------------------------------------
\* NewBits marks counter 0; the seed loop records 1..Seed.
Init ==
  /\ current = Seed
  /\ bits = 0..Seed
  /\ lost = 0
  /\ packet = [r \in Reader |-> Nil]
  /\ delivered = [i \in Counter |-> IF i <= Seed THEN 1 ELSE 0]

Next == \E r \in Reader :
          \/ \E i \in Counter : DecryptCheck(r, i) \/ DecryptDrop(r, i)
          \/ DecryptFails(r)
          \/ DecryptUpdate(r)

Spec == Init /\ [][Next]_vars

-----------------------------------------------------------------------------
(* Properties.                                                             *)

TypeOK ==
  /\ current \in 0..MaxCounter
  /\ bits \subseteq 0..(Length - 1)
  /\ lost \in Nat
  /\ packet \in [Reader -> Counter \cup {Nil}]
  /\ delivered \in [Counter -> Nat]

\* No counter is ever let through twice, although any number of copies of a
\* packet pass the first check before one of them is recorded.
AtMostOnce == \A i \in Counter : delivered[i] <= 1

\* The window neither forgets nor invents: inside it a bit is set exactly for
\* the counters let through, so a late packet that was not delivered yet is
\* accepted; nothing above the cursor has been let through.
WindowExact ==
  /\ \A i \in Counter : i <= current /\ i > current - Length =>
       (get(i) <=> delivered[i] = 1)
  /\ \A i \in Counter : i > current => delivered[i] = 0

\* network.packets.lost counts exactly the counters that left the window
\* without being let through, through warmup, single steps, jumps within the
\* window and jumps beyond it.
LostExact ==
  lost = Cardinality({i \in Counter : i <= current - Length /\ delivered[i] = 0})

-----------------------------------------------------------------------------

Promised == INSTANCE Receiver WITH
  Number <- Counter, Window <- Length, Used <- Seed,
  top <- current, times <- delivered

\* The bitmap, its warmup, the two critical sections and the readers between
\* them implement the receiver that accepts each number once and none that is
\* a window behind: what a tunnel's packets may rely on.
ImplementsReceiver == Promised!ReceiverSpec
=============================================================================
