---------------------------- MODULE MessageCounter ----------------------------
(***************************************************************************)
(* The nonces of one tunnel.  Every sender draws its nonce with an atomic  *)
(* add on messageCounter; control and relay traffic goes through           *)
(* NextMessageCounter, which pins the counter at RejectAfterMessages in a  *)
(* second atomic operation, packets from the inside draw without pinning   *)
(* (sendInsideEncrypt), and EncryptDanger refuses every nonce at or above  *)
(* the ceiling.  The counter is a machine word: past the headroom it       *)
(* starts again at 0.                                                      *)
(***************************************************************************)
EXTENDS Integers, FiniteSets

CONSTANTS
  Sender,               \* goroutines that send on the tunnel
  MessageIndex,         \* nonces the handshake used
  RejectAfterMessages,  \* 2^64 - 1 - RejectHeadroom in noiseutil
  RejectHeadroom,       \* 2^40 in noiseutil
  MaxInsideOver         \* bound: inside packets drawn past the ceiling before
                        \* makeTrafficDecision deletes the exhausted tunnel

ASSUME CounterAssumption ==
  /\ RejectAfterMessages \in Nat /\ RejectHeadroom \in Nat /\ MaxInsideOver \in Nat
  /\ MessageIndex \in Nat /\ MessageIndex < RejectAfterMessages
  /\ IsFiniteSet(Sender)
  /\ Cardinality(Sender) + MaxInsideOver <= RejectHeadroom

VARIABLES
  messageCounter,
  pc,          \* per sender: "idle", "pin" (refused, Store pending), "encrypt"
  nonce,       \* per sender: the nonce drawn last
  sealed,      \* history: how often each nonce was used with the key
  insideOver   \* inside packets drawn at or above the ceiling so far

counterVars == <<messageCounter, pc, nonce, sealed, insideOver>>

Nonce == 0..(RejectAfterMessages + RejectHeadroom)

\* The machine word holds RejectAfterMessages + RejectHeadroom = MaxUint64.
Add1(c) == IF c = RejectAfterMessages + RejectHeadroom THEN 0 ELSE c + 1

-----------------------------------------------------------------------------
\* The test of NextMessageCounter.
Refused(c) == c >= RejectAfterMessages

\* messageCounter.Add(1) of NextMessageCounter.
NextMessageCounter(s) ==
  /\ pc[s] = "idle"
  /\ messageCounter' = Add1(messageCounter)
  /\ nonce' = [nonce EXCEPT ![s] = Add1(messageCounter)]
  /\ pc' = [pc EXCEPT ![s] = IF Refused(Add1(messageCounter)) THEN "pin" ELSE "encrypt"]
  /\ UNCHANGED <<sealed, insideOver>>

Pinned == RejectAfterMessages

\* messageCounter.Store(RejectAfterMessages) of NextMessageCounter; the packet
\* is dropped.
Pin(s) ==
  /\ pc[s] = "pin"
  /\ messageCounter' = Pinned
  /\ pc' = [pc EXCEPT ![s] = "idle"]
  /\ UNCHANGED <<nonce, sealed, insideOver>>

\* sendInsideEncrypt draws unconditionally.
SendInsideEncrypt(s) ==
  /\ pc[s] = "idle"
  /\ messageCounter < RejectAfterMessages - 1 \/ insideOver < MaxInsideOver
  /\ messageCounter' = Add1(messageCounter)
  /\ nonce' = [nonce EXCEPT ![s] = Add1(messageCounter)]
  /\ pc' = [pc EXCEPT ![s] = "encrypt"]
  /\ insideOver' = IF messageCounter < RejectAfterMessages - 1 THEN insideOver
                   ELSE insideOver + 1
  /\ UNCHANGED sealed

\* Mutant of Sealable: EncryptDanger leaves the ceiling to its callers.
SealableAlways(n) == TRUE

Sealable(n) == n < RejectAfterMessages

\* EncryptDanger; ErrMessageCounterExhausted drops the packet.
EncryptDanger(s) ==
  /\ pc[s] = "encrypt"
  /\ pc' = [pc EXCEPT ![s] = "idle"]
  /\ sealed' = IF Sealable(nonce[s]) THEN [sealed EXCEPT ![nonce[s]] = @ + 1] ELSE sealed
  /\ UNCHANGED <<messageCounter, nonce, insideOver>>

CounterInit ==
  /\ messageCounter = MessageIndex
  /\ pc = [s \in Sender |-> "idle"]
  /\ nonce = [s \in Sender |-> 0]
  /\ sealed = [n \in Nonce |-> 0]
  /\ insideOver = 0

CounterNext ==
  \E s \in Sender : NextMessageCounter(s) \/ Pin(s) \/ SendInsideEncrypt(s) \/ EncryptDanger(s)

CounterSpec == CounterInit /\ [][CounterNext]_counterVars

-----------------------------------------------------------------------------
(* Properties.                                                             *)

CounterTypeOK ==
  /\ messageCounter \in Nonce
  /\ pc \in [Sender -> {"idle", "pin", "encrypt"}]
  /\ nonce \in [Sender -> Nonce]
  /\ sealed \in [Nonce -> Nat]
  /\ insideOver \in 0..MaxInsideOver

\* No nonce is used twice with the tunnel's key, and none at or above the
\* ceiling: the Store that pins the counter races the adds of other senders and
\* moves the counter back.
NonceOnce ==
  \A n \in Nonce : sealed[n] <= IF n < RejectAfterMessages THEN 1 ELSE 0

\* An exhausted tunnel stays exhausted: once the counter reached the ceiling
\* no add and no pin brings it back below, so no sender gets a nonce again and
\* the connection manager's later look at the counter cannot miss it.
StaysExhausted ==
  [][messageCounter >= RejectAfterMessages => messageCounter' >= RejectAfterMessages]_counterVars
=============================================================================
