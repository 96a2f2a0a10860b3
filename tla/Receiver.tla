------------------------------- MODULE Receiver -------------------------------
(***************************************************************************)
(* What Decrypt and VerifyRelay (connection_state.go) promise of a         *)
(* tunnel's packets, without the bitmap and the locks: each number is      *)
(* accepted once at most, and none that is a window or more behind the     *)
(* highest one.  ReplayWindow implements it.                               *)
(***************************************************************************)
EXTENDS Integers

CONSTANTS
  Number,  \* the numbers packets carry
  Window,  \* how far behind the highest number one is still accepted
  Used     \* the numbers 1..Used belong to the handshake

VARIABLES
  top,     \* the highest number accepted
  times    \* how often each number was accepted

receiverVars == <<top, times>>

ReceiverInit ==
  /\ top = Used
  /\ times = [n \in Number |-> IF n <= Used THEN 1 ELSE 0]

Accept(n) ==
  /\ times[n] = 0
  /\ n > top - Window
  /\ times' = [times EXCEPT ![n] = 1]
  /\ top' = IF n > top THEN n ELSE top

ReceiverSpec == ReceiverInit /\ [][\E n \in Number : Accept(n)]_receiverVars
=============================================================================
