------------------------------ MODULE MCHostMap ------------------------------
(* Small instances of HostMap.                                             *)
EXTENDS HostMap, TLC

CONSTANTS
  h1, h2, h3, h4, a1, a2, r1, r2,
  Scopes  \* what the behaviours are about: "hosts", "relays"

VARIABLE scope

\* Tunnels to peers that share two addresses; the certificates differ in
\* which of them they carry, and in their order.
MCVpnAddrs ==
  [h \in Host |-> CASE h = h1 -> <<a1, a2>> [] h = h2 -> <<a2>>
                    [] h = h3 -> <<a2, a1>> [] h = h4 -> <<a2>>]

\* Two pairs of tunnels were given the same index by their peers.
MCRemoteIndexId == [h \in Host |-> IF h \in {h1, h2} THEN r1 ELSE r2]

\* Index values are drawn at random: no step tells one from another.
IndexSymmetry == Permutations(Index) \cup Permutations(RelayIndex)

\* Four hostinfos without relays, or two with relays.
InScope ==
  \/ scope = "hosts" /\ UNCHANGED <<Relays, relayState>>
  \/ scope = "relays" /\ localIndexId'[h3] = Nil /\ localIndexId'[h4] = Nil

MCInit == Init /\ scope \in Scopes

MCNext == Next /\ UNCHANGED scope /\ InScope

MCSpec == MCInit /\ [][MCNext]_<<vars, scope>>
=============================================================================
