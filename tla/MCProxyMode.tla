----------------------------- MODULE MCProxyMode -----------------------------
(* Two clients, one of which renews by way of another relay agent; grants   *)
(* below, at and above a multiple of the period; and, with one client that  *)
(* renews, an ACK that addLease does not survive.                           *)
EXTENDS ProxyMode, TLC

CONSTANTS a1, a2, a3, a4, m1, m2, port67, port68

MCAck == {a1, a2, a3}
MCMAC == {m1, m2}
MCMacOf == [a \in MCAck |-> IF a = a3 THEN m2 ELSE m1]
MCGrantOf == [a \in MCAck |-> CASE a = a1 -> 20 [] a = a2 -> 9 [] a = a3 -> 13]
MCListener == {port67, port68}
Symmetry == Permutations(MCListener)

Circuit == [code |-> CircuitID, value |-> <<7>>]
Remote(octets) == [code |-> RemoteID, value |-> octets]

(* The usual order, a third sub-option behind it, and the other order.      *)
Third == [code |-> 9, value |-> <<5>>]
MCAgentOf ==
  [a \in MCAck |-> CASE a = a1 -> <<Circuit, Remote(<<8, 9>>)>>
                     [] a = a2 -> <<[Circuit EXCEPT !.value = <<>>], Remote(<<>>), Third>>
                     [] a = a3 -> <<Remote(<<8, 9>>), Circuit>>]

(* For liveness: one client that renews, the lone circuit id of another one *)
(* that ends the process, and the listener their ACKs come to.              *)
MCFewAcks == {a1, a2, a4}
MCFewMacOf == [a \in MCFewAcks |-> IF a = a4 THEN m2 ELSE m1]
MCFewGrantOf == [a \in MCFewAcks |-> CASE a = a1 -> 20 [] a = a2 -> 9 [] a = a4 -> 10]
MCFewAgentOf == [a \in MCFewAcks |-> IF a = a4 THEN <<Circuit>> ELSE MCAgentOf[a]]
MCOneListener == {port68}
=============================================================================
