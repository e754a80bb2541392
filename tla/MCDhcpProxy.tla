----------------------------- MODULE MCDhcpProxy -----------------------------
(* Two clients that share a transaction id, a server, and two stray ACKs:   *)
(* one has that id, and one an id that is not in use.                       *)
EXTENDS DhcpProxy

CONSTANTS c1, c2, x1, x2

MCClient == {c1, c2}
MCXid == {x1, x2}
MCXidOf == [c \in MCClient |-> x1]
MCStray == {[type |-> "ack", xid |-> x2, mac |-> c1], [type |-> "ack", xid |-> x1, mac |-> c2]}

MCClientSends ==
  [c \in MCClient |-> IF c = c1 THEN {"discover", "request"} ELSE {"request", "release"}]
=============================================================================
