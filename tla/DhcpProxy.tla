------------------------------ MODULE DhcpProxy ------------------------------
(***************************************************************************)
(* Proxy mode on the wire: the two Serve goroutines, ServeDHCP with its    *)
(* table of transactions, and the relaying of its answer.  Around them, as *)
(* external parts, clients that send what they like when they like,        *)
(* servers that answer what they get, and UDP: a datagram once sent may    *)
(* arrive late, again, out of order, or never.                             *)
(*                                                                         *)
(* A message keeps its type, transaction id and client, and a relayed      *)
(* message is a copy in these.  What its options decide is left open:      *)
(* whether addLease can slice them, and whether they name a router.        *)
(***************************************************************************)
EXTENDS Naturals

CONSTANTS
  Client,      \* client hardware addresses
  Xid,         \* transaction ids
  XidOf,       \* XidOf[c] is the id client c uses; two clients may share one
  Server,      \* options.Proxy.UpstreamServerIPs
  ClientSends, \* ClientSends[c]: the message types client c sends
  Stray,       \* replies on the wire that no server sends here: of any client,
               \* and with a transaction id that may be in use
  None         \* no lease; no message

VARIABLES
  wire,     \* messages sent to the proxy so far
  m,        \* DHCPHandler.m, the transaction ids seen
  serve,    \* serve[p]: where the Serve goroutine of port p is, what it handles,
            \* and which servers it has still to write to
  leases,   \* leases[c]: the last ACK addLease was called with for c
  toServer, \* toServer[s]: what left for server s so far
  toRouter, \* what left for routers so far
  crashed   \* the process is dead

vars == <<wire, m, serve, leases, toServer, toRouter, crashed>>

Requests == {"discover", "request", "release", "decline", "inform"}
Replies == {"offer", "ack", "nak"}
Message == [type : Requests \cup Replies, xid : Xid, mac : Client]

ASSUME NoneOK == None \notin Message
ASSUME XidsOK == XidOf \in [Client -> Xid]
ASSUME SendsOK == \A c \in Client : ClientSends[c] \subseteq Requests
ASSUME StrayOK == \A r \in Stray : r \in Message /\ r.type \in Replies

Port == {67, 68}
Interface == {"upstream", "downstream", "other"}

(* ifIndex and otherIndex of the two listeners startDHCPProxy starts. *)
ifIndex(p) == IF p = 67 THEN "upstream" ELSE "downstream"
otherIndex(p) == IF p = 67 THEN "downstream" ELSE "upstream"

(* Serve's conn.WriteTo of a BootRequest. *)
RequestsLeaveBy(p) == otherIndex(p)

TypeOK ==
  /\ wire \subseteq Message
  /\ m \subseteq Xid
  /\ serve \in [Port -> [pc : {"read", "mark", "look", "lease", "relay", "returned"},
                         p : Message \cup {None},
                         left : SUBSET Server]]
  /\ leases \in [Client -> Message \cup {None}]
  /\ toServer \in [Server -> SUBSET Message]
  /\ toRouter \subseteq Message
  /\ crashed \in BOOLEAN

Idle == [pc |-> "read", p |-> None, left |-> {}]

Init ==
  /\ wire = Stray
  /\ m = {}
  /\ serve = [p \in Port |-> Idle]
  /\ leases = [c \in Client |-> None]
  /\ toServer = [s \in Server |-> {}]
  /\ toRouter = {}
  /\ crashed = FALSE

------------------------------------------------------------------------------
(* A client, through its router. *)
ClientSend(c, type) ==
  /\ wire' = wire \cup {[type |-> type, xid |-> XidOf[c], mac |-> c]}
  /\ UNCHANGED <<m, serve, leases, toServer, toRouter, crashed>>

(* A server answers a message the proxy sent it. *)
AnswersTo(type) ==
  IF type = "discover" THEN {"offer"} ELSE IF type = "request" THEN {"ack", "nak"} ELSE {}

ServerAnswer(s) ==
  /\ \E sent \in toServer[s] : \E type \in AnswersTo(sent.type) :
       wire' = wire \cup {[type |-> type, xid |-> sent.xid, mac |-> sent.mac]}
  /\ UNCHANGED <<m, serve, leases, toServer, toRouter, crashed>>

------------------------------------------------------------------------------
At(p, pc) == serve[p].pc = pc
Packet(p) == serve[p].p
Goto(p, pc) == serve' = [serve EXCEPT ![p].pc = pc]

(* A bug: a request is relayed before its transaction is entered.           *)
FirstStepRelays(type) ==
  IF type \in {"offer", "ack", "nak"} THEN "look"
  ELSE IF type = "inform" THEN "read" ELSE "relay"

(* Where ServeDHCP begins with a message of each type. *)
FirstStep(type) ==
  IF type \in {"discover", "request"} THEN "mark"
  ELSE IF type \in {"offer", "ack", "nak"} THEN "look"
  ELSE IF type \in {"release", "decline"} THEN "relay"
  ELSE "read"

(* ReadFrom drops what came by an interface not of this listener. *)
ReadFrom(p, via) == via \in {ifIndex(p), otherIndex(p)}

(* A datagram for ServeDHCP, which makes nothing of an INFORM. *)
Receive(p, packet, via) ==
  /\ At(p, "read")
  /\ packet \in wire
  /\ ReadFrom(p, via)
  /\ FirstStep(packet.type) # "read"
  /\ serve' = [serve EXCEPT ![p] =
       [pc |-> FirstStep(packet.type), p |-> packet,
        left |-> IF packet.type \in Requests THEN Server ELSE {}]]
  /\ UNCHANGED <<wire, m, leases, toServer, toRouter, crashed>>

(* Serve gives up when its socket cannot be read: it logs and returns, and  *)
(* nothing starts that listener again.                                      *)
ReadFails(p) ==
  /\ At(p, "read")
  /\ Goto(p, "returned")
  /\ UNCHANGED <<wire, m, leases, toServer, toRouter, crashed>>

(* A bug: the table is keyed by client.                                     *)
MarkByClient(p) ==
  /\ At(p, "mark")
  /\ m' = m \cup {Packet(p).mac}
  /\ Goto(p, "relay")
  /\ UNCHANGED <<wire, leases, toServer, toRouter, crashed>>

(* h.m[xid] = true, for a DISCOVER and a REQUEST. *)
Mark(p) ==
  /\ At(p, "mark")
  /\ m' = m \cup {Packet(p).xid}
  /\ Goto(p, "relay")
  /\ UNCHANGED <<wire, leases, toServer, toRouter, crashed>>

(* A bug: an ACK does not ask for its transaction.                          *)
LookSkipsAck(p) ==
  /\ At(p, "look")
  /\ IF Packet(p).type = "ack" THEN Goto(p, "lease")
     ELSE IF Packet(p).xid \in m THEN Goto(p, "relay")
     ELSE serve' = [serve EXCEPT ![p] = Idle]
  /\ UNCHANGED <<wire, m, leases, toServer, toRouter, crashed>>

(* A bug: an ACK is relayed as an OFFER is, without addLease. *)
LookForgetsLease(p) ==
  /\ At(p, "look")
  /\ IF Packet(p).xid \notin m THEN serve' = [serve EXCEPT ![p] = Idle] ELSE Goto(p, "relay")
  /\ UNCHANGED <<wire, m, leases, toServer, toRouter, crashed>>

(* if !h.m[xid] { return nil }, for an OFFER, an ACK and a NAK. *)
Look(p) ==
  /\ At(p, "look")
  /\ IF Packet(p).xid \notin m THEN serve' = [serve EXCEPT ![p] = Idle]
     ELSE Goto(p, IF Packet(p).type = "ack" THEN "lease" ELSE "relay")
  /\ UNCHANGED <<wire, m, leases, toServer, toRouter, crashed>>

(* addLease; or a panic, of an ACK without lease time or with a relay agent *)
(* option that addLease slices out of range.                                *)
Lease(p) ==
  /\ At(p, "lease")
  /\ \/ /\ leases' = [leases EXCEPT ![Packet(p).mac] = Packet(p)]
        /\ Goto(p, "relay")
        /\ UNCHANGED crashed
     \/ /\ crashed' = TRUE
        /\ UNCHANGED <<leases, serve>>
  /\ UNCHANGED <<wire, m, toServer, toRouter>>

(* One turn of the loop over the servers; an error is logged. *)
RelayUp(p, s) ==
  /\ At(p, "relay")
  /\ s \in serve[p].left
  /\ \/ toServer' = [toServer EXCEPT ![s] = @ \cup {Packet(p)}]
     \/ UNCHANGED toServer
  /\ serve' = [serve EXCEPT ![p].left = @ \ {s}]
  /\ UNCHANGED <<wire, m, leases, toRouter, crashed>>

(* A reply goes to the router its options name, and nowhere without one or  *)
(* when the write fails.                                                    *)
RelayDown(p) ==
  /\ At(p, "relay")
  /\ Packet(p).type \in Replies
  /\ \/ toRouter' = toRouter \cup {Packet(p)}
     \/ UNCHANGED toRouter
  /\ serve' = [serve EXCEPT ![p] = Idle]
  /\ UNCHANGED <<wire, m, leases, toServer, crashed>>

(* Every server was written to; Serve reads the next datagram. *)
RelayedUp(p) ==
  /\ At(p, "relay")
  /\ Packet(p).type \in Requests
  /\ serve[p].left = {}
  /\ serve' = [serve EXCEPT ![p] = Idle]
  /\ UNCHANGED <<wire, m, leases, toServer, toRouter, crashed>>

(* fatal error: concurrent map writes, or map read and map write *)
Fatal ==
  /\ \E p, q \in Port : p # q /\ At(p, "mark") /\ (At(q, "mark") \/ At(q, "look"))
  /\ crashed' = TRUE
  /\ UNCHANGED <<wire, m, serve, leases, toServer, toRouter>>

Dead ==
  /\ crashed
  /\ UNCHANGED vars

ServeDHCP(p) == Mark(p) \/ Look(p) \/ Lease(p)
Relay(p) == RelayDown(p) \/ RelayedUp(p) \/ \E s \in Server : RelayUp(p, s)

Next ==
  \/ /\ ~crashed
     /\ \/ \E c \in Client : \E type \in ClientSends[c] : ClientSend(c, type)
        \/ \E s \in Server : ServerAnswer(s)
        \/ \E p \in Port : \E packet \in wire, via \in Interface : Receive(p, packet, via)
        \/ \E p \in Port : ReadFails(p)
        \/ \E p \in Port : ServeDHCP(p) \/ Relay(p)
        \/ Fatal
  \/ Dead

Spec == Init /\ [][Next]_vars

------------------------------------------------------------------------------
(* A reply that the proxy relays, and a lease that it records, have a       *)
(* transaction that some client of its asked with; the client they are for  *)
(* asked with it too, unless the reply came from elsewhere: the table has   *)
(* transactions and not clients, and whoever sends a reply with one of them *)
(* may serve anybody, at any time after.                                    *)
Asked(xid, c) ==
  \E q \in wire : q.type \in {"discover", "request"} /\ q.xid = xid /\ q.mac = c

InUse(xid) == \E c \in Client : Asked(xid, c)
Due(r) == InUse(r.xid) /\ (r \in Stray \/ Asked(r.xid, r.mac))

OnlyAskersAreServed ==
  /\ \A r \in toRouter : Due(r)
  /\ \A c \in Client : leases[c] # None => leases[c].mac = c /\ Due(leases[c])

(* No answer is dropped for coming too soon: by the time a server has a     *)
(* DISCOVER or REQUEST, its transaction is in the table the other listener  *)
(* will look the answer up in.                                              *)
AnswersPassTheGate ==
  \A s \in Server : \A sent \in toServer[s] :
    sent.type \in {"discover", "request"} => sent.xid \in m

(* A client that was told of its lease is in the lease table that batches   *)
(* are made of, whichever listener relayed the ACK and whatever came since; *)
(* and nothing but an ACK puts a client there.                              *)
ToldAreRecorded ==
  /\ \A r \in toRouter : r.type = "ack" => leases[r.mac] # None
  /\ \A c \in Client : leases[c] # None => leases[c].type = "ack"

(* What makes it inductive: an ACK past addLease is in the table.           *)
AcksGoByTheTable ==
  \A p \in Port :
    /\ At(p, "lease") => Packet(p).type = "ack"
    /\ At(p, "relay") /\ Packet(p).type = "ack" => leases[Packet(p).mac] # None

(* What makes the first two inductive.  A reply on the wire is a stray or   *)
(* answers a request that is there; the table has transactions that were    *)
(* asked with; and past the table a listener has a message of the wire      *)
(* whose transaction is in the table, unless its type asks for none.        *)
Gated(q) == q.type \in Replies \cup {"discover", "request"} => q.xid \in m

WireOK == \A q \in wire : q.type \in Replies => q \in Stray \/ Asked(q.xid, q.mac)

HandlersOK ==
  \A p \in Port : ~At(p, "read") /\ ~At(p, "returned") =>
    /\ Packet(p) \in wire
    /\ At(p, "mark") => Packet(p).type \in {"discover", "request"}
    /\ At(p, "look") => Packet(p).type \in Replies
    /\ At(p, "lease") => Packet(p).type \in Replies
    /\ At(p, "lease") \/ At(p, "relay") => Gated(Packet(p))

LeftOK ==
  /\ \A s \in Server : \A q \in toServer[s] : q \in wire /\ Gated(q)
  /\ toRouter \subseteq wire
  /\ \A q \in toRouter : q.type \in Replies /\ Gated(q)
  /\ \A c \in Client : leases[c] # None =>
       leases[c] \in wire /\ leases[c].mac = c /\ leases[c].type \in Replies /\ Gated(leases[c])

Provenance == (\A xid \in m : InUse(xid)) /\ WireOK /\ HandlersOK /\ LeftOK

IndInv == TypeOK /\ Provenance

(* "upstream interface to pass requests to DHCP server(s)" (README.md:120): *)
(* not so for what arrives on port 67, where clients and relays send to.    *)
RequestsLeaveUpstream ==
  \A p \in Port :
    At(p, "relay") /\ Packet(p).type \in Requests => RequestsLeaveBy(p) = "upstream"
=============================================================================
