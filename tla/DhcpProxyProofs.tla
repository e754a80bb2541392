--------------------------- MODULE DhcpProxyProofs ---------------------------
(***************************************************************************)
(* For every set of clients, servers and transaction ids, however the      *)
(* clients share them, and every network, whatever replies others send:    *)
(* what is relayed or recorded has a transaction some client asked with,   *)
(* no answer comes before its transaction is in the table, and who is told *)
(* of a lease has been recorded.                                           *)
(***************************************************************************)
EXTENDS DhcpProxy, TLAPS

(* What is asked stays asked: nothing is taken off the wire. *)
LEMMA AskedStays ==
  ASSUME wire \subseteq wire'
  PROVE  /\ \A x, c : Asked(x, c) => Asked(x, c)'
         /\ \A x : InUse(x) => InUse(x)'
  BY DEF Asked, InUse

(* A listener's place, message and servers are of their types. *)
LEMMA PacketTypes ==
  ASSUME TypeOK, NEW p \in Port
  PROVE  /\ serve[p].pc \in {"read", "mark", "look", "lease", "relay", "returned"}
         /\ Packet(p) \in Message \cup {None}
         /\ serve[p].left \in SUBSET Server
         /\ serve[p] = [pc |-> serve[p].pc, p |-> serve[p].p, left |-> serve[p].left]
  BY DEF TypeOK, Packet

(* A step to another place leaves the listener its message. *)
LEMMA GotoKeepsPacket ==
  ASSUME TypeOK, NEW p \in Port, NEW pc, Goto(p, pc)
  PROVE  \E x : serve' = [serve EXCEPT ![p] = x] /\ x.pc = pc /\ x.p = Packet(p)
<1> DEFINE x == [serve[p] EXCEPT !.pc = pc]
<1>1. serve' = [serve EXCEPT ![p] = x] /\ x.pc = pc /\ x.p = Packet(p)
  BY PacketTypes DEF Goto, TypeOK, Packet
<1> HIDE DEF x
<1> QED
  BY <1>1

(* A step of one listener keeps HandlersOK if that listener is all right    *)
(* after it, nothing leaves the wire and nothing leaves the table.          *)
LEMMA OneHandlerMoves ==
  ASSUME TypeOK, HandlersOK, NEW p \in Port, NEW x, serve' = [serve EXCEPT ![p] = x],
         wire \subseteq wire', m \subseteq m',
         x.pc \notin {"read", "returned"} =>
           /\ x.p \in wire'
           /\ x.pc = "mark" => x.p.type \in {"discover", "request"}
           /\ x.pc \in {"look", "lease"} => x.p.type \in Replies
           /\ x.pc \in {"lease", "relay"} =>
                (x.p.type \in Replies \cup {"discover", "request"} => x.p.xid \in m')
  PROVE  HandlersOK'
<1> SUFFICES ASSUME NEW q \in Port, ~At(q, "read")', ~At(q, "returned")'
             PROVE /\ Packet(q)' \in wire'
                   /\ At(q, "mark")' => Packet(q)'.type \in {"discover", "request"}
                   /\ At(q, "look")' => Packet(q)'.type \in Replies
                   /\ At(q, "lease")' => Packet(q)'.type \in Replies
                   /\ At(q, "lease")' \/ At(q, "relay")' => Gated(Packet(q))'
  BY DEF HandlersOK
<1>1. CASE q = p
  <2>1. serve'[q] = x
    BY <1>1 DEF TypeOK
  <2> QED
    BY <2>1 DEF At, Packet, Gated
<1>2. CASE q # p
  <2>1. serve'[q] = serve[q]
    BY <1>2 DEF TypeOK
  <2>2. /\ Packet(q) \in wire
        /\ At(q, "mark") => Packet(q).type \in {"discover", "request"}
        /\ At(q, "look") => Packet(q).type \in Replies
        /\ At(q, "lease") => Packet(q).type \in Replies
        /\ At(q, "lease") \/ At(q, "relay") => Gated(Packet(q))
    BY <2>1 DEF HandlersOK, At
  <2> QED
    BY <2>1, <2>2 DEF At, Packet, Gated
<1> QED
  BY <1>1, <1>2

(* No step breaks the inductive invariant. *)
LEMMA InvStep == IndInv /\ [Next]_vars => IndInv'
<1> SUFFICES ASSUME IndInv, [Next]_vars PROVE IndInv'
  OBVIOUS
<1> USE DEF IndInv, Provenance
<1>1. ASSUME NEW c \in Client, NEW type \in ClientSends[c], ClientSend(c, type) PROVE IndInv'
  <2> DEFINE q == [type |-> type, xid |-> XidOf[c], mac |-> c]
  <2>1. q \in Message /\ q.type \in Requests /\ q.xid = XidOf[q.mac] /\ wire' = wire \cup {q}
    BY <1>1, XidsOK, SendsOK DEF ClientSend, Message
  <2>2. TypeOK'
    BY <1>1, <2>1 DEF ClientSend, TypeOK
  <2>3. WireOK'
    BY <2>1, AskedStays DEF WireOK, Requests, Replies
  <2>4. HandlersOK'
    BY <1>1, <2>1 DEF ClientSend, HandlersOK, At, Packet, Gated
  <2>5. LeftOK'
    BY <1>1, <2>1 DEF ClientSend, LeftOK, Gated
  <2> QED
    BY <1>1, <2>1, <2>2, <2>3, <2>4, <2>5, AskedStays DEF ClientSend
<1>2. ASSUME NEW s \in Server, ServerAnswer(s) PROVE IndInv'
  <2>0. PICK sent \in toServer[s] : \E type \in AnswersTo(sent.type) :
          wire' = wire \cup {[type |-> type, xid |-> sent.xid, mac |-> sent.mac]}
    BY <1>2 DEF ServerAnswer
  <2>1. PICK type \in AnswersTo(sent.type) :
          wire' = wire \cup {[type |-> type, xid |-> sent.xid, mac |-> sent.mac]}
    BY <2>0
  <2> DEFINE r == [type |-> type, xid |-> sent.xid, mac |-> sent.mac]
  <2>2. sent \in wire /\ sent \in Message
    BY DEF LeftOK, TypeOK
  <2>3. sent.type \in {"discover", "request"} /\ type \in Replies
    BY DEF AnswersTo, Replies
  <2>4. Asked(r.xid, r.mac)
    BY <2>2, <2>3 DEF Asked
  <2>5. r \in Message /\ r.type \notin Requests
    BY <2>2, <2>3 DEF Message, Replies, Requests
  <2>6. TypeOK'
    BY <1>2, <2>1, <2>5 DEF ServerAnswer, TypeOK
  <2>7. WireOK'
    BY <2>1, <2>4, <2>5, AskedStays DEF WireOK
  <2>8. HandlersOK'
    BY <1>2, <2>1 DEF ServerAnswer, HandlersOK, At, Packet, Gated
  <2>9. LeftOK'
    BY <1>2, <2>1 DEF ServerAnswer, LeftOK, Gated
  <2> QED
    BY <1>2, <2>1, <2>6, <2>7, <2>8, <2>9, AskedStays DEF ServerAnswer
<1>3. ASSUME NEW p \in Port, NEW packet \in wire, NEW via \in Interface, Receive(p, packet, via)
      PROVE  IndInv'
  <2> DEFINE x == [pc |-> FirstStep(packet.type), p |-> packet,
                   left |-> IF packet.type \in Requests THEN Server ELSE {}]
  <2>1. packet \in Message /\ serve' = [serve EXCEPT ![p] = x]
    BY <1>3 DEF Receive, TypeOK
  <2>2. x.pc \in {"mark", "look", "relay"}
    BY <1>3 DEF Receive, FirstStep
  <2>3. TypeOK'
    BY <1>3, <2>1, <2>2 DEF Receive, TypeOK
  <2>4. /\ x.pc = "mark" => packet.type \in {"discover", "request"}
        /\ x.pc = "look" => packet.type \in Replies
        /\ x.pc = "relay" => packet.type \in {"release", "decline"}
    BY DEF FirstStep, Replies
  <2>5. HandlersOK'
    BY <1>3, <2>1, <2>2, <2>4, OneHandlerMoves DEF Receive, Gated, Replies
  <2> QED
    BY <1>3, <2>3, <2>5 DEF Receive, WireOK, LeftOK, Asked, InUse, Gated
<1>4. ASSUME NEW p \in Port, ReadFails(p) PROVE IndInv'
  <2>1. TypeOK'
    BY <1>4 DEF ReadFails, Goto, TypeOK
  <2>2. HandlersOK'
    BY <1>4 DEF ReadFails, Goto, HandlersOK, At, Packet, Gated, TypeOK
  <2> QED
    BY <1>4, <2>1, <2>2 DEF ReadFails, WireOK, LeftOK, Asked, InUse, Gated
<1>5. ASSUME NEW p \in Port, Mark(p) PROVE IndInv'
  <2>1. Packet(p) \in wire /\ Packet(p) \in Message /\ Packet(p).type \in {"discover", "request"}
    BY <1>5 DEF Mark, HandlersOK, At, TypeOK
  <2>2. InUse(Packet(p).xid) /\ m' = m \cup {Packet(p).xid}
    BY <1>5, <2>1 DEF Mark, InUse, Asked, Message
  <2>3. PICK x : serve' = [serve EXCEPT ![p] = x] /\ x.pc = "relay" /\ x.p = Packet(p)
    BY <1>5, GotoKeepsPacket DEF Mark
  <2>4. TypeOK'
    BY <1>5, <2>1, <2>2 DEF Mark, Goto, TypeOK, Message
  <2>5. HandlersOK'
    BY <1>5, <2>1, <2>2, <2>3, OneHandlerMoves DEF Mark, Gated
  <2>6. LeftOK'
    BY <1>5, <2>2 DEF Mark, LeftOK, Gated
  <2> QED
    BY <1>5, <2>2, <2>4, <2>5, <2>6 DEF Mark, WireOK, Asked, InUse
<1>6. ASSUME NEW p \in Port, Look(p) PROVE IndInv'
  <2>1. Packet(p) \in wire /\ Packet(p).type \in Replies
    BY <1>6 DEF Look, HandlersOK, At
  <2>2. TypeOK'
    BY <1>6 DEF Look, Goto, Idle, TypeOK
  <2>3. ASSUME Packet(p).xid \notin m PROVE HandlersOK'
    <3>1. serve' = [serve EXCEPT ![p] = Idle] /\ Idle.pc = "read"
      BY <1>6, <2>3 DEF Look, Idle
    <3>2. wire \subseteq wire' /\ m \subseteq m'
      BY <1>6 DEF Look
    <3> QED
      BY <3>1, <3>2, OneHandlerMoves
  <2>4. ASSUME Packet(p).xid \in m PROVE HandlersOK'
    <3>0. Goto(p, "lease") \/ Goto(p, "relay")
      BY <1>6, <2>4 DEF Look
    <3>1. PICK x : /\ serve' = [serve EXCEPT ![p] = x]
                   /\ x.pc \in {"lease", "relay"} /\ x.p = Packet(p)
      BY <3>0, GotoKeepsPacket
    <3> QED
      BY <1>6, <2>1, <2>4, <3>1, OneHandlerMoves DEF Look, Gated
  <2>5. HandlersOK'
    BY <2>3, <2>4
  <2> QED
    BY <1>6, <2>2, <2>5 DEF Look, WireOK, LeftOK, Asked, InUse, Gated
<1>7. ASSUME NEW p \in Port, Lease(p) PROVE IndInv'
  <2>1. /\ Packet(p) \in wire /\ Packet(p) \in Message
        /\ Packet(p).type \in Replies /\ Gated(Packet(p))
    BY <1>7 DEF Lease, HandlersOK, At, TypeOK
  <2>2. CASE crashed' = TRUE /\ UNCHANGED <<leases, serve>>
    BY <1>7, <2>2 DEF Lease, TypeOK, WireOK, HandlersOK, LeftOK, Asked, InUse, At, Packet, Gated
  <2>3. CASE /\ leases' = [leases EXCEPT ![Packet(p).mac] = Packet(p)]
             /\ Goto(p, "relay")
             /\ UNCHANGED crashed
    <3>1. PICK x : serve' = [serve EXCEPT ![p] = x] /\ x.pc = "relay" /\ x.p = Packet(p)
      BY <2>3, GotoKeepsPacket
    <3>2. TypeOK'
      BY <1>7, <2>1, <2>3 DEF Lease, Goto, TypeOK
    <3>3. HandlersOK'
      BY <1>7, <2>1, <3>1, OneHandlerMoves DEF Lease, Gated
    <3>4. LeftOK'
      BY <1>7, <2>1, <2>3 DEF Lease, LeftOK, Gated, TypeOK
    <3> QED
      BY <1>7, <3>2, <3>3, <3>4 DEF Lease, WireOK, Asked, InUse
  <2> QED
    BY <1>7, <2>2, <2>3 DEF Lease
<1>8. ASSUME NEW p \in Port, NEW s \in Server, RelayUp(p, s) PROVE IndInv'
  <2>1. Packet(p) \in wire /\ Packet(p) \in Message /\ Gated(Packet(p))
    BY <1>8 DEF RelayUp, HandlersOK, At, TypeOK
  <2>2. PICK x : serve' = [serve EXCEPT ![p] = x] /\ x.pc = "relay" /\ x.p = Packet(p)
    <3> DEFINE y == [serve[p] EXCEPT !.left = @ \ {s}]
    <3>1. serve' = [serve EXCEPT ![p] = y] /\ y.pc = "relay" /\ y.p = Packet(p)
      BY <1>8, PacketTypes DEF RelayUp, At, Packet
    <3> HIDE DEF y
    <3> QED
      BY <3>1
  <2>3. TypeOK'
    BY <1>8, <2>1 DEF RelayUp, TypeOK
  <2>4. HandlersOK'
    BY <1>8, <2>1, <2>2, OneHandlerMoves DEF RelayUp, Gated
  <2>5. \A r \in Server : toServer'[r] \subseteq toServer[r] \cup {Packet(p)}
    BY <1>8 DEF RelayUp, TypeOK
  <2>6. LeftOK'
    BY <1>8, <2>1, <2>5 DEF RelayUp, LeftOK, Gated
  <2> QED
    BY <1>8, <2>3, <2>4, <2>6 DEF RelayUp, WireOK, Asked, InUse
<1>9. ASSUME NEW p \in Port, RelayDown(p) PROVE IndInv'
  <2>1. Packet(p) \in wire /\ Packet(p) \in Message /\ Gated(Packet(p))
    BY <1>9 DEF RelayDown, HandlersOK, At, TypeOK
  <2>2. Packet(p).type \in Replies /\ toRouter' \subseteq toRouter \cup {Packet(p)}
    BY <1>9 DEF RelayDown
  <2>3. serve' = [serve EXCEPT ![p] = Idle] /\ Idle.pc = "read"
    BY <1>9 DEF RelayDown, Idle
  <2>4. TypeOK'
    BY <1>9, <2>1 DEF RelayDown, Idle, TypeOK
  <2>5. HandlersOK'
    BY <1>9, <2>3, OneHandlerMoves DEF RelayDown
  <2>6. LeftOK'
    BY <1>9, <2>1, <2>2 DEF RelayDown, LeftOK, Gated
  <2> QED
    BY <1>9, <2>4, <2>5, <2>6 DEF RelayDown, WireOK, Asked, InUse
<1>10. ASSUME NEW p \in Port, RelayedUp(p) PROVE IndInv'
  <2>1. serve' = [serve EXCEPT ![p] = Idle] /\ Idle.pc = "read"
    BY <1>10 DEF RelayedUp, Idle
  <2>2. TypeOK'
    BY <1>10 DEF RelayedUp, Idle, TypeOK
  <2>3. HandlersOK'
    BY <1>10, <2>1, OneHandlerMoves DEF RelayedUp
  <2> QED
    BY <1>10, <2>2, <2>3 DEF RelayedUp, WireOK, LeftOK, Asked, InUse, Gated
<1>11. CASE Fatal
  BY <1>11 DEF Fatal, TypeOK, WireOK, HandlersOK, LeftOK, Asked, InUse, At, Packet, Gated
<1>12. CASE UNCHANGED vars
  BY <1>12 DEF vars, TypeOK, WireOK, HandlersOK, LeftOK, Asked, InUse, At, Packet, Gated
<1> QED
  BY <1>1, <1>2, <1>3, <1>4, <1>5, <1>6, <1>7, <1>8, <1>9, <1>10, <1>11, <1>12
     DEF Next, ServeDHCP, Relay, Dead

(* The inductive invariant: every message the proxy handles, relays or      *)
(* records came by the wire, and past the table its transaction is known.   *)
THEOREM InvCorrect == Spec => []IndInv
<1>1. Init => IndInv
  <2> SUFFICES ASSUME Init PROVE IndInv
    OBVIOUS
  <2>1. TypeOK
    BY StrayOK DEF Init, TypeOK, Idle
  <2>2. WireOK
    BY StrayOK DEF Init, WireOK, Requests, Replies
  <2>3. HandlersOK
    BY DEF Init, HandlersOK, Idle, At
  <2>4. LeftOK
    BY DEF Init, LeftOK
  <2> QED
    BY <2>1, <2>2, <2>3, <2>4 DEF Init, IndInv, Provenance
<1> QED
  BY <1>1, InvStep, PTL DEF Spec

(* The variables keep to their types. *)
THEOREM TypeCorrect == Spec => []TypeOK
  BY InvCorrect, PTL DEF IndInv

(* Whatever the two listeners hold between their steps came by the wire,    *)
(* and past the table only with a transaction that is in it.                *)
THEOREM ProvenanceHolds == Spec => []Provenance
  BY InvCorrect, PTL DEF IndInv

(* Whatever replies others put on the wire, with ids in use or not and for  *)
(* whatever client: one that is relayed or recorded has a transaction that  *)
(* some client sent a DISCOVER or REQUEST with, and if it came from a       *)
(* server here, the client it is for did (proxy_handler.go:143, 186, 208).  *)
THEOREM OnlyAskersAreServedHolds == Spec => []OnlyAskersAreServed
<1>1. IndInv => OnlyAskersAreServed
  <2> SUFFICES ASSUME IndInv PROVE OnlyAskersAreServed
    OBVIOUS
  <2>1. ASSUME NEW r \in wire, r.type \in Replies, Gated(r) PROVE Due(r)
    BY <2>1 DEF IndInv, Provenance, WireOK, Gated, Due
  <2>2. \A r \in toRouter : Due(r)
    BY <2>1 DEF IndInv, Provenance, LeftOK
  <2>3. \A c \in Client : leases[c] # None => leases[c].mac = c /\ Due(leases[c])
    BY <2>1 DEF IndInv, Provenance, LeftOK
  <2> QED
    BY <2>2, <2>3 DEF OnlyAskersAreServed
<1> QED
  BY <1>1, InvCorrect, PTL

(* By the time a server has a DISCOVER or REQUEST, its transaction is in    *)
(* the table: h.m is written before the request is relayed.                 *)
THEOREM AnswersPassTheGateHolds == Spec => []AnswersPassTheGate
<1>1. IndInv => AnswersPassTheGate
  BY DEF IndInv, Provenance, LeftOK, Gated, AnswersPassTheGate
<1> QED
  BY <1>1, InvCorrect, PTL

------------------------------------------------------------------------------
(* A step of one listener keeps AcksGoByTheTable if that listener is all    *)
(* right after it and no lease is taken out of the table.                   *)
LEMMA OneAckMoves ==
  ASSUME IndInv, AcksGoByTheTable, NEW p \in Port, NEW x, serve' = [serve EXCEPT ![p] = x],
         \A c \in Client : leases[c] # None => leases'[c] # None,
         x.pc = "lease" => x.p.type = "ack",
         x.pc = "relay" /\ x.p.type = "ack" => leases'[x.p.mac] # None
  PROVE  AcksGoByTheTable'
<1> SUFFICES ASSUME NEW q \in Port
             PROVE  /\ At(q, "lease")' => Packet(q)'.type = "ack"
                    /\ At(q, "relay")' /\ Packet(q)'.type = "ack" => leases'[Packet(q)'.mac] # None
  BY DEF AcksGoByTheTable
<1>1. CASE q = p
  <2>1. serve'[q] = x
    BY <1>1 DEF IndInv, TypeOK
  <2> QED
    BY <2>1 DEF At, Packet
<1>2. CASE q # p
  <2>1. serve'[q] = serve[q]
    BY <1>2 DEF IndInv, TypeOK
  <2>2. At(q, "relay") => Packet(q).mac \in Client
    BY DEF IndInv, Provenance, HandlersOK, TypeOK, Message, At
  <2>3. /\ At(q, "lease") => Packet(q).type = "ack"
        /\ At(q, "relay") /\ Packet(q).type = "ack" => leases[Packet(q).mac] # None
    BY DEF AcksGoByTheTable
  <2> QED
    BY <2>1, <2>2, <2>3 DEF At, Packet
<1> QED
  BY <1>1, <1>2

(* No step tells a client of a lease that is not in the table. *)
LEMMA RecordedStep ==
  ASSUME IndInv, ToldAreRecorded, AcksGoByTheTable, [Next]_vars
  PROVE  ToldAreRecorded' /\ AcksGoByTheTable'
<1>1. CASE UNCHANGED <<serve, leases, toRouter>>
  BY <1>1 DEF ToldAreRecorded, AcksGoByTheTable, At, Packet
<1>2. ASSUME NEW p \in Port, NEW packet \in wire, NEW via \in Interface, Receive(p, packet, via)
      PROVE  ToldAreRecorded' /\ AcksGoByTheTable'
  <2> DEFINE x == [pc |-> FirstStep(packet.type), p |-> packet,
                   left |-> IF packet.type \in Requests THEN Server ELSE {}]
  <2>1. serve' = [serve EXCEPT ![p] = x] /\ UNCHANGED <<leases, toRouter>>
    BY <1>2 DEF Receive
  <2>2. x.pc # "lease" /\ (x.pc = "relay" => x.p.type # "ack")
    BY DEF FirstStep
  <2> HIDE DEF x
  <2>3. AcksGoByTheTable'
    BY <2>1, <2>2, OneAckMoves
  <2> QED
    BY <2>1, <2>3 DEF ToldAreRecorded
<1>3. ASSUME NEW p \in Port, ReadFails(p) \/ Mark(p) PROVE ToldAreRecorded' /\ AcksGoByTheTable'
  <2>1. UNCHANGED <<leases, toRouter>> /\ (Goto(p, "returned") \/ Goto(p, "relay"))
    BY <1>3 DEF ReadFails, Mark
  <2>2. PICK x : /\ serve' = [serve EXCEPT ![p] = x]
                 /\ x.pc \in {"returned", "relay"} /\ x.p = Packet(p)
    BY <2>1, GotoKeepsPacket DEF IndInv
  <2>3. Mark(p) => Packet(p).type # "ack"
    BY DEF Mark, IndInv, Provenance, HandlersOK, At
  <2>4. ReadFails(p) => x.pc = "returned"
    <3> SUFFICES ASSUME ReadFails(p) PROVE x.pc = "returned"
      OBVIOUS
    <3>1. serve'[p] = x /\ serve'[p].pc = "returned"
      BY <2>2, PacketTypes DEF ReadFails, Goto, IndInv, TypeOK
    <3> QED
      BY <3>1
  <2>5. AcksGoByTheTable'
    BY <1>3, <2>1, <2>2, <2>3, <2>4, OneAckMoves
  <2> QED
    BY <2>1, <2>5 DEF ToldAreRecorded
<1>4. ASSUME NEW p \in Port, Look(p) PROVE ToldAreRecorded' /\ AcksGoByTheTable'
  <2>1. UNCHANGED <<leases, toRouter>>
    BY <1>4 DEF Look
  <2>2. CASE serve' = [serve EXCEPT ![p] = Idle]
    BY <2>1, <2>2, OneAckMoves DEF Idle, ToldAreRecorded
  <2>3. CASE Goto(p, IF Packet(p).type = "ack" THEN "lease" ELSE "relay")
    <3>1. PICK x : /\ serve' = [serve EXCEPT ![p] = x]
                   /\ x.pc = (IF Packet(p).type = "ack" THEN "lease" ELSE "relay") /\ x.p = Packet(p)
      BY <2>3, GotoKeepsPacket DEF IndInv
    <3> QED
      BY <2>1, <3>1, OneAckMoves DEF ToldAreRecorded
  <2> QED
    BY <1>4, <2>2, <2>3 DEF Look
<1>5. ASSUME NEW p \in Port, Lease(p) PROVE ToldAreRecorded' /\ AcksGoByTheTable'
  <2>1. CASE UNCHANGED <<leases, serve>>
    BY <1>1, <1>5, <2>1 DEF Lease
  <2>2. CASE leases' = [leases EXCEPT ![Packet(p).mac] = Packet(p)] /\ Goto(p, "relay")
    <3>1. Packet(p).type = "ack" /\ Packet(p).mac \in Client /\ Packet(p) # None /\ UNCHANGED toRouter
      BY <1>5, NoneOK DEF Lease, AcksGoByTheTable, IndInv, Provenance, HandlersOK, TypeOK, Message, At
    <3>2. leases \in [Client -> Message \cup {None}]
      BY DEF IndInv, TypeOK
    <3>3. PICK x : serve' = [serve EXCEPT ![p] = x] /\ x.pc = "relay" /\ x.p = Packet(p)
      BY <2>2, GotoKeepsPacket DEF IndInv
    <3>4. \A c \in Client : leases[c] # None => leases'[c] # None
      BY <2>2, <3>1, <3>2
    <3>5. AcksGoByTheTable'
      BY <2>2, <3>1, <3>2, <3>3, <3>4, OneAckMoves
    <3>6. \A r \in toRouter : r.mac \in Client
      BY DEF IndInv, TypeOK, Message
    <3>7. ToldAreRecorded'
      BY <2>2, <3>1, <3>2, <3>4, <3>6 DEF ToldAreRecorded
    <3> QED
      BY <3>5, <3>7
  <2> QED
    BY <1>5, <2>1, <2>2 DEF Lease
<1>6. ASSUME NEW p \in Port, NEW s \in Server, RelayUp(p, s)
      PROVE  ToldAreRecorded' /\ AcksGoByTheTable'
  <2> DEFINE x == [serve[p] EXCEPT !.left = @ \ {s}]
  <2>1. serve' = [serve EXCEPT ![p] = x] /\ UNCHANGED <<leases, toRouter>> /\ At(p, "relay")
    BY <1>6 DEF RelayUp
  <2>2. x.pc = "relay" /\ x.p = Packet(p)
    BY <2>1, PacketTypes DEF At, Packet, IndInv
  <2>3. Packet(p).type = "ack" => leases[Packet(p).mac] # None
    BY <2>1 DEF AcksGoByTheTable
  <2> HIDE DEF x
  <2>4. AcksGoByTheTable'
    BY <2>1, <2>2, <2>3, OneAckMoves
  <2> QED
    BY <2>1, <2>4 DEF ToldAreRecorded
<1>7. ASSUME NEW p \in Port, RelayDown(p) \/ RelayedUp(p) PROVE ToldAreRecorded' /\ AcksGoByTheTable'
  <2>1. /\ serve' = [serve EXCEPT ![p] = Idle] /\ UNCHANGED leases /\ At(p, "relay")
        /\ toRouter' \subseteq toRouter \cup {Packet(p)}
    BY <1>7 DEF RelayDown, RelayedUp
  <2>2. AcksGoByTheTable'
    BY <2>1, OneAckMoves DEF Idle
  <2>3. ToldAreRecorded'
    BY <2>1 DEF ToldAreRecorded, AcksGoByTheTable
  <2> QED
    BY <2>2, <2>3
<1>8. ASSUME NEW c \in Client, NEW type \in ClientSends[c], ClientSend(c, type)
      PROVE  UNCHANGED <<serve, leases, toRouter>>
  BY <1>8 DEF ClientSend
<1>9. ASSUME NEW s \in Server, ServerAnswer(s) PROVE UNCHANGED <<serve, leases, toRouter>>
  BY <1>9 DEF ServerAnswer
<1>10. CASE Fatal \/ UNCHANGED vars
  BY <1>1, <1>10 DEF Fatal, vars
<1> QED
  BY <1>1, <1>2, <1>3, <1>4, <1>5, <1>6, <1>7, <1>8, <1>9, <1>10 DEF Next, ServeDHCP, Relay, Dead

(* A client that a relayed ACK told of its lease is in the lease table, and *)
(* nothing but an ACK put one there (proxy_handler.go:185-190): addLease is *)
(* called before the ACK is given back to Serve, and no lease is removed.   *)
THEOREM ToldAreRecordedHolds == Spec => []ToldAreRecorded
<1>1. Init => ToldAreRecorded /\ AcksGoByTheTable
  BY DEF Init, Idle, ToldAreRecorded, AcksGoByTheTable, At
<1> QED
  BY <1>1, InvCorrect, RecordedStep, PTL DEF Spec
=============================================================================
