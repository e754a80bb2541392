---------------------------- MODULE EndpointProofs ----------------------------
(***************************************************************************)
(* For every list of routers, every mix of requests and all parsers whose  *)
(* output reads back as itself: what the endpoint answers and what it      *)
(* stores.                                                                 *)
(***************************************************************************)
EXTENDS Endpoint, TLAPS

(* The first check that fails is one that fails. *)
LEMMA FirstFailedFails ==
  ASSUME NEW q
  PROVE  \/ FirstFailed(q) = 0 /\ \A i \in 1 .. 11 : ~Checks(q)[i].fails
         \/ FirstFailed(q) \in 1 .. 11 /\ Checks(q)[FirstFailed(q)].fails
<1> DEFINE c == Checks(q)
           I == {i \in 1 .. Len(c) : c[i].fails}
<1>1. Len(c) = 11
  BY DEF Checks
<1>2. FirstFailed(q) = IF I # {} THEN Min(I) ELSE 0
  BY DEF FirstFailed, SelectInSeq
<1> HIDE DEF c
<1>3. ASSUME I # {} PROVE Min(I) \in I
  <2>1. \E i \in I : \A j \in I : i <= j
    BY <1>1, <1>3
  <2> QED
    BY <2>1 DEF Min
<1> QED
  BY <1>1, <1>2, <1>3 DEF c

(* A request is accepted that comes from a readable host with the user name *)
(* and password looked up for it, and is well formed.                       *)
LEMMA AcceptedMeans ==
  ASSUME NEW q \in Request
  PROVE  Accepted(q) <=>
           /\ Addressed(q)
           /\ q.credentials # None
           /\ q.credentials = RouterCredentials(q)
           /\ WellFormed(q)
<1>1. Accepted(q) <=> \A i \in 1 .. 11 : ~Checks(q)[i].fails
  <2>1. ASSUME \A i \in 1 .. 11 : ~Checks(q)[i].fails PROVE FirstFailed(q) = 0
    BY <2>1, FirstFailedFails
  <2>2. ASSUME FirstFailed(q) = 0 PROVE \A i \in 1 .. 11 : ~Checks(q)[i].fails
    BY <2>2, FirstFailedFails
  <2> QED
    BY <2>1, <2>2 DEF Accepted
<1> DEFINE fails(i) == Checks(q)[i].fails
<1>2. /\ fails(1) = (~Addressed(q))
      /\ fails(2) = (q.path # "/api/dhcp_assignments")
      /\ fails(3) = (q.credentials = None)
      /\ fails(4) = (q.credentials # RouterCredentials(q))
      /\ fails(5) = (~q.queryParses)
      /\ fails(6) = (q.post /\ ~q.bodyParses)
      /\ fails(7) = (ParseMAC[q.mac] = Invalid)
      /\ fails(8) = (q.ip = "")
      /\ fails(9) = (ParseIP[q.ip] = Invalid)
      /\ fails(10) = (Atoi[q.expired] = Invalid \/ Atoi[q.expired] \notin 0..1)
      /\ fails(11) = (q.remoteID > 246)
  BY DEF Checks
<1>3. (\A i \in 1 .. 11 : ~fails(i)) <=>
        /\ ~fails(1) /\ ~fails(2) /\ ~fails(3) /\ ~fails(4) /\ ~fails(5) /\ ~fails(6)
        /\ ~fails(7) /\ ~fails(8) /\ ~fails(9) /\ ~fails(10) /\ ~fails(11)
  <2>1. \A i \in 1 .. 11 : i \in {1, 2, 3, 4, 5, 6, 7, 8, 9, 10, 11}
    OBVIOUS
  <2> HIDE DEF fails
  <2> QED
    BY <2>1
<1>4. q.remoteID \in Nat
  BY RequestsOK
<1>5. ParseIP[q.ip] # Invalid => q.ip # ""
  BY UndefinedOK
<1>6. ~(q.remoteID > 246) <=> q.remoteID <= 246
  BY <1>4
<1> QED
  BY <1>1, <1>2, <1>3, <1>5, <1>6, Zenon DEF WellFormed

(* The addresses that go into the table. *)
LEMMA AssignedReads ==
  ASSUME NEW q \in Request, Accepted(q)
  PROVE  /\ Key(q) \in DOMAIN ParseMAC /\ ParseMAC[Key(q)] = Key(q)
         /\ Assigned(q).MacAddress = Key(q)
         /\ Assigned(q) \in Assignment
         /\ ParseIP[Assigned(q).IpAddress] = Assigned(q).IpAddress
         /\ Atoi[Assigned(q).Expired] \in 0 .. 1
         /\ Assigned(q).RemoteID <= 246
<1>0. /\ ParseMAC[q.mac] # Invalid /\ ParseIP[q.ip] # Invalid
      /\ Atoi[q.expired] \in 0 .. 1 /\ q.remoteID <= 246
  BY AcceptedMeans DEF WellFormed
<1>1. /\ q.mac \in DOMAIN ParseMAC /\ q.ip \in DOMAIN ParseIP /\ q.expired \in DOMAIN Atoi
      /\ q.remoteID \in Nat
  BY RequestsOK
<1>2. /\ ParseMAC[q.mac] \in DOMAIN ParseMAC /\ Key(q) = ParseMAC[q.mac]
      /\ ParseIP[q.ip] \in DOMAIN ParseIP /\ ParseIP[ParseIP[q.ip]] = ParseIP[q.ip]
  BY <1>0, <1>1, ParsersOK DEF RoundTrips, Key
<1>3. Key(q) \in DOMAIN ParseMAC /\ ParseMAC[Key(q)] = Key(q)
  BY <1>0, <1>1, <1>2, ParsersOK DEF RoundTrips
<1> QED
  BY <1>0, <1>1, <1>2, <1>3 DEF Assigned, Assignment

NoAddress(q) == q.ip = ""

(* Of the statuses, 200 is for an accepted request, and for one that goes   *)
(* without ip_address; what is not on the list is 401 before all else.      *)
LEMMA StatusTells ==
  ASSUME NEW q, Addressed(q)
  PROVE  /\ ~Found(q) => Status(Headers(q)) = 401
         /\ Found(q) /\ Accepted(q) => Status(Headers(q)) = 200
         /\ Found(q) /\ ~Accepted(q) => Status(Headers(q)) \in {400, 401} \/ NoAddress(q)
         /\ Status(Headers(q)) \in {200, 400, 401}
<1> DEFINE s == Checks(q)[FirstFailed(q)].status
           h200 == <<200>>
           h400 == <<400>>
           h401 == <<401>>
           h0 == <<>>
<1>1. /\ Checks(q)[1].status = h400 /\ Checks(q)[2].status = h400 /\ Checks(q)[3].status = h401
      /\ Checks(q)[4].status = h401 /\ Checks(q)[5].status = h400 /\ Checks(q)[6].status = h400
      /\ Checks(q)[7].status = h400 /\ Checks(q)[8].status = h0 /\ Checks(q)[9].status = h400
      /\ Checks(q)[10].status = h400 /\ Checks(q)[11].status = h400
      /\ Checks(q)[8].fails = NoAddress(q)
  BY DEF Checks, NoAddress
<1>0. Status(h200) = 200 /\ Status(h400) = 400 /\ Status(h401) = 401 /\ Status(h0) = 200
  BY DEF Status
<1>2. /\ h200 \in Seq(Int) /\ h400 \in Seq(Int) /\ h401 \in Seq(Int) /\ h0 \in Seq(Int)
      /\ \A x \in Seq(Int) : Status(h401 \o x) = 401 /\ h0 \o x = x
  BY DEF Status
<1>3. Headers(q) = (IF ~Found(q) THEN h401 ELSE h0) \o (IF Accepted(q) THEN h200 ELSE s)
  BY ZenonT(60) DEF Headers
<1> HIDE DEF h200, h400, h401, h0
<1>4. ASSUME ~Accepted(q) PROVE s = h400 \/ s = h401 \/ (s = h0 /\ NoAddress(q))
  <2>1. FirstFailed(q) \in 1 .. 11 /\ Checks(q)[FirstFailed(q)].fails
    BY <1>4, FirstFailedFails DEF Accepted
  <2>2. CASE FirstFailed(q) = 8
    <3>1. NoAddress(q)
      BY <1>1, <2>1, <2>2
    <3> QED
      BY <1>1, <2>2, <3>1
  <2>3. CASE FirstFailed(q) # 8
    <3>1. FirstFailed(q) \in {1, 2, 5, 6, 7, 9, 10, 11} \/ FirstFailed(q) \in {3, 4}
      BY <2>1, <2>3
    <3> HIDE DEF s
    <3>2. ASSUME NEW i \in {1, 2, 5, 6, 7, 9, 10, 11} PROVE Checks(q)[i].status = h400
      BY <1>1
    <3>3. ASSUME NEW i \in {3, 4} PROVE Checks(q)[i].status = h401
      BY <1>1
    <3> QED
      BY <3>1, <3>2, <3>3 DEF s
  <2> QED
    BY <2>2, <2>3
<1> HIDE DEF s
<1>5. (IF Accepted(q) THEN h200 ELSE s) \in Seq(Int)
  BY <1>2, <1>4
<1>6. ~Found(q) => Status(Headers(q)) = 401
  BY <1>2, <1>3, <1>5
<1>7. Found(q) => Headers(q) = IF Accepted(q) THEN h200 ELSE s
  BY <1>2, <1>3, <1>5
<1>8. Found(q) /\ Accepted(q) => Status(Headers(q)) = 200
  BY <1>0, <1>7
<1>9. ASSUME Found(q), ~Accepted(q)
      PROVE  Status(Headers(q)) \in {400, 401} \/ (Status(Headers(q)) = 200 /\ NoAddress(q))
  <2>1. Headers(q) = s
    BY <1>7, <1>9
  <2>2. CASE s = h400
    BY <1>0, <2>1, <2>2
  <2>3. CASE s = h401
    BY <1>0, <2>1, <2>3
  <2>4. CASE s = h0 /\ NoAddress(q)
    <3>1. Headers(q) = h0
      BY <2>1, <2>4
    <3>2. Status(Headers(q)) = 200
      BY <1>0, <3>1
    <3> QED
      BY <2>4, <3>2
  <2> QED
    BY <1>4, <1>9, <2>2, <2>3, <2>4
<1>10. CASE ~Found(q)
  BY <1>6, <1>10
<1>11. CASE Found(q) /\ Accepted(q)
  BY <1>8, <1>11
<1>12. CASE Found(q) /\ ~Accepted(q)
  BY <1>9, <1>12
<1> QED
  BY <1>10, <1>11, <1>12

------------------------------------------------------------------------------
(* What was answered is what its request deserved; an updater has a request *)
(* that passed every check; a slot is named as its device's address prints. *)
Handled ==
  \A r \in RequestId :
    IF request[r] = None THEN updater[r] = "none"
    ELSE /\ answer[r] = IF request[r].uriParses THEN Status(Headers(request[r])) ELSE NoAnswer
         /\ updater[r] # "none" <=> request[r].uriParses /\ Accepted(request[r])

Readable ==
  \A k \in DOMAIN entry :
    /\ ParseMAC[k] = k
    /\ entry[k].MacAddress = k

IndInv == TypeOK /\ Handled /\ Readable /\ TableIsReadable

(* A request that cannot be addressed is 400. *)
LEMMA StatusInRange ==
  ASSUME NEW q
  PROVE  /\ Status(Headers(q)) \in {200, 400, 401}
         /\ ~Addressed(q) => Status(Headers(q)) = 400
<1>1. CASE Addressed(q)
  BY <1>1, StatusTells
<1>2. CASE ~Addressed(q)
  <2>1. Checks(q)[1].fails = ~Addressed(q) /\ Checks(q)[1].status = <<400>>
    BY DEF Checks
  <2>2. FirstFailed(q) = 1
    <3> DEFINE c == Checks(q)
               I == {i \in 1 .. Len(c) : c[i].fails}
    <3>1. FirstFailed(q) = IF I # {} THEN Min(I) ELSE 0
      BY DEF FirstFailed, SelectInSeq
    <3>2. Len(c) = 11
      BY DEF Checks
    <3>3. c[1].fails
      BY <1>2, <2>1
    <3> HIDE DEF c
    <3>4. 1 \in I /\ \A i \in I : 1 <= i
      BY <3>2, <3>3
    <3>5. Min(I) = 1
      BY <3>4, <3>2 DEF Min
    <3> QED
      BY <3>1, <3>4, <3>5
  <2>3. Headers(q) = <<>> \o <<400>>
    BY <1>2, <2>1, <2>2 DEF Headers, Accepted
  <2> QED
    BY <2>3 DEF Status
<1> QED
  BY <1>1, <1>2

LEMMA InvStep == IndInv /\ [Next]_vars => IndInv'
<1> SUFFICES ASSUME IndInv, [Next]_vars PROVE IndInv'
  OBVIOUS
<1>1. ASSUME NEW r \in RequestId, NEW q \in Request, BatchModeEndpointRouter(r, q) PROVE IndInv'
  <2>1. /\ request' = [request EXCEPT ![r] = q]
        /\ answer' = [answer EXCEPT ![r] = Status(Headers(q))]
        /\ updater' = [updater EXCEPT ![r] = IF Accepted(q) THEN "started" ELSE "none"]
        /\ entry' = entry
    BY <1>1 DEF BatchModeEndpointRouter
  <2>2. TypeOK'
    BY <2>1, StatusInRange DEF IndInv, TypeOK
  <2>3. Handled'
    BY <1>1, <2>1, RequestsOK DEF IndInv, TypeOK, Handled, BatchModeEndpointRouter
  <2>4. Readable' /\ TableIsReadable'
    BY <2>1 DEF IndInv, Readable, TableIsReadable
  <2> QED
    BY <2>2, <2>3, <2>4 DEF IndInv
<1>5. ASSUME NEW r \in RequestId, NEW q \in Request, URIPanics(r, q) PROVE IndInv'
  <2>1. /\ request' = [request EXCEPT ![r] = q] /\ ~q.uriParses
        /\ answer' = [answer EXCEPT ![r] = NoAnswer]
        /\ updater' = [updater EXCEPT ![r] = "none"]
        /\ entry' = entry
    BY <1>5 DEF URIPanics
  <2>2. TypeOK'
    BY <2>1 DEF IndInv, TypeOK
  <2>3. Handled'
    BY <2>1, RequestsOK DEF IndInv, TypeOK, Handled
  <2>4. Readable' /\ TableIsReadable'
    BY <2>1 DEF IndInv, Readable, TableIsReadable
  <2> QED
    BY <2>2, <2>3, <2>4 DEF IndInv
<1>2. ASSUME NEW r \in RequestId, UpdateBatchTable(r) PROVE IndInv'
  <2> DEFINE q == request[r]
  <2>1. q \in Request /\ Accepted(q)
    BY <1>2 DEF UpdateBatchTable, IndInv, TypeOK, Handled
  <2>2. /\ UNCHANGED <<request, answer>>
        /\ updater' = [updater EXCEPT ![r] = "through"]
        /\ updater[r] = "started"
        /\ entry' = [k \in DOMAIN entry \cup {Key(q)} |-> IF k = Key(q) THEN Assigned(q) ELSE entry[k]]
    BY <1>2 DEF UpdateBatchTable
  <2> HIDE DEF q
  <2>3. /\ DOMAIN entry' = DOMAIN entry \cup {Key(q)}
        /\ entry'[Key(q)] = Assigned(q)
        /\ \A k \in DOMAIN entry \ {Key(q)} : entry'[k] = entry[k]
    BY <2>2
  <2>4. TypeOK'
    BY <2>1, <2>2, <2>3, AssignedReads DEF IndInv, TypeOK
  <2>5. Handled'
    BY <2>2 DEF IndInv, TypeOK, Handled
  <2>6. Readable'
    BY <2>1, <2>3, AssignedReads DEF IndInv, Readable
  <2>7. TableIsReadable'
    BY <2>1, <2>3, AssignedReads DEF IndInv, TableIsReadable
  <2> QED
    BY <2>4, <2>5, <2>6, <2>7 DEF IndInv
<1>3. CASE Drain
  BY <1>3 DEF Drain, IndInv, TypeOK, Handled, Readable, TableIsReadable
<1>4. CASE UNCHANGED vars
  BY <1>4 DEF vars, IndInv, TypeOK, Handled, Readable, TableIsReadable
<1> QED
  BY <1>1, <1>2, <1>3, <1>4, <1>5 DEF Next

(* The inductive invariant, which names what is behind each answer and slot. *)
THEOREM InvCorrect == Spec => []IndInv
<1>1. Init => IndInv
  BY DEF Init, IndInv, TypeOK, Handled, Readable, TableIsReadable
<1> QED
  BY <1>1, InvStep, PTL DEF Spec

(* The variables keep to their sets, the slots of the table included. *)
THEOREM TypeCorrect == Spec => []TypeOK
  BY InvCorrect, PTL DEF IndInv

(* What an answer a and an updater u tell of a request. *)
Tells(a, u, q) ==
  LET sent == u # "none" IN
  /\ sent => q.uriParses /\ Addressed(q) /\ WellFormed(q)
  /\ a = NoAnswer <=> ~q.uriParses
  /\ q.uriParses /\ ~Addressed(q) => a = 400
  /\ q.uriParses /\ Addressed(q) /\ Found(q) =>
       /\ sent => a = 200
       /\ a = 200 => sent \/ q.ip = ""
  /\ q.uriParses /\ Addressed(q) /\ ~Found(q) =>
       /\ a = 401
       /\ sent <=> q.credentials = ZeroValue /\ WellFormed(q)

(* For any request, of a listed router or not, with an ip_address or not:   *)
(* what the answer says of the report, the unlisted sender with the empty   *)
(* name and password included, whose report is made after its 401           *)
(* (batch_mode.go:36-208).                                                  *)
THEOREM AnswerTellsOutcomeHolds == Spec => []AnswerTellsOutcome
<1>1. ASSUME IndInv, NEW r \in RequestId, request[r] # None
      PROVE  Tells(answer[r], updater[r], request[r])
  <2> DEFINE q == request[r]
             a == answer[r]
             sent == updater[r] # "none"
  <2>1. /\ a = IF q.uriParses THEN Status(Headers(q)) ELSE NoAnswer
        /\ sent <=> q.uriParses /\ Accepted(q)
        /\ q \in Request
    BY <1>1 DEF IndInv, Handled, TypeOK
  <2>2. /\ Status(Headers(q)) \in {200, 400, 401}
        /\ ~Addressed(q) => Status(Headers(q)) = 400
    BY StatusInRange
  <2>3. Addressed(q) =>
          /\ ~Found(q) => Status(Headers(q)) = 401
          /\ Found(q) /\ Accepted(q) => Status(Headers(q)) = 200
          /\ Found(q) /\ ~Accepted(q) => Status(Headers(q)) \in {400, 401} \/ NoAddress(q)
    BY StatusTells
  <2>4. Accepted(q) <=>
          /\ Addressed(q)
          /\ q.credentials # None
          /\ q.credentials = RouterCredentials(q)
          /\ WellFormed(q)
    BY <2>1, AcceptedMeans
  <2>5. ~Found(q) => RouterCredentials(q) = ZeroValue
    BY DEF RouterCredentials
  <2> DEFINE s == Status(Headers(q))
  <2> HIDE DEF q, a, s, sent
  <2>6. sent => q.uriParses /\ Addressed(q) /\ WellFormed(q)
    BY <2>1, <2>4
  <2>7. a = NoAnswer <=> ~q.uriParses
    BY <2>1, <2>2 DEF NoAnswer, s
  <2>8. q.uriParses /\ ~Addressed(q) => a = 400
    BY <2>1, <2>2
  <2>9. q.uriParses /\ Addressed(q) /\ Found(q) => (sent => a = 200) /\ (a = 200 => sent \/ NoAddress(q))
    BY <2>1, <2>3
  <2>10. q.uriParses /\ Addressed(q) /\ ~Found(q) =>
           a = 401 /\ (sent <=> q.credentials = ZeroValue /\ WellFormed(q))
    BY <2>1, <2>3, <2>4, <2>5, CredentialsOK
  <2> QED
    BY <2>6, <2>7, <2>8, <2>9, <2>10 DEF Tells, NoAddress, q, a, sent
<1>2. IndInv => AnswerTellsOutcome
  BY <1>1 DEF AnswerTellsOutcome, Tells
<1> QED
  BY <1>2, InvCorrect, PTL

(* However many routers report a device, and however they spell it, it has  *)
(* one slot.                                                                *)
THEOREM OneSlotPerDeviceHolds == Spec => []OneSlotPerDevice
<1>1. IndInv => OneSlotPerDevice
  BY DEF IndInv, Readable, OneSlotPerDevice
<1> QED
  BY <1>1, InvCorrect, PTL

(* Whatever the routers sent, what the scheduler finds in the table reads.  *)
THEOREM TableIsReadableHolds == Spec => []TableIsReadable
  BY InvCorrect, PTL DEF IndInv
=============================================================================
