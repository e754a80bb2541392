------------------------------ MODULE Endpoint -------------------------------
(***************************************************************************)
(* The batch endpoint: which requests BatchModeEndpointRouter accepts,     *)
(* what it answers, and what its updaters then put into the table.         *)
(*                                                                         *)
(* A handler shares nothing with another before it starts its updater, so  *)
(* it is one step; the updater is a second one, and the scheduler empties  *)
(* the table in between (BatchMode has that in detail).  Texts are told    *)
(* apart as far as the parsers of the Go library tell them apart; of the   *)
(* remote id only the length counts.                                       *)
(***************************************************************************)
EXTENDS Integers, Sequences, SequencesExt

CONSTANTS
  RequestId,     \* as many requests as are handled or remembered at a time
  Request,       \* what a request may look like
  Routers,       \* options.Batch.Routers, a sequence of [ip, credentials]
  ZeroValue,     \* the user name and password of a router that was not found
  ParseMAC,      \* ParseMAC[text]: hostAddr.String(), or Invalid
  ParseIP,       \* ParseIP[text]: hostIP.String(), or Invalid
  Atoi,          \* Atoi[text]: an integer, or Invalid
  Invalid,       \* a parser's error
  None           \* no request yet; no credentials with a request

(* What String() prints is read back as the same address. *)
RoundTrips(parse) == \A text \in DOMAIN parse :
  parse[text] # Invalid => parse[text] \in DOMAIN parse /\ parse[parse[text]] = parse[text]

ASSUME ParsersOK == RoundTrips(ParseMAC) /\ RoundTrips(ParseIP)
ASSUME RequestsOK == None \notin Request /\ \A q \in Request :
  q.mac \in DOMAIN ParseMAC /\ q.ip \in DOMAIN ParseIP /\ q.expired \in DOMAIN Atoi /\ q.remoteID \in Nat
ASSUME CredentialsOK == ZeroValue # None
ASSUME UndefinedOK == ParseMAC[""] = Invalid /\ ParseIP[""] = Invalid /\ Atoi[""] = Invalid

VARIABLES
  request, \* request[r]: the last request handled as r
  answer,  \* answer[r]: the status its router got, or NoAnswer
  updater, \* updater[r]: none, before it writes the table, or through
  entry    \* batchTable.entry

vars == <<request, answer, updater, entry>>

Assignment == [Expired : DOMAIN Atoi, IpAddress : DOMAIN ParseIP,
               MacAddress : DOMAIN ParseMAC, RemoteID : Nat]

NoAnswer == 0

TypeOK ==
  /\ request \in [RequestId -> Request \cup {None}]
  /\ answer \in [RequestId -> {NoAnswer, 200, 400, 401}]
  /\ updater \in [RequestId -> {"none", "started", "through"}]
  /\ DOMAIN entry \subseteq DOMAIN ParseMAC
  /\ \A k \in DOMAIN entry : entry[k] \in Assignment

Init ==
  /\ request = [r \in RequestId |-> None]
  /\ answer = [r \in RequestId |-> NoAnswer]
  /\ updater = [r \in RequestId |-> "none"]
  /\ entry = <<>>

------------------------------------------------------------------------------
(* The first router of the list with the request's address. *)
Position(q) == SelectInSeq(Routers, LAMBDA v : v.ip = q.host)
Found(q) == Position(q) # 0
RouterCredentials(q) == IF Found(q) THEN Routers[Position(q)].credentials ELSE ZeroValue

(* The host of r.RemoteAddr is an address: read before the router is looked *)
(* up.                                                                      *)
Addressed(q) == q.host # Invalid

(* A bug: an expiry of 2 or more gets through.                              *)
ChecksSkipUpperBound(q) == <<
  [fails |-> ~Addressed(q), status |-> <<400>>],
  [fails |-> q.path # "/api/dhcp_assignments", status |-> <<400>>],
  [fails |-> q.credentials = None, status |-> <<401>>],
  [fails |-> q.credentials # RouterCredentials(q), status |-> <<401>>],
  [fails |-> ~q.queryParses, status |-> <<400>>],
  [fails |-> q.post /\ ~q.bodyParses, status |-> <<400>>],
  [fails |-> ParseMAC[q.mac] = Invalid, status |-> <<400>>],
  [fails |-> q.ip = "", status |-> <<>>],
  [fails |-> ParseIP[q.ip] = Invalid, status |-> <<400>>],
  [fails |-> Atoi[q.expired] = Invalid \/ Atoi[q.expired] < 0, status |-> <<400>>],
  [fails |-> q.remoteID > 246, status |-> <<400>>] >>

(* The checks in the order of the code, and the status each of them writes  *)
(* before it returns; a request without ip_address is let go without one.   *)
Checks(q) == <<
  [fails |-> ~Addressed(q), status |-> <<400>>],
  [fails |-> q.path # "/api/dhcp_assignments", status |-> <<400>>],
  [fails |-> q.credentials = None, status |-> <<401>>],
  [fails |-> q.credentials # RouterCredentials(q), status |-> <<401>>],
  [fails |-> ~q.queryParses, status |-> <<400>>],
  [fails |-> q.post /\ ~q.bodyParses, status |-> <<400>>],
  [fails |-> ParseMAC[q.mac] = Invalid, status |-> <<400>>],
  [fails |-> q.ip = "", status |-> <<>>],
  [fails |-> ParseIP[q.ip] = Invalid, status |-> <<400>>],
  [fails |-> Atoi[q.expired] = Invalid \/ Atoi[q.expired] \notin 0..1, status |-> <<400>>],
  [fails |-> q.remoteID > 246, status |-> <<400>>] >>

FirstFailed(q) == SelectInSeq(Checks(q), LAMBDA check : check.fails)
Accepted(q) == FirstFailed(q) = 0

(* The WriteHeader calls of one request.  An address that is not in the     *)
(* list of routers is answered, and the checks go on.                       *)
Headers(q) ==
  (IF Addressed(q) /\ ~Found(q) THEN <<401>> ELSE <<>>)
    \o (IF Accepted(q) THEN <<200>> ELSE Checks(q)[FirstFailed(q)].status)

(* A bug: the last status stands.                                           *)
StatusIsTheLast(headers) == IF headers = <<>> THEN 200 ELSE headers[Len(headers)]

(* net/http sends the first status that is written, and 200 without one. *)
Status(headers) == IF headers = <<>> THEN 200 ELSE headers[1]

BatchModeEndpointRouter(r, q) ==
  /\ updater[r] # "started"
  /\ q.uriParses
  /\ request' = [request EXCEPT ![r] = q]
  /\ answer' = [answer EXCEPT ![r] = Status(Headers(q))]
  /\ updater' = [updater EXCEPT ![r] = IF Accepted(q) THEN "started" ELSE "none"]
  /\ UNCHANGED entry

(* url.Parse returns no URL with its error, and the log wants its RawQuery: *)
(* the handler panics before it writes a status, and net/http closes the    *)
(* connection.                                                              *)
URIPanics(r, q) ==
  /\ updater[r] # "started"
  /\ ~q.uriParses
  /\ request' = [request EXCEPT ![r] = q]
  /\ answer' = [answer EXCEPT ![r] = NoAnswer]
  /\ updater' = [updater EXCEPT ![r] = "none"]
  /\ UNCHANGED entry

(* A bug: the slot is named as the router spells the address.               *)
KeyAsSpelled(q) == q.mac

(* hostAddr.String(), of an address that was parsed, printed and parsed *)
Key(q) == ParseMAC[ParseMAC[q.mac]]

(* A bug: the address of the lease goes into the field of the device.       *)
AssignedSwapped(q) ==
  [Expired |-> q.expired, IpAddress |-> Key(q),
   MacAddress |-> ParseIP[q.ip], RemoteID |-> q.remoteID]

(* The addresses are printed anew; the expiry is the router's own text. *)
Assigned(q) ==
  [Expired |-> q.expired, IpAddress |-> ParseIP[ParseIP[q.ip]],
   MacAddress |-> Key(q), RemoteID |-> q.remoteID]

UpdateBatchTable(r) ==
  /\ updater[r] = "started"
  /\ entry' = [k \in DOMAIN entry \cup {Key(request[r])} |->
                  IF k = Key(request[r]) THEN Assigned(request[r]) ELSE entry[k]]
  /\ updater' = [updater EXCEPT ![r] = "through"]
  /\ UNCHANGED <<request, answer>>

(* The scheduler takes the table, all of it under the mutex. *)
Drain ==
  /\ DOMAIN entry # {}
  /\ entry' = <<>>
  /\ UNCHANGED <<request, answer, updater>>

Next ==
  \/ \E r \in RequestId, q \in Request : BatchModeEndpointRouter(r, q) \/ URIPanics(r, q)
  \/ \E r \in RequestId : UpdateBatchTable(r)
  \/ Drain

Spec == Init /\ [][Next]_vars

------------------------------------------------------------------------------
(* All that a report needs besides a router's name and password. *)
WellFormed(q) ==
  /\ q.path = "/api/dhcp_assignments"
  /\ q.queryParses
  /\ q.post => q.bodyParses
  /\ ParseMAC[q.mac] # Invalid
  /\ ParseIP[q.ip] # Invalid
  /\ Atoi[q.expired] # Invalid /\ Atoi[q.expired] \in 0..1
  /\ q.remoteID <= 246

(* What becomes of a report, and what its sender is told.  A listed router  *)
(* is told 200 of every report that is on its way and, where it gave an     *)
(* ip_address, of no other.  Whoever is not listed is told 401; but its     *)
(* report is on its way if its user name and password are the empty ones.   *)
(* And of a host or URI that cannot be read no report is made.              *)
AnswerTellsOutcome ==
  \A r \in RequestId : request[r] # None =>
    LET q == request[r]
        sent == updater[r] # "none"
    IN
    /\ sent => q.uriParses /\ Addressed(q) /\ WellFormed(q)
    /\ answer[r] = NoAnswer <=> ~q.uriParses
    /\ q.uriParses /\ ~Addressed(q) => answer[r] = 400
    /\ q.uriParses /\ Addressed(q) /\ Found(q) =>
         /\ sent => answer[r] = 200
         /\ answer[r] = 200 => sent \/ q.ip = ""
    /\ q.uriParses /\ Addressed(q) /\ ~Found(q) =>
         /\ answer[r] = 401
         /\ sent <=> q.credentials = ZeroValue /\ WellFormed(q)

(* A device has one slot in the table however its routers spell its         *)
(* address, and no batch made of the table names it twice.                  *)
OneSlotPerDevice ==
  \A j, k \in DOMAIN entry :
    ParseMAC[entry[j].MacAddress] = ParseMAC[entry[k].MacAddress] => j = k

(* What the table holds for Sonar can be read: an address, an expiry of the *)
(* value 0 or 1, and a remote id that fits, after any mix of requests.      *)
TableIsReadable ==
  \A k \in DOMAIN entry :
    /\ ParseIP[entry[k].IpAddress] = entry[k].IpAddress
    /\ Atoi[entry[k].Expired] \in 0..1
    /\ entry[k].RemoteID <= 246

(* "this allows you to secure the endpoint with basic auth so that only     *)
(* authorized routers can create batch entries" (README.md:102): not so for *)
(* an address that is not listed and sends an empty name and password.      *)
OnlyListedRoutersReport ==
  \A r \in RequestId : updater[r] # "none" => Found(request[r])
=============================================================================
