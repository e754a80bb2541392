----------------------------- MODULE MCEndpoint ------------------------------
(* A good GET and all that differ from it in one field, and requests that   *)
(* are posted or come from an address not in the list.                      *)
EXTENDS Endpoint

MCRouters == << [ip |-> "router", credentials |-> "secret"],
                [ip |-> "router", credentials |-> "never looked at"] >>

MCParseMAC == [text \in {"", "aa", "AA", "bb", "junk"} |->
  IF text \in {"aa", "AA"} THEN "aa" ELSE IF text = "bb" THEN "bb" ELSE Invalid]
MCParseIP == [text \in {"", "ip", "IP", "junk"} |->
  IF text \in {"ip", "IP"} THEN "ip" ELSE Invalid]
MCAtoi == [text \in {"", "0", "1", "01", "2", "-1", "x"} |->
  CASE text = "0" -> 0 [] text \in {"1", "01"} -> 1 [] text = "2" -> 2
    [] text = "-1" -> -1 [] OTHER -> Invalid]

Good == [uriParses |-> TRUE, host |-> "router", path |-> "/api/dhcp_assignments",
         credentials |-> "secret", queryParses |-> TRUE, post |-> FALSE, bodyParses |-> TRUE,
         mac |-> "aa", ip |-> "ip", expired |-> "0", remoteID |-> 0]
Post == [Good EXCEPT !.post = TRUE]
Unlisted == [Good EXCEPT !.host = "unlisted", !.credentials = ZeroValue]

MCRequest ==
  {[Good EXCEPT !.uriParses = FALSE], [Good EXCEPT !.host = Invalid], [Good EXCEPT !.path = "/"],
   [Good EXCEPT !.queryParses = FALSE], [Good EXCEPT !.remoteID = 246],
   [Good EXCEPT !.remoteID = 247], Post, [Post EXCEPT !.bodyParses = FALSE], [Post EXCEPT !.ip = ""],
   [Unlisted EXCEPT !.path = "/"], [Unlisted EXCEPT !.ip = ""], [Unlisted EXCEPT !.expired = "2"]}
  \cup {[q EXCEPT !.credentials = x] :
          q \in {Good, Unlisted}, x \in {"secret", "never looked at", ZeroValue, None}}
  \cup {[Good EXCEPT !.mac = x] : x \in DOMAIN MCParseMAC}
  \cup {[Good EXCEPT !.ip = x] : x \in DOMAIN MCParseIP}
  \cup {[Good EXCEPT !.expired = x] : x \in DOMAIN MCAtoi}
=============================================================================
