---------------------------- MODULE ReportLedger ----------------------------
(***************************************************************************)
(* What the batcher promises about each lease report a router hands it,    *)
(* with no goroutine, mutex or channel in sight.                           *)
(*                                                                         *)
(* An acknowledged report is staged for the next batch; staging a report   *)
(* supersedes the staged report of the same client, if any.  A batch takes *)
(* every staged report at once, and no report twice.  A dispatched batch   *)
(* either reaches Sonar or is lost: nothing is sent again.  Acknowledged   *)
(* and staged reports may stay so forever, when the process stops.         *)
(***************************************************************************)

CONSTANTS
  Report,  \* the lease reports, one identity per HTTP request
  MacOf    \* MacOf[r] is the client hardware address report r is about

VARIABLE status  \* status[r]: how far report r has come

Statuses == {"unseen", "acked", "staged", "superseded", "dispatched", "posted", "lost"}

Init == status = [r \in Report |-> "unseen"]

WithStatus(s) == {r \in Report : status[r] = s}

SameClient(q, r) == MacOf[q] = MacOf[r]

(* The router gets its 200 before the report is in the table. *)
Acknowledge(r) ==
  /\ status[r] = "unseen"
  /\ status' = [status EXCEPT ![r] = "acked"]

(* The report takes the place of the client's staged one. *)
Stage(r) ==
  /\ status[r] = "acked"
  /\ status' = [q \in Report |->
                  IF q = r THEN "staged"
                  ELSE IF status[q] = "staged" /\ SameClient(q, r) THEN "superseded"
                  ELSE status[q]]

(* Everything staged goes into one batch; there is no empty batch. *)
Dispatch ==
  /\ WithStatus("staged") # {}
  /\ status' = [r \in Report |->
                  IF status[r] = "staged" THEN "dispatched" ELSE status[r]]

(* The reports of a batch settle together, for good. *)
Settle(batch, outcome) ==
  /\ batch # {}
  /\ batch \subseteq WithStatus("dispatched")
  /\ status' = [r \in Report |-> IF r \in batch THEN outcome ELSE status[r]]

Next ==
  \/ \E r \in Report : Acknowledge(r) \/ Stage(r)
  \/ Dispatch
  \/ \E batch \in SUBSET Report, outcome \in {"posted", "lost"} : Settle(batch, outcome)

Spec == Init /\ [][Next]_status
=============================================================================
