------------------------------ MODULE BatchOrder ------------------------------
(***************************************************************************)
(* Batch mode with memory: what the routers were told, in which order the  *)
(* table was written, and what Sonar was told last about each client.      *)
(*                                                                         *)
(* The handler answers before the table is written, every report is stored *)
(* by a goroutine of its own, and every batch is posted by another.  None  *)
(* of the three waits for its predecessor, so this is where a stale        *)
(* address can win.  The module adds history only: BatchMode's steps are   *)
(* those of BatchMode.                                                     *)
(***************************************************************************)
EXTENDS BatchMode, Sequences

VARIABLES
  answered, \* answered[m]: the last report about m that a router got 200 for
  stores,   \* the reports in the order in which they entered the table
  sonar,    \* sonar[m]: the last report about m that reached Sonar
  excused   \* clients whose order the code leaves open, see Unordered

orderVars == <<vars, answered, stores, sonar, excused>>

OrderInit ==
  /\ Init
  /\ answered = [m \in MAC |-> None]
  /\ stores = <<>>
  /\ sonar = [m \in MAC |-> None]
  /\ excused = {}

About(S, m) == {r \in S : MacOf[r] = m}
Posting(m) == {n \in DOMAIN sends : sends[n].state = "running" /\ About(Reports(n), m) # {}}
Pending(m) == {r \in About(Report, m) : updater[r] \in {"spawned", "locked"}}

(* The three ways in which Sonar may keep an old address: two updaters of   *)
(* one client at a time, two posts with the same client at a time, a post   *)
(* that failed.                                                             *)
Unordered(m) ==
  \/ \E q, r \in Pending(m) : q # r
  \/ \E i, j \in Posting(m) : i # j
  \/ About(InBatch({"failed", "discarded"}), m) # {}

Excuse == excused' = excused \cup {m \in MAC : Unordered(m)'}

Answer(r) ==
  /\ BatchModeEndpointRouter(r)
  /\ answered' = [answered EXCEPT ![MacOf[r]] = r]
  /\ UNCHANGED <<stores, sonar>>

Store(r) ==
  /\ UpdaterStore(r)
  /\ stores' = Append(stores, r)
  /\ UNCHANGED <<answered, sonar>>

(* Sonar keeps the assignments of the last request it handles. *)
SonarTakes(S) ==
  sonar' = [m \in MAC |-> IF About(S, m) = {} THEN sonar[m] ELSE CHOOSE r \in About(S, m) : TRUE]

(* A request whose answer is lost may have reached Sonar all the same. *)
Post(n) ==
  /\ SendBatch(n)
  /\ \/ SonarTakes(Reports(n))
     \/ sends'[n].state # "posted" /\ UNCHANGED sonar
  /\ UNCHANGED <<answered, stores>>

Unrecorded ==
  /\ \/ \E r \in Report : UpdaterLock(r) \/ UpdaterUnlock(r)
     \/ Tick
     \/ RunScheduler
     \/ \E n \in DOMAIN sends : SendPanics(n)
     \/ Interrupt
     \/ SchedulerExit
     \/ Exit
  /\ UNCHANGED <<answered, stores, sonar>>

OrderNext ==
  \/ /\ ~Over
     /\ UNCHANGED nameMakesURL
     /\ \/ \E r \in Report : Answer(r) \/ Store(r)
        \/ \E n \in DOMAIN sends : Post(n)
        \/ Unrecorded
     /\ Excuse
  \/ Exited /\ UNCHANGED <<answered, stores, sonar, excused>>

OrderSpec == OrderInit /\ [][OrderNext]_orderVars

(* The history depends on nothing, so BatchMode's fairness is still the     *)
(* run time's and the shutdown's.                                           *)
FairOrderSpec == OrderSpec /\ Fairness

------------------------------------------------------------------------------
(* Batches keep the order of the table: of two reports of one client, the   *)
(* one stored first is in an earlier batch, never in the same one and never *)
(* in a later one.                                                          *)
StoredBefore(q, r) ==
  \E i, j \in DOMAIN stores : i < j /\ stores[i] = q /\ stores[j] = r

BatchesFollowTheTable ==
  \A i, j \in DOMAIN sends :
    \A q \in Reports(i), r \in Reports(j) :
      MacOf[q] = MacOf[r] /\ StoredBefore(q, r) => i < j

(* When nothing about a client is on its way any more, Sonar has the report *)
(* the client's router was last answered 200 for, unless the code itself    *)
(* gave the order away.                                                     *)
Settled(m) ==
  /\ Pending(m) = {}
  /\ entry[m] = None
  /\ About(t, m) = {}
  /\ Posting(m) = {}

SonarUpToDate == \A m \in MAC \ excused : Settled(m) => sonar[m] = answered[m]
=============================================================================
