--------------------------- MODULE BatchOrderProofs ---------------------------
(***************************************************************************)
(* For any number of reports and clients: batches keep the order in which  *)
(* the table was written, and Sonar ends up with the report a router was   *)
(* last answered 200 for unless the code gave the order away.  The         *)
(* invariant of BatchMode is used as it is: its steps are the steps here   *)
(* without the history.                                                    *)
(***************************************************************************)
EXTENDS BatchOrder, BatchModeProofs

(* A step with history is a step of BatchMode. *)
LEMMA StepIsBatchStep == [OrderNext]_orderVars => [Next]_vars
<1> SUFFICES ASSUME [OrderNext]_orderVars PROVE [Next]_vars
  OBVIOUS
<1>1. CASE UNCHANGED orderVars
  BY <1>1 DEF orderVars
<1>2. CASE Exited
  BY <1>2 DEF Next
<1>3. ASSUME ~Over, UNCHANGED nameMakesURL, NEW r \in Report, Answer(r) \/ Store(r) PROVE Next
  BY <1>3 DEF Answer, Store, Next, Running, UpdateBatchTable
<1>4. ASSUME ~Over, UNCHANGED nameMakesURL, NEW n \in DOMAIN sends, Post(n) PROVE Next
  BY <1>4 DEF Post, Next, Running
<1>5. ASSUME ~Over, UNCHANGED nameMakesURL, Unrecorded PROVE Next
  BY <1>5 DEF Unrecorded, Next, Running, UpdateBatchTable
<1> QED
  BY <1>1, <1>2, <1>3, <1>4, <1>5 DEF OrderNext

(* What holds of BatchMode holds with history: the endpoint, the updaters,  *)
(* the scheduler and the posts take the same steps.                         *)
THEOREM BatchModeHolds == OrderSpec => []IndInv
<1>1. OrderInit => Init
  BY DEF OrderInit
<1>2. OrderSpec => Spec
  BY <1>1, StepIsBatchStep, PTL DEF OrderSpec, Spec
<1> QED
  BY <1>2, InvCorrect, PTL

------------------------------------------------------------------------------
(* A report is stored once.  The one in a slot is the last one stored about *)
(* its client, and nothing stored after a report that is taken is sent yet. *)
LastInSlot ==
  \A m \in MAC : entry[m] # None =>
    \A r \in Report : MacOf[r] = m => ~StoredBefore(entry[m], r)

TakenBeforeSent ==
  \A q \in t : \A r \in Report : MacOf[q] = MacOf[r] /\ StoredBefore(q, r) => ~Sent(r)

StoredOnce ==
  /\ stores \in Seq(Report)
  /\ \A i \in DOMAIN stores : updater[stores[i]] \in {"stored", "done"}
  /\ \A i, j \in DOMAIN stores : stores[i] = stores[j] => i = j

OrderInv == StoredOnce /\ LastInSlot /\ TakenBeforeSent /\ BatchesFollowTheTable

(* What a store adds to the order of the stores. *)
LEMMA StoredBeforeAppend ==
  ASSUME NEW r \in Report, stores \in Seq(Report), stores' = Append(stores, r),
         NEW p, NEW q, StoredBefore(p, q)'
  PROVE  StoredBefore(p, q) \/ (q = r /\ \E i \in DOMAIN stores : stores[i] = p)
  BY DEF StoredBefore

(* A step that stores nothing, takes nothing and hands over nothing.        *)
LEMMA QuietStep ==
  ASSUME OrderInv, UNCHANGED <<stores, entry, t>>,
         \A r \in Report : updater[r] \in {"stored", "done"} => updater'[r] \in {"stored", "done"},
         DOMAIN sends' = DOMAIN sends,
         \A n \in DOMAIN sends : sends'[n].items = sends[n].items
  PROVE  OrderInv'
<1>1. \A p, q : StoredBefore(p, q)' <=> StoredBefore(p, q)
  BY DEF StoredBefore
<1>2. \A r : Sent(r)' <=> Sent(r)
  BY DEF Sent, Reports
<1>3. StoredOnce'
  BY DEF OrderInv, StoredOnce
<1>4. LastInSlot'
  BY <1>1 DEF OrderInv, LastInSlot
<1>5. TakenBeforeSent'
  BY <1>1, <1>2 DEF OrderInv, TakenBeforeSent
<1>6. BatchesFollowTheTable'
  BY <1>1 DEF OrderInv, BatchesFollowTheTable, Reports
<1> QED
  BY <1>3, <1>4, <1>5, <1>6 DEF OrderInv

LEMMA StoreKeepsOrder ==
  ASSUME IndInv, OrderInv, NEW r \in Report, Store(r) PROVE OrderInv'
<1> USE DEF IndInv, TypeOK
<1>1. /\ updater[r] = "locked"
      /\ updater' = [updater EXCEPT ![r] = "stored"]
      /\ entry' = [entry EXCEPT ![MacOf[r]] = r]
      /\ stores' = Append(stores, r)
      /\ UNCHANGED <<t, sends>>
  BY DEF Store, UpdaterStore, schedulerVars
<1>2. stores \in Seq(Report) /\ \A i \in DOMAIN stores : stores[i] # r
  BY <1>1 DEF OrderInv, StoredOnce
<1>3. ~Sent(r)
  BY <1>1 DEF Phases
<1>4. \A p, q : StoredBefore(p, q)' => StoredBefore(p, q) \/ (q = r /\ p # r)
  BY <1>1, <1>2, StoredBeforeAppend
<1>5. StoredOnce'
  BY <1>1, <1>2 DEF OrderInv, StoredOnce
<1>6. LastInSlot'
  <2>1. ASSUME NEW m \in MAC, NEW p, NEW q \in Report, p = entry'[m], p # None, MacOf[q] = m,
               StoredBefore(p, q)'
        PROVE  FALSE
    <3>1. CASE m = MacOf[r]
      <4>1. p = r
        BY <1>1, <2>1, <3>1, MacOfType
      <4>2. StoredBefore(r, q)
        BY <1>4, <2>1, <4>1
      <4> QED
        BY <1>2, <4>2 DEF StoredBefore
    <3>2. CASE m # MacOf[r]
      <4>1. p = entry[m]
        BY <1>1, <2>1, <3>2
      <4>2. StoredBefore(p, q)
        BY <1>4, <2>1, <3>2
      <4> QED
        BY <2>1, <4>1, <4>2 DEF OrderInv, LastInSlot, StoredBefore
    <3> QED
      BY <3>1, <3>2
  <2> QED
    BY <2>1 DEF LastInSlot, StoredBefore
<1>7. TakenBeforeSent'
  BY <1>1, <1>3, <1>4 DEF OrderInv, TakenBeforeSent, Sent, Reports
<1>8. BatchesFollowTheTable'
  BY <1>1, <1>3, <1>4 DEF OrderInv, BatchesFollowTheTable, Sent, Reports
<1> QED
  BY <1>5, <1>6, <1>7, <1>8 DEF OrderInv

LEMMA TakeKeepsOrder ==
  ASSUME IndInv, OrderInv, UNCHANGED stores, NEW m \in MAC, SchedulerTake(m) PROVE OrderInv'
<1> USE DEF IndInv, TypeOK
<1>1. /\ entry[m] # None
      /\ t' = t \cup {entry[m]}
      /\ entry' = [entry EXCEPT ![m] = None]
      /\ UNCHANGED <<updater, sends>>
  BY DEF SchedulerTake
<1>2. \A p, q : StoredBefore(p, q)' <=> StoredBefore(p, q)
  BY DEF StoredBefore
<1>3. StoredOnce'
  BY <1>1 DEF OrderInv, StoredOnce
<1>4. LastInSlot'
  BY <1>1, <1>2 DEF OrderInv, LastInSlot
<1>5. TakenBeforeSent'
  <2>1. MacOf[entry[m]] = m
    BY <1>1 DEF Phases
  <2>2. \A r \in Report : MacOf[entry[m]] = MacOf[r] => ~StoredBefore(entry[m], r)
    BY <1>1, <2>1 DEF OrderInv, LastInSlot
  <2> QED
    BY <1>1, <1>2, <2>2 DEF OrderInv, TakenBeforeSent, Sent, Reports
<1>6. BatchesFollowTheTable'
  BY <1>1, <1>2 DEF OrderInv, BatchesFollowTheTable, Reports
<1> QED
  BY <1>3, <1>4, <1>5, <1>6 DEF OrderInv

LEMMA ResetKeepsOrder ==
  ASSUME OrderInv, UNCHANGED stores, SchedulerReset PROVE OrderInv'
<1>1. entry' = [m \in MAC |-> None] /\ UNCHANGED <<updater, t, sends>>
  BY DEF SchedulerReset
<1>2. \A p, q : StoredBefore(p, q)' <=> StoredBefore(p, q)
  BY DEF StoredBefore
<1>3. StoredOnce' /\ LastInSlot'
  BY <1>1 DEF OrderInv, StoredOnce, LastInSlot
<1>4. TakenBeforeSent' /\ BatchesFollowTheTable'
  BY <1>1, <1>2 DEF OrderInv, TakenBeforeSent, BatchesFollowTheTable, Sent, Reports
<1> QED
  BY <1>3, <1>4 DEF OrderInv

LEMMA DispatchKeepsOrder ==
  ASSUME IndInv, OrderInv, UNCHANGED stores, SchedulerDispatch PROVE OrderInv'
<1> USE DEF IndInv, TypeOK
<1>1. /\ t' = {}
      /\ UNCHANGED <<updater, entry>>
      /\ DOMAIN sends' = DOMAIN sends \cup {currentID}
      /\ currentID \notin DOMAIN sends
      /\ sends'[currentID].items = t
      /\ \A n \in DOMAIN sends : sends'[n].items = sends[n].items /\ n < currentID
  BY DEF SchedulerDispatch, updaterVars
<1>2. \A p, q : StoredBefore(p, q)' <=> StoredBefore(p, q)
  BY DEF StoredBefore
<1>3. StoredOnce' /\ LastInSlot'
  BY <1>1, <1>2 DEF OrderInv, StoredOnce, LastInSlot
<1>4. TakenBeforeSent'
  BY <1>1 DEF TakenBeforeSent
<1>5. BatchesFollowTheTable'
  <2> SUFFICES ASSUME NEW i \in DOMAIN sends', NEW j \in DOMAIN sends',
                      NEW p \in sends'[i].items, NEW q \in sends'[j].items,
                      MacOf[p] = MacOf[q], StoredBefore(p, q)
               PROVE  i < j
    BY <1>2 DEF BatchesFollowTheTable, Reports
  <2>1. CASE i # currentID /\ j # currentID
    BY <1>1, <2>1 DEF OrderInv, BatchesFollowTheTable, Reports
  <2>2. CASE i # currentID /\ j = currentID
    BY <1>1, <2>2
  <2>3. CASE i = currentID /\ j # currentID
    <3>1. p \in t /\ Sent(q)
      BY <1>1, <2>3 DEF Sent, Reports
    <3>2. q \in Report
      BY <1>1, <2>3 DEF Batch
    <3> QED
      BY <3>1, <3>2 DEF OrderInv, TakenBeforeSent
  <2>4. CASE i = currentID /\ j = currentID
    <3>1. p = q
      BY <1>1, <2>4 DEF UnambiguousBatches, OneOfEachClient
    <3> QED
      BY <3>1 DEF OrderInv, StoredOnce, StoredBefore
  <2> QED
    BY <2>1, <2>2, <2>3, <2>4
<1> QED
  BY <1>3, <1>4, <1>5 DEF OrderInv

LEMMA OrderStep == IndInv /\ OrderInv /\ [OrderNext]_orderVars => OrderInv'
<1> SUFFICES ASSUME IndInv, OrderInv, [OrderNext]_orderVars PROVE OrderInv'
  OBVIOUS
<1> USE DEF IndInv, TypeOK, updaterVars, schedulerVars
<1>1. CASE UNCHANGED <<updater, entry, t, sends, stores>>
  BY <1>1, QuietStep
<1>2. ASSUME NEW r \in Report, UNCHANGED stores,
             BatchModeEndpointRouter(r) \/ UpdaterLock(r) \/ UpdaterUnlock(r)
      PROVE  OrderInv'
  <2>1. /\ UNCHANGED <<entry, t, sends>>
        /\ \E pc \in UpdaterPC : updater' = [updater EXCEPT ![r] = pc]
        /\ updater[r] \in {"stored", "done"} => updater'[r] \in {"stored", "done"}
    BY <1>2 DEF BatchModeEndpointRouter, UpdaterLock, UpdaterUnlock, UpdaterPC
  <2>2. \A q \in Report : updater[q] \in {"stored", "done"} => updater'[q] \in {"stored", "done"}
    BY <2>1
  <2> QED
    BY <1>2, <2>1, <2>2, QuietStep
<1>3. ASSUME NEW r \in Report, Answer(r) \/ Store(r) PROVE OrderInv'
  BY <1>2, <1>3, StoreKeepsOrder DEF Answer
<1>4. ASSUME NEW n \in DOMAIN sends, Post(n) PROVE OrderInv'
  <2>1. UNCHANGED <<updater, entry, t, stores>>
    BY <1>4 DEF Post, SendBatch
  <2>2. PICK outcome \in SendOutcome : sends' = [sends EXCEPT ![n].state = outcome]
    BY <1>4 DEF Post, SendBatch
  <2>3. DOMAIN sends' = DOMAIN sends /\ \A k \in DOMAIN sends : sends'[k].items = sends[k].items
    BY <2>2 DEF Batch
  <2> QED
    BY <2>1, <2>3, QuietStep
<1>5. ASSUME UNCHANGED stores, RunScheduler PROVE OrderInv'
  <2>1. CASE SchedulerTick \/ SchedulerCount \/ SchedulerLock \/ SchedulerRangeEnd \/ SchedulerUnlock
    BY <1>1, <1>5, <2>1 DEF SchedulerTick, SchedulerCount, SchedulerLock, SchedulerRangeEnd, SchedulerUnlock
  <2> QED
    BY <1>5, <2>1, TakeKeepsOrder, ResetKeepsOrder, DispatchKeepsOrder DEF RunScheduler
<1>6. CASE Unrecorded
  <2>1. CASE Tick \/ Interrupt \/ SchedulerExit \/ Exit \/ \E n \in DOMAIN sends : SendPanics(n)
    BY <1>1, <1>6, <2>1 DEF Tick, Interrupt, SchedulerExit, Exit, SendPanics, Unrecorded
  <2> QED
    BY <1>2, <1>5, <1>6, <2>1 DEF Unrecorded
<1>7. CASE UNCHANGED orderVars \/ (Exited /\ UNCHANGED <<answered, stores, sonar, excused>>)
  BY <1>1, <1>7 DEF orderVars, Exited, vars
<1> QED
  BY <1>3, <1>4, <1>6, <1>7 DEF OrderNext

(* Of two reports of one client, the one that entered the table first is in *)
(* an earlier batch, however updaters, drains and posts interleave.         *)
THEOREM BatchesFollowTheTableHolds == OrderSpec => []BatchesFollowTheTable
<1>1. OrderInit => OrderInv
  BY DEF OrderInit, Init, OrderInv, StoredOnce, LastInSlot, TakenBeforeSent, BatchesFollowTheTable, Sent
<1>2. OrderInv => BatchesFollowTheTable
  BY DEF OrderInv
<1> QED
  BY <1>1, <1>2, OrderStep, BatchModeHolds, PTL DEF OrderSpec

------------------------------------------------------------------------------
(* Where the report is that the router of client m was last answered 200    *)
(* for: with its updater, in the slot, in the slice, in the one batch with  *)
(* this client that is being posted, or with Sonar.  Older reports may be   *)
(* further on the same way, none is beside it.                              *)
OnItsWay(m) ==
  LET a == answered[m] IN
  \/ a = None /\ sonar[m] = None /\ \A r \in About(Report, m) : updater[r] = "none"
  \/ /\ a \in About(Report, m)
     /\ Pending(m) \subseteq {a}
     /\ \/ a \in Pending(m)
        \/ Pending(m) = {} /\ entry[m] = a
        \/ Pending(m) = {} /\ entry[m] = None /\ a \in t
        \/ /\ Pending(m) = {} /\ entry[m] = None /\ About(t, m) = {}
           /\ \/ \E n \in Posting(m) : a \in Reports(n)
              \/ Posting(m) = {} /\ sonar[m] = a

FreshInv ==
  /\ answered \in [MAC -> Report \cup {None}]
  /\ \A m \in MAC : Unordered(m) => m \in excused
  /\ \A m \in MAC \ excused : OnItsWay(m)

(* A client is excused in the very step that gives its order away. *)
LEMMA ExcusedInTime ==
  ASSUME FreshInv, [OrderNext]_orderVars
  PROVE  excused \subseteq excused' /\ \A m \in MAC : Unordered(m)' => m \in excused'
<1>1. CASE Excuse
  BY <1>1 DEF Excuse
<1>2. CASE UNCHANGED <<vars, excused>>
  <2>1. ASSUME NEW m PROVE Unordered(m)' <=> Unordered(m)
    BY <1>2 DEF vars, Unordered, Pending, Posting, About, InBatch, Reports
  <2> QED
    BY <1>2, <2>1 DEF FreshInv
<1> QED
  BY <1>1, <1>2 DEF OrderNext, orderVars, Exited

(* A step that does not concern client m. *)
LEMMA NotAbout ==
  ASSUME NEW m \in MAC, OnItsWay(m),
         answered'[m] = answered[m], sonar'[m] = sonar[m], entry'[m] = entry[m],
         About(t', m) = About(t, m), Pending(m)' = Pending(m), Posting(m)' = Posting(m),
         \A r \in About(Report, m) : updater[r] = "none" => updater'[r] = "none",
         \A n \in Posting(m) : sends'[n].items = sends[n].items
  PROVE  OnItsWay(m)'
<1>1. \A a \in About(Report, m) : a \in t' <=> a \in t
  BY DEF About
<1>2. CASE answered[m] = None
  BY <1>1, <1>2 DEF OnItsWay, About, Reports
<1>3. CASE answered[m] # None
  BY <1>1, <1>3 DEF OnItsWay, About, Reports
<1> QED
  BY <1>2, <1>3

LEMMA AnswerFresh ==
  ASSUME IndInv, NEW r \in Report, Answer(r), NEW m \in MAC, OnItsWay(m), answered \in [MAC -> Report \cup {None}],
         ~Unordered(m)'
  PROVE  OnItsWay(m)'
<1> USE MacOfType, DistinctNames DEF IndInv, TypeOK
<1>1. /\ updater[r] = "none"
      /\ updater' = [updater EXCEPT ![r] = "spawned"]
      /\ answered' = [answered EXCEPT ![MacOf[r]] = r]
      /\ UNCHANGED <<entry, t, sends, sonar>>
  BY DEF Answer, BatchModeEndpointRouter, schedulerVars
<1>2. CASE MacOf[r] = m
  <2>1. answered'[m] = r /\ r \in About(Report, m) /\ r \in Pending(m)'
    BY <1>1, <1>2 DEF About, Pending
  <2>2. Pending(m)' \subseteq {r}
    BY <2>1 DEF Unordered
  <2> QED
    BY <2>1, <2>2 DEF OnItsWay
<1>3. CASE MacOf[r] # m
  <2>1. answered'[m] = answered[m]
    BY <1>1, <1>3
  <2>2. \A q \in About(Report, m) : updater'[q] = updater[q]
    BY <1>1, <1>3 DEF About
  <2>3. Pending(m)' = Pending(m)
    BY <2>2 DEF Pending
  <2>4. Posting(m)' = Posting(m) /\ About(t', m) = About(t, m)
    BY <1>1 DEF Posting, About, Reports
  <2> QED
    BY <1>1, <2>1, <2>2, <2>3, <2>4, NotAbout
<1> QED
  BY <1>2, <1>3

LEMMA UpdaterFresh ==
  ASSUME IndInv, NEW r \in Report, UpdaterLock(r) \/ UpdaterUnlock(r),
         UNCHANGED <<answered, sonar>>, NEW m \in MAC, OnItsWay(m)
  PROVE  OnItsWay(m)'
<1> USE DEF IndInv, TypeOK
<1>1. /\ \/ updater[r] = "spawned" /\ updater' = [updater EXCEPT ![r] = "locked"]
         \/ updater[r] = "stored" /\ updater' = [updater EXCEPT ![r] = "done"]
      /\ UNCHANGED <<entry, t, sends>>
  BY DEF UpdaterLock, UpdaterUnlock, schedulerVars
<1>2. \A q \in Report : updater[q] = "none" => updater'[q] = "none"
  BY <1>1
<1>3. Pending(m)' = Pending(m)
  BY <1>1 DEF Pending, About
<1>4. Posting(m)' = Posting(m) /\ About(t', m) = About(t, m)
  BY <1>1 DEF Posting, About, Reports
<1> QED
  BY <1>1, <1>2, <1>3, <1>4, NotAbout DEF About

LEMMA StoreFresh ==
  ASSUME IndInv, NEW r \in Report, Store(r), NEW m \in MAC, OnItsWay(m)
  PROVE  OnItsWay(m)'
<1> USE MacOfType, DistinctNames DEF IndInv, TypeOK
<1>1. /\ updater[r] = "locked"
      /\ updater' = [updater EXCEPT ![r] = "stored"]
      /\ entry' = [entry EXCEPT ![MacOf[r]] = r]
      /\ UNCHANGED <<answered, t, sends, sonar>>
  BY DEF Store, UpdaterStore, schedulerVars
<1>2. CASE MacOf[r] = m
  <2>1. r \in Pending(m) /\ r \in About(Report, m)
    BY <1>1, <1>2 DEF Pending, About
  <2>2. answered[m] = r /\ Pending(m) \subseteq {r}
    BY <1>1, <2>1 DEF OnItsWay
  <2>3. Pending(m)' = {}
    BY <1>1, <2>2 DEF Pending, About
  <2>4. entry'[m] = r /\ answered'[m] = r
    BY <1>1, <1>2, <2>2
  <2> QED
    BY <2>1, <2>3, <2>4 DEF OnItsWay, About
<1>3. CASE MacOf[r] # m
  <2>1. \A q \in About(Report, m) : updater'[q] = updater[q]
    BY <1>1, <1>3 DEF About
  <2>2. Pending(m)' = Pending(m)
    BY <2>1 DEF Pending
  <2>3. Posting(m)' = Posting(m) /\ About(t', m) = About(t, m) /\ entry'[m] = entry[m]
    BY <1>1, <1>3 DEF Posting, About, Reports
  <2> QED
    BY <1>1, <2>1, <2>2, <2>3, NotAbout
<1> QED
  BY <1>2, <1>3

LEMMA TakeFresh ==
  ASSUME IndInv, NEW k \in MAC, SchedulerTake(k), UNCHANGED <<answered, sonar>>,
         NEW m \in MAC, OnItsWay(m)
  PROVE  OnItsWay(m)'
<1> USE MacOfType, DistinctNames DEF IndInv, TypeOK
<1>1. /\ entry[k] # None
      /\ t' = t \cup {entry[k]}
      /\ entry' = [entry EXCEPT ![k] = None]
      /\ UNCHANGED <<updater, sends>>
  BY DEF SchedulerTake
<1>2. MacOf[entry[k]] = k /\ updater[entry[k]] \in {"stored", "done"}
  BY <1>1 DEF Phases
<1>3. Pending(m)' = Pending(m) /\ Posting(m)' = Posting(m)
  BY <1>1 DEF Pending, Posting, About, Reports
<1>4. CASE k = m
  <2>1. answered[m] \in About(Report, m) /\ Pending(m) \subseteq {answered[m]}
    BY <1>1, <1>2, <1>4 DEF OnItsWay, About
  <2>2. CASE answered[m] \in Pending(m)
    BY <1>1, <1>3, <2>1, <2>2 DEF OnItsWay, About
  <2>3. CASE Pending(m) = {} /\ entry[m] = answered[m]
    BY <1>1, <1>3, <1>4, <2>1, <2>3 DEF OnItsWay, About
  <2> QED
    BY <1>1, <1>4, <2>1, <2>2, <2>3 DEF OnItsWay
<1>5. CASE k # m
  <2>1. About(t', m) = About(t, m) /\ entry'[m] = entry[m]
    BY <1>1, <1>2, <1>5 DEF About
  <2> QED
    BY <1>1, <1>3, <2>1, NotAbout
<1> QED
  BY <1>4, <1>5

LEMMA ResetFresh ==
  ASSUME IndInv, SchedulerReset, UNCHANGED <<answered, sonar>>, NEW m \in MAC, OnItsWay(m)
  PROVE  OnItsWay(m)'
<1>1. UNCHANGED <<updater, t, sends>> /\ entry'[m] = None
  BY DEF SchedulerReset
<1>2. entry[m] = None
  BY DEF SchedulerReset, IndInv, Phases, Stored
<1>3. Pending(m)' = Pending(m) /\ Posting(m)' = Posting(m) /\ About(t', m) = About(t, m)
  BY <1>1 DEF Pending, Posting, About, Reports
<1> QED
  BY <1>1, <1>2, <1>3, NotAbout

LEMMA DispatchFresh ==
  ASSUME IndInv, SchedulerDispatch, UNCHANGED <<answered, sonar>>, NEW m \in MAC, OnItsWay(m),
         ~Unordered(m)'
  PROVE  OnItsWay(m)'
<1> USE DEF IndInv, TypeOK
<1>1. /\ t' = {}
      /\ UNCHANGED <<updater, entry>>
      /\ DOMAIN sends' = DOMAIN sends \cup {currentID}
      /\ currentID \notin DOMAIN sends
      /\ sends'[currentID] = [items |-> t, state |-> "running"]
      /\ \A n \in DOMAIN sends : sends'[n] = sends[n]
  BY DEF SchedulerDispatch, updaterVars
<1>2. Pending(m)' = Pending(m)
  BY <1>1 DEF Pending, About
<1>3. CASE About(t, m) = {}
  <2>1. Posting(m)' = Posting(m)
    BY <1>1, <1>3 DEF Posting, Reports, About
  <2>2. About(t', m) = About(t, m) /\ \A n \in Posting(m) : sends'[n].items = sends[n].items
    BY <1>1, <1>3 DEF About, Posting
  <2> QED
    BY <1>1, <1>2, <2>1, <2>2, NotAbout
<1>4. CASE About(t, m) # {}
  <2>1. currentID \in Posting(m)' /\ sends'[currentID].items = t
    BY <1>1, <1>4 DEF Posting, Reports, About
  <2>2. \E r \in About(Report, m) : updater[r] = "done"
    <3>1. PICK r \in t : MacOf[r] = m
      BY <1>4 DEF About
    <3>2. r \in Report /\ (r \in t \/ Sent(r) => updater[r] = "done")
      BY DEF Phases
    <3> QED
      BY <3>1, <3>2 DEF About
  <2>3. /\ answered[m] \in About(Report, m) /\ Pending(m) \subseteq {answered[m]}
        /\ \/ answered[m] \in Pending(m)
           \/ Pending(m) = {} /\ entry[m] = answered[m]
           \/ Pending(m) = {} /\ entry[m] = None /\ answered[m] \in t
    BY <1>4, <2>2 DEF OnItsWay
  <2>4. CASE answered[m] \in Pending(m) \/ (Pending(m) = {} /\ entry[m] = answered[m])
    BY <1>1, <1>2, <2>3, <2>4 DEF OnItsWay, About
  <2>5. CASE Pending(m) = {} /\ entry[m] = None /\ answered[m] \in t
    <3>1. About(t', m) = {}
      BY <1>1 DEF About
    <3> QED
      BY <1>1, <1>2, <2>1, <2>3, <2>5, <3>1 DEF OnItsWay, About, Reports
  <2> QED
    BY <2>3, <2>4, <2>5
<1> QED
  BY <1>3, <1>4

LEMMA PostFresh ==
  ASSUME IndInv, NEW n \in DOMAIN sends, Post(n), NEW m \in MAC, OnItsWay(m),
         ~Unordered(m), ~Unordered(m)'
  PROVE  OnItsWay(m)'
<1> USE DEF IndInv, TypeOK
<1>1. /\ sends[n].state = "running"
      /\ UNCHANGED <<updater, entry, t, answered>>
  BY DEF Post, SendBatch, updaterVars, schedulerVars
<1>2. PICK outcome \in {"posted", "failed", "discarded"} : sends' = [sends EXCEPT ![n].state = outcome]
  BY DEF Post, SendBatch, SendOutcome
<1>3. /\ DOMAIN sends' = DOMAIN sends
      /\ sends'[n].state = outcome
      /\ \A k \in DOMAIN sends : sends'[k].items = sends[k].items /\ (k # n => sends'[k] = sends[k])
  BY <1>2 DEF Batch
<1>4. Pending(m)' = Pending(m) /\ About(t', m) = About(t, m)
  BY <1>1 DEF Pending, About
<1>5. Posting(m)' = Posting(m) \ {n}
  BY <1>3 DEF Posting, Reports
<1>6. CASE About(Reports(n), m) = {}
  <2>1. Posting(m)' = Posting(m)
    BY <1>5, <1>6 DEF Posting
  <2>2. sonar'[m] = sonar[m]
    BY <1>6 DEF Post, SonarTakes
  <2> QED
    BY <1>1, <1>3, <1>4, <2>1, <2>2, NotAbout DEF Posting
<1>7. CASE About(Reports(n), m) # {}
  <2>1. PICK r \in Reports(n) : MacOf[r] = m
    BY <1>7 DEF About
  <2>2. r \in Report /\ updater[r] = "done"
    BY <2>1 DEF Phases, Sent, Reports, Batch
  <2>3. outcome = "posted"
    <3>1. outcome \in {"failed", "discarded"} => r \in InBatch({"failed", "discarded"})'
      BY <1>3, <2>1, <2>2 DEF InBatch, Reports
    <3> QED
      BY <2>1, <3>1 DEF Unordered, About
  <2>4. SonarTakes(Reports(n))
    BY <1>3, <2>3 DEF Post
  <2>5. answered[m] \in About(Report, m) /\ Pending(m) \subseteq {answered[m]}
    BY <2>1, <2>2 DEF OnItsWay, About
  <2>6. CASE \/ answered[m] \in Pending(m)
             \/ Pending(m) = {} /\ entry[m] = answered[m]
             \/ Pending(m) = {} /\ entry[m] = None /\ answered[m] \in t
    BY <1>1, <1>4, <2>5, <2>6 DEF OnItsWay, About
  <2>7. CASE /\ Pending(m) = {} /\ entry[m] = None /\ About(t, m) = {}
             /\ \E k \in Posting(m) : answered[m] \in Reports(k)
    <3>1. PICK k \in Posting(m) : answered[m] \in Reports(k)
      BY <2>7
    <3>2. CASE k = n
      <4>1. \A q \in About(Reports(n), m) : q = answered[m]
        BY <2>5, <3>1, <3>2 DEF UnambiguousBatches, OneOfEachClient, About
      <4>2. sonar'[m] = answered[m]
        BY <1>7, <2>4, <4>1 DEF SonarTakes
      <4>3. Posting(m)' = {}
        BY <1>5, <3>1, <3>2 DEF Unordered
      <4> QED
        BY <1>1, <1>4, <2>5, <2>7, <4>2, <4>3 DEF OnItsWay
    <3>3. CASE k # n
      <4>1. k \in Posting(m)' /\ answered[m] \in Reports(k)'
        BY <1>3, <1>5, <3>1, <3>3 DEF Reports, Posting
      <4> QED
        BY <1>1, <1>4, <2>5, <2>7, <4>1 DEF OnItsWay
    <3> QED
      BY <3>2, <3>3
  <2>8. Posting(m) # {}
    BY <1>1, <1>7 DEF Posting
  <2> QED
    BY <2>1, <2>2, <2>5, <2>6, <2>7, <2>8 DEF OnItsWay, About
<1> QED
  BY <1>6, <1>7

LEMMA FreshStep == IndInv /\ FreshInv /\ [OrderNext]_orderVars => FreshInv'
<1> SUFFICES ASSUME IndInv, FreshInv, [OrderNext]_orderVars PROVE FreshInv'
  OBVIOUS
<1> USE DEF updaterVars, schedulerVars
<1>1. answered' \in [MAC -> Report \cup {None}]
  BY MacOfType DEF FreshInv, OrderNext, orderVars, Answer, Store, Post, Unrecorded
<1>2. excused \subseteq excused' /\ \A m \in MAC : Unordered(m)' => m \in excused'
  BY ExcusedInTime
<1>3. ASSUME NEW m \in MAC \ excused' PROVE OnItsWay(m)'
  <2>1. m \in MAC /\ OnItsWay(m) /\ ~Unordered(m) /\ ~Unordered(m)'
    BY <1>2, <1>3 DEF FreshInv
  <2>2. ASSUME NEW r \in Report, Answer(r) \/ Store(r) PROVE OnItsWay(m)'
    BY <2>1, <2>2, AnswerFresh, StoreFresh DEF FreshInv
  <2>3. ASSUME NEW n \in DOMAIN sends, Post(n) PROVE OnItsWay(m)'
    BY <2>1, <2>3, PostFresh
  <2>4. CASE UNCHANGED <<updater, entry, t, sends, answered, sonar>>
    <3>1. Pending(m)' = Pending(m) /\ Posting(m)' = Posting(m) /\ About(t', m) = About(t, m)
      BY <2>4 DEF Pending, Posting, About, Reports
    <3> QED
      BY <2>1, <2>4, <3>1, NotAbout
  <2>5. CASE Unrecorded
    <3>1. UNCHANGED <<answered, sonar>>
      BY <2>5 DEF Unrecorded
    <3>2. ASSUME NEW r \in Report, UpdaterLock(r) \/ UpdaterUnlock(r) PROVE OnItsWay(m)'
      BY <2>1, <3>1, <3>2, UpdaterFresh
    <3>3. CASE RunScheduler
      <4>1. CASE SchedulerTick \/ SchedulerCount \/ SchedulerLock \/ SchedulerRangeEnd \/ SchedulerUnlock
        BY <2>4, <3>1, <4>1
           DEF SchedulerTick, SchedulerCount, SchedulerLock, SchedulerRangeEnd, SchedulerUnlock
      <4>2. ASSUME NEW k \in MAC, SchedulerTake(k) PROVE OnItsWay(m)'
        BY <2>1, <3>1, <4>2, TakeFresh
      <4>3. CASE SchedulerReset \/ SchedulerDispatch
        BY <2>1, <3>1, <4>3, ResetFresh, DispatchFresh
      <4> QED
        BY <3>3, <4>1, <4>2, <4>3 DEF RunScheduler
    <3>4. CASE Tick \/ Interrupt \/ SchedulerExit \/ Exit \/ \E n \in DOMAIN sends : SendPanics(n)
      BY <2>4, <3>1, <3>4 DEF Tick, Interrupt, SchedulerExit, Exit, SendPanics
    <3> QED
      BY <2>5, <3>2, <3>3, <3>4 DEF Unrecorded
  <2>6. CASE UNCHANGED orderVars \/ (Exited /\ UNCHANGED <<answered, stores, sonar, excused>>)
    BY <2>4, <2>6 DEF orderVars, Exited, vars
  <2> QED
    BY <2>2, <2>3, <2>5, <2>6 DEF OrderNext
<1> QED
  BY <1>1, <1>2, <1>3 DEF FreshInv

(* Sonar ends up with the report the client's router was last answered 200  *)
(* for, with every report in flight at once, unless two updaters or two     *)
(* posts of that client overlapped or a post failed: the code gives the     *)
(* order away there and nowhere else (batch_mode.go, batch_scheduler.go).   *)
THEOREM SonarUpToDateHolds == OrderSpec => []SonarUpToDate
<1>1. OrderInit => FreshInv
  <2> SUFFICES ASSUME OrderInit PROVE FreshInv
    OBVIOUS
  <2>1. \A r \in Report : updater[r] = "none"
    BY DEF OrderInit, Init
  <2>2. DOMAIN sends = {}
    BY DEF OrderInit, Init
  <2>3. \A m \in MAC : OnItsWay(m)
    BY <2>1 DEF OrderInit, OnItsWay, About
  <2>4. \A m \in MAC : ~Unordered(m)
    BY <2>1, <2>2 DEF Unordered, Pending, Posting, InBatch, About
  <2> QED
    BY <2>3, <2>4 DEF OrderInit, FreshInv
<1>2. FreshInv => SonarUpToDate
  <2> SUFFICES ASSUME FreshInv, NEW m \in MAC \ excused, Settled(m) PROVE sonar[m] = answered[m]
    BY DEF SonarUpToDate
  <2>1. answered[m] \notin t \/ answered[m] \notin About(Report, m)
    BY DEF Settled, About
  <2> QED
    BY <2>1, DistinctNames DEF FreshInv, OnItsWay, Settled, About
<1> QED
  BY <1>1, <1>2, FreshStep, BatchModeHolds, PTL DEF OrderSpec
=============================================================================
