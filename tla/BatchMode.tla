------------------------------ MODULE BatchMode ------------------------------
(***************************************************************************)
(* Batch mode: the HTTP handler, the UpdateBatchTable goroutine it starts  *)
(* for every accepted report, the batch scheduler, the sendBatch           *)
(* goroutines, and the main goroutine waiting for SIGINT.                  *)
(*                                                                         *)
(* The goroutines interleave at every access to shared state: the table    *)
(* mutex, the table, the length of the table read without the mutex, and   *)
(* the unbuffered channel ctl.  A report is one accepted HTTP request; its *)
(* address, remote id and expiry are abstracted to its identity, so an     *)
(* Assignment in the table is the report that wrote it.                    *)
(***************************************************************************)
EXTENDS Integers

CONSTANTS
  Report,       \* accepted lease reports, one identity per HTTP request
  MAC,          \* client hardware addresses, the keys of the table
  MacOf,        \* MacOf[r] is the address report r is about
  SonarVersion, \* options.Sonar.Version, which checkConfig accepts unchecked
  None,         \* no report in a table slot; nobody holds the mutex
  Scheduler     \* the scheduler as a holder of the mutex

ASSUME MacOfType == MacOf \in [Report -> MAC]
ASSUME DistinctNames == None \notin Report /\ Scheduler \notin Report /\ None # Scheduler

VARIABLES
  updater,      \* updater[r]: where report r's UpdateBatchTable goroutine is
  rwTableMutex, \* who holds the table mutex
  entry,        \* entry[m]: the report in slot m of the table, or None
  sched,        \* where RunBatchScheduler is
  tick,         \* a tick waits in the channel t.C, which holds one
  t,            \* the scheduler's slice of assignments, which has no fixed order
  currentID,    \* number of the next batch
  sends,        \* sends[n]: the reports of batch n and its sendBatch goroutine
  main,         \* where startBatchModeServer is, or how the process ended
  nameMakesURL  \* whether a URL can be made of options.Sonar.InstanceName

vars == <<updater, rwTableMutex, entry, sched, tick, t, currentID, sends, main, nameMakesURL>>
updaterVars == <<updater, rwTableMutex, entry>>
schedulerVars == <<sched, tick, t, currentID>>

UpdaterPC == {"none", "spawned", "locked", "stored", "done"}
SchedulerPC == {"select", "count", "lock", "range", "reset", "unlock", "dispatch", "exited"}
MainPC == {"serving", "signalled", "shutdown", "exited", "crashed"}

(* What becomes of a sendBatch goroutine that comes to its end.  Version 1  *)
(* posts; the request reaches Sonar or client.Do returns an error.  There is *)
(* no code for any other version.  A running goroutine may stay so:         *)
(* http.Client{} has no timeout.                                            *)
SendOutcome == IF SonarVersion = 1 THEN {"posted", "failed"} ELSE {"discarded"}
Batch == [items : SUBSET Report, state : {"running", "posted", "failed", "discarded"}]

TypeOK ==
  /\ updater \in [Report -> UpdaterPC]
  /\ rwTableMutex \in Report \cup {None, Scheduler}
  /\ entry \in [MAC -> Report \cup {None}]
  /\ sched \in SchedulerPC
  /\ tick \in BOOLEAN
  /\ t \subseteq Report
  /\ currentID \in Nat
  /\ sends \in [0 .. currentID - 1 -> Batch]
  /\ main \in MainPC
  /\ nameMakesURL \in BOOLEAN

(* initTable, then the two goroutines main() leaves running, with whatever  *)
(* name checkConfig has let through: it looks at its length only.           *)
Init ==
  /\ updater = [r \in Report |-> "none"]
  /\ rwTableMutex = None
  /\ entry = [m \in MAC |-> None]
  /\ sched = "select"
  /\ tick = FALSE
  /\ t = {}
  /\ currentID = 0
  /\ sends = [n \in 0 .. -1 |-> [items |-> {}, state |-> "running"]]
  /\ main = "serving"
  /\ nameMakesURL \in BOOLEAN

------------------------------------------------------------------------------
(* BatchModeEndpointRouter, for a report that passes every check: start the *)
(* updater and answer 200 without waiting for it.  A request already being  *)
(* read is answered during Shutdown too, so only the exit ends this.        *)
BatchModeEndpointRouter(r) ==
  /\ updater[r] = "none"
  /\ updater' = [updater EXCEPT ![r] = "spawned"]
  /\ UNCHANGED <<rwTableMutex, entry, schedulerVars, sends, main>>

(* A bug: the table is written without its mutex. *)
UpdaterLockSkipped(r) ==
  /\ updater[r] = "spawned"
  /\ updater' = [updater EXCEPT ![r] = "locked"]
  /\ UNCHANGED <<rwTableMutex, entry, schedulerVars, sends, main>>

(* A bug: an address that is in the table already is not written again. *)
UpdaterStoreIfAbsent(r) ==
  /\ updater[r] = "locked"
  /\ entry' = IF entry[MacOf[r]] = None THEN [entry EXCEPT ![MacOf[r]] = r] ELSE entry
  /\ updater' = [updater EXCEPT ![r] = "stored"]
  /\ UNCHANGED <<rwTableMutex, schedulerVars, sends, main>>

(* A bug: a way out of UpdateBatchTable that keeps the mutex. *)
UpdaterUnlockForgotten(r) ==
  /\ updater[r] = "stored"
  /\ updater' = [updater EXCEPT ![r] = "done"]
  /\ UNCHANGED <<rwTableMutex, entry, schedulerVars, sends, main>>

(* UpdateBatchTable: lock, write the slot of the address, unlock. *)
UpdaterLock(r) ==
  /\ updater[r] = "spawned"
  /\ rwTableMutex = None
  /\ rwTableMutex' = r
  /\ updater' = [updater EXCEPT ![r] = "locked"]
  /\ UNCHANGED <<entry, schedulerVars, sends, main>>

UpdaterStore(r) ==
  /\ updater[r] = "locked"
  /\ entry' = [entry EXCEPT ![MacOf[r]] = r]
  /\ updater' = [updater EXCEPT ![r] = "stored"]
  /\ UNCHANGED <<rwTableMutex, schedulerVars, sends, main>>

UpdaterUnlock(r) ==
  /\ updater[r] = "stored"
  /\ rwTableMutex' = None
  /\ updater' = [updater EXCEPT ![r] = "done"]
  /\ UNCHANGED <<entry, schedulerVars, sends, main>>

------------------------------------------------------------------------------
(* The ticker drops a tick when one already waits. *)
Tick ==
  /\ ~tick
  /\ tick' = TRUE
  /\ UNCHANGED <<updaterVars, sched, t, currentID, sends, main>>

(* RunBatchScheduler: select takes the tick. *)
SchedulerTick ==
  /\ sched = "select"
  /\ tick
  /\ tick' = FALSE
  /\ sched' = "count"
  /\ UNCHANGED <<updaterVars, t, currentID, sends, main>>

Stored == {m \in MAC : entry[m] # None}

(* A bug: >= 0 for > 0. *)
SchedulerCountAny ==
  /\ sched = "count"
  /\ sched' = "lock"
  /\ UNCHANGED <<updaterVars, tick, t, currentID, sends, main>>

(* len(b.entry) > 0, read without the mutex; skippedID only counts for the log. *)
SchedulerCount ==
  /\ sched = "count"
  /\ sched' = IF Stored # {} THEN "lock" ELSE "select"
  /\ UNCHANGED <<updaterVars, tick, t, currentID, sends, main>>

SchedulerLock ==
  /\ sched = "lock"
  /\ rwTableMutex = None
  /\ rwTableMutex' = Scheduler
  /\ sched' = "range"
  /\ UNCHANGED <<updater, entry, tick, t, currentID, sends, main>>

(* A bug: the loop is left, by a break or a bounded batch, before the table *)
(* is empty.                                                                *)
SchedulerRangeEndEarly ==
  /\ sched = "range"
  /\ sched' = "reset"
  /\ UNCHANGED <<updaterVars, tick, t, currentID, sends, main>>

(* A bug: the mutex is given back before the map is replaced. *)
SchedulerRangeEndUnlocks ==
  /\ sched = "range"
  /\ Stored = {}
  /\ sched' = "reset"
  /\ rwTableMutex' = None
  /\ UNCHANGED <<updater, entry, tick, t, currentID, sends, main>>

(* One turn of the range loop; Go visits the keys in no particular order. *)
SchedulerTake(m) ==
  /\ sched = "range"
  /\ entry[m] # None
  /\ t' = t \cup {entry[m]}
  /\ entry' = [entry EXCEPT ![m] = None]
  /\ UNCHANGED <<updater, rwTableMutex, sched, tick, currentID, sends, main>>

SchedulerRangeEnd ==
  /\ sched = "range"
  /\ Stored = {}
  /\ sched' = "reset"
  /\ UNCHANGED <<updaterVars, tick, t, currentID, sends, main>>

(* b.entry = make(...): whatever the map holds by then is dropped. *)
SchedulerReset ==
  /\ sched = "reset"
  /\ entry' = [m \in MAC |-> None]
  /\ sched' = "unlock"
  /\ UNCHANGED <<updater, rwTableMutex, tick, t, currentID, sends, main>>

SchedulerUnlock ==
  /\ sched = "unlock"
  /\ rwTableMutex' = None
  /\ sched' = "dispatch"
  /\ UNCHANGED <<updater, entry, tick, t, currentID, sends, main>>

(* A bug: t is declared outside the loop and appended to for ever. *)
SchedulerDispatchKeepsSlice ==
  /\ sched = "dispatch"
  /\ currentID' = currentID + 1
  /\ sends' = [n \in 0 .. currentID |->
                 IF n = currentID THEN [items |-> t, state |-> "running"] ELSE sends[n]]
  /\ sched' = "select"
  /\ UNCHANGED <<updaterVars, tick, t, main>>

(* A bug: the batch goes out under a number nobody increments. *)
SchedulerDispatchUncounted ==
  /\ sched = "dispatch"
  /\ sends' = [n \in 0 .. currentID |->
                 IF n = currentID THEN [items |-> t, state |-> "running"] ELSE sends[n]]
  /\ t' = {}
  /\ sched' = "select"
  /\ UNCHANGED <<updaterVars, tick, currentID, main>>

(* b.currentID++ and go sendBatch(t); the next tick declares a fresh t. *)
SchedulerDispatch ==
  /\ sched = "dispatch"
  /\ currentID' = currentID + 1
  /\ sends' = [n \in 0 .. currentID |->
                 IF n = currentID THEN [items |-> t, state |-> "running"] ELSE sends[n]]
  /\ t' = {}
  /\ sched' = "select"
  /\ UNCHANGED <<updaterVars, tick, main>>

(* A version 1 batch for which http.NewRequest returns no request. *)
NoRequest == SonarVersion = 1 /\ ~nameMakesURL

(* sendBatch: one attempt, whose error or answer changes nothing here. *)
SendBatch(n) ==
  /\ sends[n].state = "running"
  /\ ~NoRequest
  /\ \E outcome \in SendOutcome : sends' = [sends EXCEPT ![n].state = outcome]
  /\ UNCHANGED <<updaterVars, schedulerVars, main>>

(* The error is logged and req.SetBasicAuth called all the same: req is nil, *)
(* and a panic in a goroutine of its own ends the whole process.            *)
SendPanics(n) ==
  /\ sends[n].state = "running"
  /\ NoRequest
  /\ main' = "crashed"
  /\ UNCHANGED <<updaterVars, schedulerVars, sends>>

------------------------------------------------------------------------------
(* <-stop *)
Interrupt ==
  /\ main = "serving"
  /\ main' = "signalled"
  /\ UNCHANGED <<updaterVars, schedulerVars, sends>>

(* A bug: ctl has a buffer, and main goes on before the scheduler looks. *)
SchedulerExitBuffered ==
  /\ main = "signalled"
  /\ main' = "shutdown"
  /\ UNCHANGED <<updaterVars, schedulerVars, sends>>

(* ctl <- true meets <-ctl: the channel has no buffer and, in batch mode,   *)
(* the scheduler is its only receiver.                                      *)
SchedulerExit ==
  /\ main = "signalled"
  /\ sched = "select"
  /\ main' = "shutdown"
  /\ sched' = "exited"
  /\ UNCHANGED <<updaterVars, tick, t, currentID, sends>>

(* Both Shutdown calls return, because the requests are answered or because *)
(* ten seconds are over; then main() returns and every goroutine ends.      *)
Exit ==
  /\ main = "shutdown"
  /\ main' = "exited"
  /\ UNCHANGED <<updaterVars, schedulerVars, sends>>

Over == main \in {"exited", "crashed"}

Exited ==
  /\ Over
  /\ UNCHANGED vars

RunScheduler ==
  \/ SchedulerTick
  \/ SchedulerCount
  \/ SchedulerLock
  \/ \E m \in MAC : SchedulerTake(m)
  \/ SchedulerRangeEnd
  \/ SchedulerReset
  \/ SchedulerUnlock
  \/ SchedulerDispatch

UpdateBatchTable(r) == UpdaterLock(r) \/ UpdaterStore(r) \/ UpdaterUnlock(r)

Running ==
  /\ ~Over
  /\ UNCHANGED nameMakesURL
  /\ \/ \E r \in Report : BatchModeEndpointRouter(r)
     \/ \E r \in Report : UpdateBatchTable(r)
     \/ Tick
     \/ RunScheduler
     \/ \E n \in DOMAIN sends : SendBatch(n)
     \/ \E n \in DOMAIN sends : SendPanics(n)
     \/ Interrupt
     \/ SchedulerExit
     \/ Exit

Next == Running \/ Exited

Spec == Init /\ [][Next]_vars

(* What the Go runtime and the clock give: a goroutine that can go on does, *)
(* the ticker ticks, and a select that finds ctl ready again and again takes *)
(* it sometime, since it picks among the ready cases at random.  Nothing     *)
(* makes Sonar answer, a router report, or a user press ctrl+c.              *)
Live(A) == ~Over /\ A /\ UNCHANGED nameMakesURL

Fairness ==
  /\ \A r \in Report : WF_vars(Live(UpdateBatchTable(r)))
  /\ WF_vars(Live(Tick))
  /\ WF_vars(Live(RunScheduler))
  /\ SF_vars(Live(SchedulerExit))
  /\ WF_vars(Live(Exit))

FairSpec == Spec /\ Fairness

------------------------------------------------------------------------------
Reports(n) == sends[n].items
InTable(r) == entry[MacOf[r]] = r
Sent(r) == \E n \in DOMAIN sends : r \in Reports(n)

(* UpdateBatchTable and the scheduler never both believe they have the      *)
(* table: the mutex is with whoever is between Lock and Unlock, and with    *)
(* nobody when none is.                                                     *)
LockDiscipline ==
  /\ \A r \in Report : (rwTableMutex = r) <=> (updater[r] \in {"locked", "stored"})
  /\ (rwTableMutex = Scheduler) <=> (sched \in {"range", "reset", "unlock"})

(* An assignment is in one place: the table, the slice being filled, or one *)
(* batch.  Sonar is never handed the same report twice, though the drain    *)
(* copies and deletes one key at a time while requests keep arriving.       *)
AtMostOnce ==
  /\ \A r \in Report : InTable(r) => r \notin t /\ ~Sent(r)
  /\ \A r \in t : ~Sent(r)
  /\ \A i, j \in DOMAIN sends : i # j => Reports(i) \cap Reports(j) = {}

(* A batch names a client once, so Sonar never has to guess which of two    *)
(* assignments of one address in one request is the newer: sendBatch sends  *)
(* a list in the map's random order.                                        *)
OneOfEachClient(S) == \A q, r \in S : MacOf[q] = MacOf[r] => q = r

UnambiguousBatches ==
  /\ OneOfEachClient(t)
  /\ \A n \in DOMAIN sends : OneOfEachClient(Reports(n))

(* The unlocked len(b.entry) is good enough: what it saw cannot go away     *)
(* before the lock, so no batch is empty.                                   *)
NoEmptyBatch == \A n \in DOMAIN sends : Reports(n) # {}

(* Once main has handed over the exit, the scheduler holds no lock and no   *)
(* assignment that it has taken out of the table and not yet sent.          *)
CleanStop ==
  main \in {"shutdown", "exited"} =>
    /\ sched = "exited"
    /\ rwTableMutex # Scheduler
    /\ t = {}

(* What makes the others inductive.  A slot holds a report of its own       *)
(* client; a report leaves the table only after its updater is through;     *)
(* the slice is empty until the range loop, where it grows by exactly what  *)
(* the table loses, and is not empty after it; the map that is replaced is  *)
(* empty.                                                                   *)
Phases ==
  /\ \A m \in MAC : entry[m] # None => MacOf[entry[m]] = m /\ updater[entry[m]] \in {"stored", "done"}
  /\ \A r \in Report : r \in t \/ Sent(r) => updater[r] = "done"
  /\ sched \in {"select", "count", "lock", "exited"} => t = {}
  /\ sched = "range" => \A r \in t : entry[MacOf[r]] = None
  /\ sched = "lock" => Stored # {}
  /\ sched = "range" => Stored # {} \/ t # {}
  /\ sched = "reset" => Stored = {}
  /\ sched \in {"reset", "unlock", "dispatch"} => t # {}
  /\ sched = "exited" => main \in {"shutdown", "exited", "crashed"}

IndInv ==
  /\ TypeOK
  /\ LockDiscipline
  /\ AtMostOnce
  /\ UnambiguousBatches
  /\ NoEmptyBatch
  /\ CleanStop
  /\ Phases

(* A report that is in the table, or on its way to Sonar, stays so until    *)
(* another report of the same client takes its slot.  In particular the map *)
(* the scheduler replaces (b.entry = make(...)) never holds anything.       *)
Held(r) == InTable(r) \/ r \in t \/ Sent(r)

ReplacedBy(q, r) ==
  /\ MacOf[q] = MacOf[r]
  /\ updater[q] = "locked"
  /\ updater'[q] = "stored"

LossNeedsReplacement ==
  \A r \in Report : Held(r) /\ ~Held(r)' => \E q \in Report \ {r} : ReplacedBy(q, r)

NoSilentLoss == [][LossNeedsReplacement]_vars

(* The whole of it implements ReportLedger.  A drain takes effect for the   *)
(* ledger when the map is replaced, one step before the mutex is free.      *)
InBatch(states) ==
  {r \in Report : \E n \in DOMAIN sends : r \in Reports(n) /\ sends[n].state \in states}

LedgerStatus(r) ==
  IF updater[r] = "none" THEN "unseen"
  ELSE IF updater[r] \in {"spawned", "locked"} THEN "acked"
  ELSE IF r \in InBatch({"posted"}) THEN "posted"
  ELSE IF r \in InBatch({"failed", "discarded"}) THEN "lost"
  ELSE IF r \in InBatch({"running"}) \/ (r \in t /\ sched \in {"unlock", "dispatch"})
    THEN "dispatched"
  ELSE IF r \in t \/ InTable(r) THEN "staged"
  ELSE "superseded"

Ledger == INSTANCE ReportLedger WITH status <- [r \in Report |-> LedgerStatus(r)]
ImplementsLedger == Ledger!Spec

(* While main serves, an acknowledged report gets into a batch, unless a    *)
(* newer report of the same client has replaced it.                         *)
ReportsGetDispatched ==
  \A r \in Report :
    updater[r] = "spawned" ~>
      LedgerStatus(r) \in {"superseded", "dispatched", "posted", "lost"} \/ main # "serving"

(* Ctrl+c ends the process, whatever the scheduler and the updaters were    *)
(* doing and even if Sonar never answers a batch, unless a batch for a name *)
(* that makes no URL has ended it first.                                    *)
ShutdownCompletes == main = "signalled" ~> Over

(* "each mode runs a concurrent scheduler which will batch all discovered   *)
(* clients to sonar" (README.md:30): not so for version 2, the default the  *)
(* README gives, where sendBatch drops every batch.                         *)
ClientsReachSonar == \A n \in DOMAIN sends : sends[n].state # "discarded"
=============================================================================
