------------------------------ MODULE ProxyMode ------------------------------
(***************************************************************************)
(* Proxy mode around the lease table: the two listener goroutines, whose   *)
(* ServeDHCP puts the lease of every relayed ACK into the table; the trim  *)
(* goroutine, which counts the leases down and flags them expired; the     *)
(* scheduler, which copies the whole table into a batch; and the main      *)
(* goroutine waiting for SIGINT.                                           *)
(*                                                                         *)
(* leaseTable.mutex guards the changes, but addLease and trim print the    *)
(* table without it.  Go's run time kills a program it catches writing a   *)
(* map that another goroutine ranges over, so that is an action here.      *)
(*                                                                         *)
(* An ACK is one datagram that passed the transaction check; the address   *)
(* it leases is abstracted to its identity, its relay agent option is what *)
(* Option82 has.  What becomes of a batch after go sendBatch(t) is in      *)
(* BatchMode; in proxy mode nothing in the program depends on it.          *)
(***************************************************************************)
EXTENDS Option82

CONSTANTS
  Ack,       \* ACK datagrams, each handled once
  MAC,       \* client hardware addresses, the keys of the table
  MacOf,     \* MacOf[a] is the address ACK a leases to
  GrantOf,   \* GrantOf[a] is the lease time in ACK a, in seconds
  AgentOf,   \* AgentOf[a]: the sub-options of ACK a's relay agent option
  Listener,  \* the Serve goroutines, one on port 67 and one on port 68
  Period,    \* seconds between two trims, and what a trim takes off (10)
  Uint,      \* number of values of a uint32
  None,      \* an empty slot; nobody holds the mutex
  Trim,      \* the trim goroutine as a holder of the mutex
  Scheduler  \* the scheduler as a holder of the mutex

ASSUME SizesOK == Period \in Nat \ {0} /\ Uint \in Nat /\ Period < Uint
ASSUME AcksOK == MacOf \in [Ack -> MAC] /\ GrantOf \in [Ack -> 0 .. Uint - 1]
ASSUME AgentsOK == \A a \in Ack : IsAgentOption(AgentOf[a])
ASSUME NamesOK ==
  /\ None \notin Ack \cup Listener \cup {Trim, Scheduler}
  /\ Trim \notin Listener \cup {Scheduler}
  /\ Scheduler \notin Listener

VARIABLES
  waiting,    \* ACKs that have not arrived yet
  serve,      \* serve[l]: where listener l is, and the ACK it handles
  mutex,      \* who holds leaseTable.mutex
  entry,      \* entry[m]: the lease of m in the table, or None
  trim,       \* where leaseTable.trim is
  trimTick,   \* a tick waits in trim's t.C
  toTrim,     \* the clients that trim's range loop still comes to
  sched,      \* where RunBatchScheduler is
  tick,       \* a tick waits in the scheduler's t.C
  toCopy,     \* the clients that the scheduler's range loop still comes to
  t,          \* the scheduler's slice
  dispatched, \* the last slice given to a sendBatch goroutine
  main        \* where startDHCPProxy is

vars == <<waiting, serve, mutex, entry, trim, trimTick, toTrim, sched, tick, toCopy, t, dispatched, main>>
listenerVars == <<waiting, serve>>
trimVars == <<trim, trimTick, toTrim>>
schedulerVars == <<sched, tick, toCopy, t, dispatched>>

NotALease == [ack |-> None]
Option(a) == Octets(AgentOf[a])
Rids == {Rid(Option(a)) : a \in Ack}
Lease == [ack : Ack, rid : Rids, leaseTime : 0 .. Uint - 1, isExpired : BOOLEAN]
Assignment == [ack : Ack, RemoteID : Rids, expired : BOOLEAN]
Leased == {m \in MAC : entry[m] # NotALease}

TypeOK ==
  /\ waiting \subseteq Ack
  /\ serve \in [Listener -> [pc : {"read", "lock", "store", "unlock", "print"}, ack : Ack \cup {None}]]
  /\ mutex \in Listener \cup {None, Trim, Scheduler}
  /\ entry \in [MAC -> Lease \cup {NotALease}]
  /\ trim \in {"select", "lock", "range", "print", "exited"}
  /\ sched \in {"select", "count", "lock", "range", "dispatch", "exited"}
  /\ trimTick \in BOOLEAN
  /\ tick \in BOOLEAN
  /\ toTrim \subseteq MAC
  /\ toCopy \subseteq MAC
  /\ t \subseteq Assignment
  /\ dispatched \subseteq Assignment
  /\ main \in {"serving", "signalled", "returning", "exited", "crashed"}

Init ==
  /\ waiting = Ack
  /\ serve = [l \in Listener |-> [pc |-> "read", ack |-> None]]
  /\ mutex = None
  /\ entry = [m \in MAC |-> NotALease]
  /\ trim = "select"
  /\ sched = "select"
  /\ trimTick = FALSE
  /\ tick = FALSE
  /\ toTrim = {}
  /\ toCopy = {}
  /\ t = {}
  /\ dispatched = {}
  /\ main = "serving"

------------------------------------------------------------------------------
At(l, pc) == serve[l].pc = pc
Goto(l, pc) == serve' = [serve EXCEPT ![l].pc = pc]

(* Serve reads a datagram, ServeDHCP finds an ACK of a known transaction    *)
(* and calls addLease, which fills in a lease of its own first.             *)
ServeACK(l, a) ==
  /\ At(l, "read")
  /\ a \in waiting
  /\ ~Panics(Option(a))
  /\ waiting' = waiting \ {a}
  /\ serve' = [serve EXCEPT ![l] = [pc |-> "lock", ack |-> a]]
  /\ UNCHANGED <<mutex, entry, trimVars, schedulerVars, main>>

(* Nobody recovers a panic of addLease: the process is gone. *)
AddLeasePanics(l, a) ==
  /\ At(l, "read")
  /\ a \in waiting
  /\ Panics(Option(a))
  /\ main' = "crashed"
  /\ UNCHANGED <<listenerVars, mutex, entry, trimVars, schedulerVars>>

(* A bug: the lease is written without the mutex. *)
AddLeaseLockSkipped(l) ==
  /\ At(l, "lock")
  /\ Goto(l, "store")
  /\ UNCHANGED <<waiting, mutex, entry, trimVars, schedulerVars, main>>

AddLeaseLock(l) ==
  /\ At(l, "lock")
  /\ mutex = None
  /\ mutex' = l
  /\ Goto(l, "store")
  /\ UNCHANGED <<waiting, entry, trimVars, schedulerVars, main>>

Granted(a) ==
  [ack |-> a, rid |-> Rid(Option(a)), leaseTime |-> GrantOf[a], isExpired |-> FALSE]

AddLeaseStore(l) ==
  /\ At(l, "store")
  /\ entry' = [entry EXCEPT ![MacOf[serve[l].ack]] = Granted(serve[l].ack)]
  /\ Goto(l, "unlock")
  /\ UNCHANGED <<waiting, mutex, trimVars, schedulerVars, main>>

AddLeaseUnlock(l) ==
  /\ At(l, "unlock")
  /\ mutex' = None
  /\ Goto(l, "print")
  /\ UNCHANGED <<waiting, entry, trimVars, schedulerVars, main>>

(* printInfo or printDebug is through; the reply is relayed and Serve reads *)
(* the next datagram.                                                       *)
AddLeasePrinted(l) ==
  /\ At(l, "print")
  /\ serve' = [serve EXCEPT ![l] = [pc |-> "read", ack |-> None]]
  /\ UNCHANGED <<waiting, mutex, entry, trimVars, schedulerVars, main>>

------------------------------------------------------------------------------
TrimTick ==
  /\ ~trimTick
  /\ trimTick' = TRUE
  /\ UNCHANGED <<listenerVars, mutex, entry, trim, toTrim, schedulerVars, main>>

TrimSelect ==
  /\ trim = "select"
  /\ trimTick
  /\ trimTick' = FALSE
  /\ trim' = "lock"
  /\ UNCHANGED <<listenerVars, mutex, entry, toTrim, schedulerVars, main>>

TrimLock ==
  /\ trim = "lock"
  /\ mutex = None
  /\ mutex' = Trim
  /\ trim' = "range"
  /\ toTrim' = Leased
  /\ UNCHANGED <<listenerVars, entry, trimTick, schedulerVars, main>>

(* A bug: expired only at exactly zero. *)
TrimmedAtZero(v) ==
  IF v.isExpired THEN v
  ELSE IF v.leaseTime = 0 THEN [v EXCEPT !.isExpired = TRUE]
  ELSE [v EXCEPT !.leaseTime = (v.leaseTime - Period) % Uint]

(* A bug: the same, with a lease time that can go below zero. *)
TrimmedBelowZero(v) ==
  IF v.isExpired THEN v
  ELSE IF v.leaseTime = 0 THEN [v EXCEPT !.isExpired = TRUE]
  ELSE [v EXCEPT !.leaseTime = v.leaseTime - Period]

(* A bug: without the inner if, which looks redundant. *)
TrimmedAgain(v) ==
  IF v.leaseTime < Period /\ ~v.isExpired THEN [v EXCEPT !.leaseTime = 0, !.isExpired = TRUE]
  ELSE [v EXCEPT !.isExpired = FALSE, !.leaseTime = (v.leaseTime - Period) % Uint]

(* A bug: <= for <, which takes a period from a lease that has one left.    *)
TrimmedEarly(v) ==
  IF v.isExpired THEN v
  ELSE IF v.leaseTime <= Period THEN [v EXCEPT !.leaseTime = 0, !.isExpired = TRUE]
  ELSE [v EXCEPT !.leaseTime = (v.leaseTime - Period) % Uint]

(* What one trim makes of a lease; the subtraction is a uint32's. *)
Trimmed(v) ==
  IF v.isExpired THEN v
  ELSE IF v.leaseTime < Period THEN [v EXCEPT !.leaseTime = 0, !.isExpired = TRUE]
  ELSE [v EXCEPT !.leaseTime = (v.leaseTime - Period) % Uint]

(* One turn of the loop, in any order of the map.  An expired lease is not  *)
(* written again, which Trimmed leaves as it is.                            *)
TrimTake(m) ==
  /\ trim = "range"
  /\ m \in toTrim
  /\ entry' = [entry EXCEPT ![m] = Trimmed(entry[m])]
  /\ toTrim' = toTrim \ {m}
  /\ UNCHANGED <<listenerVars, mutex, trim, trimTick, schedulerVars, main>>

(* A bug: trim returns to its select with the mutex. *)
TrimUnlockForgotten ==
  /\ trim = "range"
  /\ toTrim = {}
  /\ trim' = "print"
  /\ UNCHANGED <<listenerVars, mutex, entry, trimTick, toTrim, schedulerVars, main>>

TrimUnlock ==
  /\ trim = "range"
  /\ toTrim = {}
  /\ mutex' = None
  /\ trim' = "print"
  /\ UNCHANGED <<listenerVars, entry, trimTick, toTrim, schedulerVars, main>>

TrimPrinted ==
  /\ trim = "print"
  /\ trim' = "select"
  /\ UNCHANGED <<listenerVars, mutex, entry, trimTick, toTrim, schedulerVars, main>>

------------------------------------------------------------------------------
Tick ==
  /\ ~tick
  /\ tick' = TRUE
  /\ UNCHANGED <<listenerVars, mutex, entry, trimVars, sched, toCopy, t, dispatched, main>>

SchedulerTick ==
  /\ sched = "select"
  /\ tick
  /\ tick' = FALSE
  /\ sched' = "count"
  /\ UNCHANGED <<listenerVars, mutex, entry, trimVars, toCopy, t, dispatched, main>>

(* len(leaseTable.entry) > 0, read without the mutex. *)
SchedulerCount ==
  /\ sched = "count"
  /\ sched' = IF Leased # {} THEN "lock" ELSE "select"
  /\ UNCHANGED <<listenerVars, mutex, entry, trimVars, tick, toCopy, t, dispatched, main>>

(* A bug: the table is copied without the mutex. *)
SchedulerLockSkipped ==
  /\ sched = "lock"
  /\ sched' = "range"
  /\ toCopy' = Leased
  /\ UNCHANGED <<listenerVars, mutex, entry, trimVars, tick, t, dispatched, main>>

SchedulerLock ==
  /\ sched = "lock"
  /\ mutex = None
  /\ mutex' = Scheduler
  /\ sched' = "range"
  /\ toCopy' = Leased
  /\ UNCHANGED <<listenerVars, entry, trimVars, tick, t, dispatched, main>>

(* What a batch says of a client. *)
Copy(v) == [ack |-> v.ack, RemoteID |-> v.rid, expired |-> v.isExpired]

(* A bug: only the leases still alive are copied. *)
SchedulerTakeSkipsExpired(m) ==
  /\ sched = "range"
  /\ m \in toCopy
  /\ t' = IF entry[m].isExpired THEN t ELSE t \cup {Copy(entry[m])}
  /\ toCopy' = toCopy \ {m}
  /\ UNCHANGED <<listenerVars, mutex, entry, trimVars, sched, tick, dispatched, main>>

(* A bug: the lease is deleted, as in batch mode. *)
SchedulerTakeDeletes(m) ==
  /\ sched = "range"
  /\ m \in toCopy
  /\ t' = t \cup {Copy(entry[m])}
  /\ entry' = [entry EXCEPT ![m] = NotALease]
  /\ toCopy' = toCopy \ {m}
  /\ UNCHANGED <<listenerVars, mutex, trimVars, sched, tick, dispatched, main>>

(* One turn of the loop copies a lease, an expired one too; the delete is   *)
(* commented out.                                                           *)
SchedulerTake(m) ==
  /\ sched = "range"
  /\ m \in toCopy
  /\ t' = t \cup {Copy(entry[m])}
  /\ toCopy' = toCopy \ {m}
  /\ UNCHANGED <<listenerVars, mutex, entry, trimVars, sched, tick, dispatched, main>>

SchedulerUnlock ==
  /\ sched = "range"
  /\ toCopy = {}
  /\ mutex' = None
  /\ sched' = "dispatch"
  /\ UNCHANGED <<listenerVars, entry, trimVars, tick, toCopy, t, dispatched, main>>

SchedulerDispatch ==
  /\ sched = "dispatch"
  /\ dispatched' = t
  /\ t' = {}
  /\ sched' = "select"
  /\ UNCHANGED <<listenerVars, mutex, entry, trimVars, tick, toCopy, main>>

------------------------------------------------------------------------------
Interrupt ==
  /\ main = "serving"
  /\ main' = "signalled"
  /\ UNCHANGED <<listenerVars, mutex, entry, trimVars, schedulerVars>>

(* ctl <- true has two receivers in proxy mode, and meets one of them. *)
SchedulerExit ==
  /\ main = "signalled"
  /\ sched = "select"
  /\ sched' = "exited"
  /\ main' = "returning"
  /\ UNCHANGED <<listenerVars, mutex, entry, trimVars, tick, toCopy, t, dispatched>>

TrimExit ==
  /\ main = "signalled"
  /\ trim = "select"
  /\ trim' = "exited"
  /\ main' = "returning"
  /\ UNCHANGED <<listenerVars, mutex, entry, trimTick, toTrim, schedulerVars>>

Exit ==
  /\ main = "returning"
  /\ main' = "exited"
  /\ UNCHANGED <<listenerVars, mutex, entry, trimVars, schedulerVars>>

(* Goroutines that write the map, and goroutines that range over it. *)
Writers ==
  {l \in Listener : At(l, "store")}
    \cup {x \in {Trim} : trim = "range" /\ \E m \in toTrim : ~entry[m].isExpired}

UnlockedReaders ==
  {l \in Listener : At(l, "print")} \cup {x \in {Trim} : trim = "print"}

(* fatal error: concurrent map iteration and map write *)
Fatal ==
  /\ Writers # {}
  /\ UnlockedReaders # {}
  /\ main' = "crashed"
  /\ UNCHANGED <<listenerVars, mutex, entry, trimVars, schedulerVars>>

Stopped ==
  /\ main \in {"exited", "crashed"}
  /\ UNCHANGED vars

AddLease(l) == AddLeaseLock(l) \/ AddLeaseStore(l) \/ AddLeaseUnlock(l) \/ AddLeasePrinted(l)
RunTrim == TrimSelect \/ TrimLock \/ (\E m \in MAC : TrimTake(m)) \/ TrimUnlock \/ TrimPrinted
RunScheduler ==
  \/ SchedulerTick
  \/ SchedulerCount
  \/ SchedulerLock
  \/ \E m \in MAC : SchedulerTake(m)
  \/ SchedulerUnlock
  \/ SchedulerDispatch

Live(A) == main \notin {"exited", "crashed"} /\ A

Running ==
  \/ \E l \in Listener, a \in Ack : ServeACK(l, a) \/ AddLeasePanics(l, a)
  \/ \E l \in Listener : AddLease(l)
  \/ TrimTick
  \/ RunTrim
  \/ Tick
  \/ RunScheduler
  \/ Interrupt
  \/ SchedulerExit
  \/ TrimExit
  \/ Exit
  \/ Fatal

Next == Live(Running) \/ Stopped

Spec == Init /\ [][Next]_vars

(* As in batch mode: goroutines that can go on do, tickers tick, and main   *)
(* is received from sometime.  Trim and the scheduler come back to the      *)
(* mutex for ever, so here a waiter counts on sync.Mutex handing it over to *)
(* whoever has waited a millisecond.  No ACK has to arrive, and nothing     *)
(* makes the run time notice a race.                                        *)
Fairness ==
  /\ \A l \in Listener : WF_vars(Live(AddLease(l)))
  /\ WF_vars(Live(TrimTick))
  /\ WF_vars(Live(RunTrim))
  /\ WF_vars(Live(Tick))
  /\ WF_vars(Live(RunScheduler))
  /\ \A l \in Listener : SF_vars(Live(AddLeaseLock(l)))
  /\ SF_vars(Live(TrimLock))
  /\ SF_vars(Live(SchedulerLock))
  /\ SF_vars(Live(SchedulerExit \/ TrimExit))
  /\ WF_vars(Live(Exit))

FairSpec == Spec /\ Fairness

------------------------------------------------------------------------------
(* The mutex is with whoever is between Lock and Unlock, so no two of the   *)
(* listeners, trim and the scheduler work on the table at a time.           *)
LockDiscipline ==
  /\ \A l \in Listener : mutex = l <=> serve[l].pc \in {"store", "unlock"}
  /\ mutex = Trim <=> trim = "range"
  /\ mutex = Scheduler <=> sched = "range"

(* A lease is worth what the server granted, less whole trims: the uint32   *)
(* never wraps, and zero and the flag come together or one trim apart.      *)
Accounting ==
  \A m \in Leased :
    LET v == entry[m] IN
    /\ MacOf[v.ack] = m
    /\ v.leaseTime <= GrantOf[v.ack]
    /\ v.isExpired => v.leaseTime = 0
    /\ ~v.isExpired => \E k \in 0 .. GrantOf[v.ack] : v.leaseTime + k * Period = GrantOf[v.ack]

(* Only another ACK makes a lease grow or live again, it expires only when  *)
(* less than a period is left, and nothing takes a client out of the table. *)
StepCountsDown ==
  \A m \in Leased :
    /\ m \in Leased'
    /\ entry'[m].ack = entry[m].ack =>
         /\ entry'[m].leaseTime <= entry[m].leaseTime
         /\ entry[m].isExpired => entry'[m].isExpired
         /\ entry'[m].isExpired /\ ~entry[m].isExpired => entry[m].leaseTime < Period

CountsDown == [][StepCountsDown]_vars

(* What one batch says of a client, the next says again or brings up to     *)
(* date: the client is in it, an expired lease stays expired, and another   *)
(* lease is there only when the old one is out of the table.                *)
Held(a) == \E m \in Leased : entry[m].ack = a

BringsUpToDate(x, y) ==
  /\ MacOf[y.ack] = MacOf[x.ack]
  /\ y.ack = x.ack => (x.expired => y.expired)
  /\ y.ack # x.ack => ~Held(x.ack)

StepMovesForward == \A x \in dispatched : \E y \in dispatched' : BringsUpToDate(x, y)

BatchesMoveForward == [][StepMovesForward]_vars

(* What makes the others inductive.  An ACK is in one place until its lease *)
(* is stored, and is not in the table or in a batch before that; what the   *)
(* slice and the last batch say is still true or out of date, never ahead   *)
(* of the table; the slice, with what the loop still adds to it, is ahead   *)
(* of the last batch, and not empty; and the loops are over leases.         *)
Fresh(a) ==
  \/ a \in waiting
  \/ \E l \in Listener : serve[l].pc \in {"lock", "store"} /\ serve[l].ack = a

OneHandlerEach ==
  /\ \A l \in Listener : ~At(l, "read") => serve[l].ack \in Ack \ waiting
  /\ \A k, l \in Listener : ~At(k, "read") /\ ~At(l, "read") /\ serve[k].ack = serve[l].ack => k = l

FreshIsUnknown ==
  \A a \in Ack : Fresh(a) => ~Held(a) /\ \A x \in t \cup dispatched : x.ack # a

NotAheadOfTable ==
  \A x \in t \cup dispatched :
    LET m == MacOf[x.ack] IN
    /\ m \in Leased
    /\ entry[m].ack = x.ack /\ x.expired => entry[m].isExpired

Drawn == t \cup {Copy(entry[m]) : m \in toCopy}

SliceIsNewer ==
  IF sched \in {"range", "dispatch"}
    THEN Drawn # {} /\ \A x \in dispatched : \E y \in Drawn : BringsUpToDate(x, y)
    ELSE t = {}

Loops ==
  /\ toTrim \subseteq Leased /\ (toTrim # {} => trim = "range")
  /\ toCopy \subseteq Leased /\ (toCopy # {} => sched = "range")
  /\ sched = "lock" => Leased # {}

Bookkeeping == OneHandlerEach /\ FreshIsUnknown /\ NotAheadOfTable /\ SliceIsNewer /\ Loops

IndInv == TypeOK /\ LockDiscipline /\ Accounting /\ Bookkeeping

(* Through every trim and renewal, Sonar is told what the client's relay    *)
(* agent put behind its second header: one length octet decides on the cut, *)
(* and no code is looked at.  No ACK with a lone sub-option gets that far.  *)
(* Of the orders and numbers that proxy_handler.go:40-44 allows, a circuit  *)
(* id and then a remote id is thus the only one that is told right.         *)
SecondValueReported ==
  \A x \in t \cup dispatched :
    /\ ~Lone(AgentOf[x.ack])
    /\ x.RemoteID = BehindSecondHeader(AgentOf[x.ack])

(* What makes it inductive: the id follows the ACK into table and batch.    *)
HandledIsRead == \A l \in Listener : ~At(l, "read") => ~Panics(Option(serve[l].ack))

RidsFollow ==
  /\ \A m \in Leased : ~Panics(Option(entry[m].ack)) /\ entry[m].rid = Rid(Option(entry[m].ack))
  /\ \A x \in t \cup dispatched : ~Panics(Option(x.ack)) /\ x.RemoteID = Rid(Option(x.ack))

(* The whole of it implements LeaseLedger.  A trim and a copy of the table, *)
(* several turns of a loop each, take effect when their goroutine has the   *)
(* mutex: leases the loop has not come to count as trimmed, or as drawn.    *)
LedgerLease(m) ==
  LET v == IF m \in toTrim THEN Trimmed(entry[m]) ELSE entry[m] IN
  [ack |-> v.ack, left |-> v.leaseTime, expired |-> v.isExpired]

Said(x) == [ack |-> x.ack, expired |-> x.expired]

Ledger == INSTANCE LeaseLedger WITH
  coming <- {a \in Ack : Fresh(a)},
  held   <- {LedgerLease(m) : m \in Leased},
  drawn  <- {Said(x) : x \in Drawn},
  told   <- {Said(x) : x \in dispatched}

ImplementsLedger == Ledger!Spec

(* A lease nobody renews is reported expired, as long as the proxy serves.  *)
Reported(a) == \E x \in dispatched : x.ack = a /\ x.expired
Renewed(a) == \E m \in Leased : m = MacOf[a] /\ entry[m].ack # a

ExpiryGetsReported ==
  \A a \in Ack : Held(a) ~> Reported(a) \/ Renewed(a) \/ main # "serving"

(* Ctrl+c ends the process, though nobody knows which goroutine receives    *)
(* from ctl.                                                                *)
ShutdownCompletes == main = "signalled" ~> main \in {"exited", "crashed"}

(* "true, exit batchScheduler" (proxy_handler.go:283): not so when trim     *)
(* receives it.                                                             *)
SchedulerGetsTheExit == main = "returning" => sched = "exited"

(* "put any map changes within the mutex locks to avoid read/write race     *)
(* conditions" (batch_scheduler.go:136): not so for the leases, which are   *)
(* printed outside them.                                                    *)
NoReadWriteRace == Writers = {} \/ UnlockedReaders = {}
=============================================================================
