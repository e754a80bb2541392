--------------------------- MODULE BatchModeProofs ---------------------------
(***************************************************************************)
(* For every set of reports and clients: the invariants of BatchMode, that *)
(* no step loses a report silently, and that BatchMode implements          *)
(* ReportLedger.                                                           *)
(***************************************************************************)
EXTENDS BatchMode, TLAPS

(* Every step leaves every variable in its set. *)
LEMMA TypeStep == TypeOK /\ [Next]_vars => TypeOK'
<1> SUFFICES ASSUME TypeOK, [Next]_vars PROVE TypeOK'
  OBVIOUS
<1> USE MacOfType, DistinctNames DEF TypeOK, UpdaterPC, SchedulerPC, MainPC, Batch, updaterVars, schedulerVars
<1>0. nameMakesURL' \in BOOLEAN
  BY DEF Next, Running, Exited, vars
<1> USE <1>0
<1>1. ASSUME NEW r \in Report, BatchModeEndpointRouter(r) PROVE TypeOK'
  BY <1>1 DEF BatchModeEndpointRouter
<1>2. ASSUME NEW r \in Report, UpdateBatchTable(r) PROVE TypeOK'
  BY <1>2 DEF UpdateBatchTable, UpdaterLock, UpdaterStore, UpdaterUnlock
<1>3. CASE Tick
  BY <1>3 DEF Tick
<1>4. CASE RunScheduler
  <2>1. CASE SchedulerTick \/ SchedulerCount \/ SchedulerLock
    BY <2>1 DEF SchedulerTick, SchedulerCount, SchedulerLock
  <2>2. ASSUME NEW m \in MAC, SchedulerTake(m) PROVE TypeOK'
    BY <2>2 DEF SchedulerTake
  <2>3. CASE SchedulerRangeEnd \/ SchedulerReset \/ SchedulerUnlock
    BY <2>3 DEF SchedulerRangeEnd, SchedulerReset, SchedulerUnlock
  <2>4. CASE SchedulerDispatch
    <3>1. currentID' \in Nat /\ currentID' - 1 = currentID
      BY <2>4 DEF SchedulerDispatch
    <3>2. sends' \in [0 .. currentID' - 1 -> Batch]
      BY <2>4, <3>1 DEF SchedulerDispatch
    <3> QED
      BY <2>4, <3>1, <3>2 DEF SchedulerDispatch
  <2> QED
    BY <1>4, <2>1, <2>2, <2>3, <2>4 DEF RunScheduler
<1>5. ASSUME NEW n \in DOMAIN sends, SendBatch(n) PROVE TypeOK'
  <2>1. PICK outcome \in SendOutcome : sends' = [sends EXCEPT ![n].state = outcome]
    BY <1>5 DEF SendBatch
  <2>2. sends[n] \in Batch /\ outcome \in {"posted", "failed", "discarded"}
    BY DEF SendOutcome
  <2>3. sends' \in [0 .. currentID - 1 -> Batch]
    BY <2>1, <2>2
  <2> QED
    BY <1>5, <2>3 DEF SendBatch
<1>6. CASE Interrupt \/ SchedulerExit \/ Exit \/ \E n \in DOMAIN sends : SendPanics(n)
  BY <1>6 DEF Interrupt, SchedulerExit, Exit, SendPanics
<1>7. CASE UNCHANGED vars
  BY <1>7 DEF vars
<1> QED
  BY <1>1, <1>2, <1>3, <1>4, <1>5, <1>6, <1>7 DEF Next, Running, Exited

(* The initial state is one of the states TypeOK describes. *)
LEMMA InitType == Init => TypeOK
<1> SUFFICES ASSUME Init PROVE TypeOK
  OBVIOUS
<1>1. [items |-> {}, state |-> "running"] \in Batch
  BY DEF Batch
<1>2. sends \in [0 .. currentID - 1 -> Batch]
  <2>1. 0 - 1 = -1
    OBVIOUS
  <2> QED
    BY <1>1, <2>1 DEF Init
<1>3. rwTableMutex \in Report \cup {None, Scheduler} /\ currentID \in Nat
  BY DEF Init
<1> QED
  BY <1>2, <1>3 DEF Init, TypeOK, UpdaterPC, SchedulerPC, MainPC

(* The variables keep to their sets, batch numbers included: sends holds    *)
(* exactly the batches numbered below currentID (batch_scheduler.go:148).   *)
THEOREM TypeCorrect == Spec => []TypeOK
  BY InitType, TypeStep, PTL DEF Spec

(* No step of BatchMode breaks the inductive invariant. *)
LEMMA InvStep == IndInv /\ [Next]_vars => IndInv'
<1> SUFFICES ASSUME IndInv, [Next]_vars PROVE IndInv'
  OBVIOUS
<1> USE MacOfType, DistinctNames DEF IndInv, TypeOK, updaterVars, schedulerVars
<1>0. TypeOK'
  BY TypeStep
<1>1. ASSUME NEW r \in Report, BatchModeEndpointRouter(r) PROVE IndInv'
  <2>1. LockDiscipline'
    BY <1>1, <1>0 DEF BatchModeEndpointRouter, LockDiscipline
  <2>2. AtMostOnce'
    BY <1>1, <1>0 DEF BatchModeEndpointRouter, AtMostOnce, InTable, Sent, Reports, Phases
  <2>3. UnambiguousBatches'
    BY <1>1, <1>0 DEF BatchModeEndpointRouter, UnambiguousBatches, OneOfEachClient, Reports
  <2>4. NoEmptyBatch'
    BY <1>1, <1>0 DEF BatchModeEndpointRouter, NoEmptyBatch, Reports
  <2>5. CleanStop'
    BY <1>1, <1>0 DEF BatchModeEndpointRouter, CleanStop
  <2>6. Phases'
    BY <1>1, <1>0 DEF BatchModeEndpointRouter, Phases, Sent, Reports, Stored, LockDiscipline
  <2> QED
    BY <1>0, <2>1, <2>2, <2>3, <2>4, <2>5, <2>6
<1>2. ASSUME NEW r \in Report, UpdaterLock(r) PROVE IndInv'
  <2>1. LockDiscipline'
    BY <1>2, <1>0 DEF UpdaterLock, LockDiscipline
  <2>2. AtMostOnce'
    BY <1>2, <1>0 DEF UpdaterLock, AtMostOnce, InTable, Sent, Reports, Phases
  <2>3. UnambiguousBatches'
    BY <1>2, <1>0 DEF UpdaterLock, UnambiguousBatches, OneOfEachClient, Reports
  <2>4. NoEmptyBatch'
    BY <1>2, <1>0 DEF UpdaterLock, NoEmptyBatch, Reports
  <2>5. CleanStop'
    BY <1>2, <1>0 DEF UpdaterLock, CleanStop
  <2>6. Phases'
    BY <1>2, <1>0 DEF UpdaterLock, Phases, Sent, Reports, Stored, LockDiscipline
  <2> QED
    BY <1>0, <2>1, <2>2, <2>3, <2>4, <2>5, <2>6
<1>3. ASSUME NEW r \in Report, UpdaterStore(r) PROVE IndInv'
  <2>1. LockDiscipline'
    BY <1>3, <1>0 DEF UpdaterStore, LockDiscipline
  <2>2. AtMostOnce'
    BY <1>3, <1>0 DEF UpdaterStore, AtMostOnce, InTable, Sent, Reports, Phases
  <2>3. UnambiguousBatches'
    BY <1>3, <1>0 DEF UpdaterStore, UnambiguousBatches, OneOfEachClient, Reports
  <2>4. NoEmptyBatch'
    BY <1>3, <1>0 DEF UpdaterStore, NoEmptyBatch, Reports
  <2>5. CleanStop'
    BY <1>3, <1>0 DEF UpdaterStore, CleanStop
  <2>6. Phases'
    BY <1>3, <1>0 DEF UpdaterStore, Phases, Sent, Reports, Stored, LockDiscipline
  <2> QED
    BY <1>0, <2>1, <2>2, <2>3, <2>4, <2>5, <2>6
<1>4. ASSUME NEW r \in Report, UpdaterUnlock(r) PROVE IndInv'
  <2>1. LockDiscipline'
    BY <1>4, <1>0 DEF UpdaterUnlock, LockDiscipline
  <2>2. AtMostOnce'
    BY <1>4, <1>0 DEF UpdaterUnlock, AtMostOnce, InTable, Sent, Reports, Phases
  <2>3. UnambiguousBatches'
    BY <1>4, <1>0 DEF UpdaterUnlock, UnambiguousBatches, OneOfEachClient, Reports
  <2>4. NoEmptyBatch'
    BY <1>4, <1>0 DEF UpdaterUnlock, NoEmptyBatch, Reports
  <2>5. CleanStop'
    BY <1>4, <1>0 DEF UpdaterUnlock, CleanStop
  <2>6. Phases'
    BY <1>4, <1>0 DEF UpdaterUnlock, Phases, Sent, Reports, Stored, LockDiscipline
  <2> QED
    BY <1>0, <2>1, <2>2, <2>3, <2>4, <2>5, <2>6
<1>5. CASE Tick
  <2>1. LockDiscipline' /\ NoEmptyBatch' /\ CleanStop'
    BY <1>5, <1>0 DEF Tick, LockDiscipline, NoEmptyBatch, CleanStop, Phases, Reports
  <2>2. AtMostOnce'
    BY <1>5, <1>0 DEF Tick, AtMostOnce, InTable, Sent, Reports
  <2>3. UnambiguousBatches'
    BY <1>5, <1>0 DEF Tick, UnambiguousBatches, OneOfEachClient, Reports
  <2>4. Phases'
    BY <1>5, <1>0 DEF Tick, Phases, Sent, Reports, Stored, LockDiscipline
  <2> QED
    BY <1>0, <2>1, <2>2, <2>3, <2>4
<1>6. CASE SchedulerTick
  <2>1. LockDiscipline' /\ NoEmptyBatch' /\ CleanStop'
    BY <1>6, <1>0 DEF SchedulerTick, LockDiscipline, NoEmptyBatch, CleanStop, Phases, Reports
  <2>2. AtMostOnce'
    BY <1>6, <1>0 DEF SchedulerTick, AtMostOnce, InTable, Sent, Reports
  <2>3. UnambiguousBatches'
    BY <1>6, <1>0 DEF SchedulerTick, UnambiguousBatches, OneOfEachClient, Reports
  <2>4. Phases'
    BY <1>6, <1>0 DEF SchedulerTick, Phases, Sent, Reports, Stored, LockDiscipline
  <2> QED
    BY <1>0, <2>1, <2>2, <2>3, <2>4
<1>7. CASE SchedulerCount
  <2>1. LockDiscipline' /\ AtMostOnce' /\ UnambiguousBatches' /\ NoEmptyBatch'
    BY <1>7 DEF SchedulerCount, LockDiscipline, AtMostOnce, UnambiguousBatches, OneOfEachClient, NoEmptyBatch,
      InTable, Sent, Reports
  <2>2. CleanStop'
    BY <1>7 DEF SchedulerCount, CleanStop
  <2>3. Phases'
    BY <1>7 DEF SchedulerCount, Phases, Sent, Reports, Stored
  <2> QED
    BY <1>0, <2>1, <2>2, <2>3
<1>8. CASE SchedulerLock
  <2>1. LockDiscipline' /\ NoEmptyBatch' /\ CleanStop'
    BY <1>8, <1>0 DEF SchedulerLock, LockDiscipline, NoEmptyBatch, CleanStop, Phases, Reports
  <2>2. AtMostOnce'
    BY <1>8, <1>0 DEF SchedulerLock, AtMostOnce, InTable, Sent, Reports
  <2>3. UnambiguousBatches'
    BY <1>8, <1>0 DEF SchedulerLock, UnambiguousBatches, OneOfEachClient, Reports
  <2>4. Phases'
    BY <1>8, <1>0 DEF SchedulerLock, Phases, Sent, Reports, Stored, LockDiscipline
  <2> QED
    BY <1>0, <2>1, <2>2, <2>3, <2>4
<1>9. ASSUME NEW m \in MAC, SchedulerTake(m) PROVE IndInv'
  <2>1. LockDiscipline'
    BY <1>9, <1>0 DEF SchedulerTake, LockDiscipline
  <2>2. AtMostOnce'
    BY <1>9, <1>0 DEF SchedulerTake, AtMostOnce, InTable, Sent, Reports, Phases
  <2>3. UnambiguousBatches'
    BY <1>9, <1>0 DEF SchedulerTake, UnambiguousBatches, OneOfEachClient, Reports, Phases
  <2>4. NoEmptyBatch'
    BY <1>9, <1>0 DEF SchedulerTake, NoEmptyBatch, Reports
  <2>5. CleanStop'
    BY <1>9, <1>0 DEF SchedulerTake, CleanStop
  <2>6. Phases'
    BY <1>9, <1>0 DEF SchedulerTake, Phases, Sent, Reports, Stored, LockDiscipline
  <2> QED
    BY <1>0, <2>1, <2>2, <2>3, <2>4, <2>5, <2>6
<1>10. CASE SchedulerRangeEnd
  <2>1. LockDiscipline' /\ NoEmptyBatch' /\ CleanStop'
    BY <1>10, <1>0 DEF SchedulerRangeEnd, LockDiscipline, NoEmptyBatch, CleanStop, Phases, Reports
  <2>2. AtMostOnce'
    BY <1>10, <1>0 DEF SchedulerRangeEnd, AtMostOnce, InTable, Sent, Reports
  <2>3. UnambiguousBatches'
    BY <1>10, <1>0 DEF SchedulerRangeEnd, UnambiguousBatches, OneOfEachClient, Reports
  <2>4. Phases'
    BY <1>10, <1>0 DEF SchedulerRangeEnd, Phases, Sent, Reports, Stored, LockDiscipline
  <2> QED
    BY <1>0, <2>1, <2>2, <2>3, <2>4
<1>11. CASE SchedulerReset
  <2>1. LockDiscipline'
    BY <1>11, <1>0 DEF SchedulerReset, LockDiscipline
  <2>2. AtMostOnce'
    BY <1>11, <1>0 DEF SchedulerReset, AtMostOnce, InTable, Sent, Reports, Phases
  <2>3. UnambiguousBatches'
    BY <1>11, <1>0 DEF SchedulerReset, UnambiguousBatches, OneOfEachClient, Reports
  <2>4. NoEmptyBatch'
    BY <1>11, <1>0 DEF SchedulerReset, NoEmptyBatch, Reports
  <2>5. CleanStop'
    BY <1>11, <1>0 DEF SchedulerReset, CleanStop
  <2>6. Phases'
    BY <1>11, <1>0 DEF SchedulerReset, Phases, Sent, Reports, Stored, LockDiscipline
  <2> QED
    BY <1>0, <2>1, <2>2, <2>3, <2>4, <2>5, <2>6
<1>12. CASE SchedulerUnlock
  <2>1. LockDiscipline'
    BY <1>12, <1>0 DEF SchedulerUnlock, LockDiscipline
  <2>2. AtMostOnce'
    BY <1>12, <1>0 DEF SchedulerUnlock, AtMostOnce, InTable, Sent, Reports, Phases
  <2>3. UnambiguousBatches'
    BY <1>12, <1>0 DEF SchedulerUnlock, UnambiguousBatches, OneOfEachClient, Reports
  <2>4. NoEmptyBatch'
    BY <1>12, <1>0 DEF SchedulerUnlock, NoEmptyBatch, Reports
  <2>5. CleanStop'
    BY <1>12, <1>0 DEF SchedulerUnlock, CleanStop
  <2>6. Phases'
    BY <1>12, <1>0 DEF SchedulerUnlock, Phases, Sent, Reports, Stored, LockDiscipline
  <2> QED
    BY <1>0, <2>1, <2>2, <2>3, <2>4, <2>5, <2>6
<1>13. CASE SchedulerDispatch
  <2>1. LockDiscipline'
    BY <1>13, <1>0 DEF SchedulerDispatch, LockDiscipline
  <2>2. AtMostOnce'
    BY <1>13, <1>0 DEF SchedulerDispatch, AtMostOnce, InTable, Sent, Reports, Phases
  <2>3. UnambiguousBatches'
    BY <1>13, <1>0 DEF SchedulerDispatch, UnambiguousBatches, OneOfEachClient, Reports
  <2>4. NoEmptyBatch'
    BY <1>13, <1>0 DEF SchedulerDispatch, NoEmptyBatch, Reports, Phases
  <2>5. CleanStop'
    BY <1>13, <1>0 DEF SchedulerDispatch, CleanStop
  <2>6. Phases'
    BY <1>13, <1>0 DEF SchedulerDispatch, Phases, Sent, Reports, Stored, LockDiscipline
  <2> QED
    BY <1>0, <2>1, <2>2, <2>3, <2>4, <2>5, <2>6
<1>14. ASSUME NEW n \in DOMAIN sends, SendBatch(n) PROVE IndInv'
  <2>1. LockDiscipline'
    BY <1>14, <1>0 DEF SendBatch, LockDiscipline
  <2>2. AtMostOnce'
    BY <1>14, <1>0 DEF SendBatch, AtMostOnce, InTable, Sent, Reports, Phases
  <2>3. UnambiguousBatches'
    BY <1>14, <1>0 DEF SendBatch, UnambiguousBatches, OneOfEachClient, Reports
  <2>4. NoEmptyBatch'
    BY <1>14, <1>0 DEF SendBatch, NoEmptyBatch, Reports
  <2>5. CleanStop'
    BY <1>14, <1>0 DEF SendBatch, CleanStop
  <2>6. Phases'
    BY <1>14, <1>0 DEF SendBatch, Phases, Sent, Reports, Stored, LockDiscipline
  <2> QED
    BY <1>0, <2>1, <2>2, <2>3, <2>4, <2>5, <2>6
<1>15. CASE Interrupt
  <2>1. LockDiscipline'
    BY <1>15, <1>0 DEF Interrupt, LockDiscipline
  <2>2. AtMostOnce'
    BY <1>15, <1>0 DEF Interrupt, AtMostOnce, InTable, Sent, Reports
  <2>3. UnambiguousBatches'
    BY <1>15, <1>0 DEF Interrupt, UnambiguousBatches, OneOfEachClient, Reports
  <2>4. NoEmptyBatch'
    BY <1>15, <1>0 DEF Interrupt, NoEmptyBatch, Reports
  <2>5. CleanStop'
    BY <1>15, <1>0 DEF Interrupt, CleanStop
  <2>6. Phases'
    BY <1>15, <1>0 DEF Interrupt, Phases, Sent, Reports, Stored
  <2> QED
    BY <1>0, <2>1, <2>2, <2>3, <2>4, <2>5, <2>6
<1>16. CASE SchedulerExit
  <2>1. LockDiscipline'
    BY <1>16, <1>0 DEF SchedulerExit, LockDiscipline
  <2>2. AtMostOnce'
    BY <1>16, <1>0 DEF SchedulerExit, AtMostOnce, InTable, Sent, Reports
  <2>3. UnambiguousBatches'
    BY <1>16, <1>0 DEF SchedulerExit, UnambiguousBatches, OneOfEachClient, Reports
  <2>4. NoEmptyBatch'
    BY <1>16, <1>0 DEF SchedulerExit, NoEmptyBatch, Reports
  <2>5. CleanStop'
    BY <1>16, <1>0 DEF SchedulerExit, CleanStop, Phases, LockDiscipline
  <2>6. Phases'
    BY <1>16, <1>0 DEF SchedulerExit, Phases, Sent, Reports, Stored
  <2> QED
    BY <1>0, <2>1, <2>2, <2>3, <2>4, <2>5, <2>6
<1>17. CASE Exit
  <2>1. LockDiscipline'
    BY <1>17, <1>0 DEF Exit, LockDiscipline
  <2>2. AtMostOnce'
    BY <1>17, <1>0 DEF Exit, AtMostOnce, InTable, Sent, Reports
  <2>3. UnambiguousBatches'
    BY <1>17, <1>0 DEF Exit, UnambiguousBatches, OneOfEachClient, Reports
  <2>4. NoEmptyBatch'
    BY <1>17, <1>0 DEF Exit, NoEmptyBatch, Reports
  <2>5. CleanStop'
    BY <1>17, <1>0 DEF Exit, CleanStop
  <2>6. Phases'
    BY <1>17, <1>0 DEF Exit, Phases, Sent, Reports, Stored
  <2> QED
    BY <1>0, <2>1, <2>2, <2>3, <2>4, <2>5, <2>6
<1>18. ASSUME NEW n \in DOMAIN sends, SendPanics(n) PROVE IndInv'
  <2>1. LockDiscipline'
    BY <1>18, <1>0 DEF SendPanics, LockDiscipline
  <2>2. AtMostOnce'
    BY <1>18, <1>0 DEF SendPanics, AtMostOnce, InTable, Sent, Reports
  <2>3. UnambiguousBatches'
    BY <1>18, <1>0 DEF SendPanics, UnambiguousBatches, OneOfEachClient, Reports
  <2>4. NoEmptyBatch'
    BY <1>18, <1>0 DEF SendPanics, NoEmptyBatch, Reports
  <2>5. CleanStop'
    BY <1>18, <1>0 DEF SendPanics, CleanStop
  <2>6. Phases'
    BY <1>18, <1>0 DEF SendPanics, Phases, Sent, Reports, Stored
  <2> QED
    BY <1>0, <2>1, <2>2, <2>3, <2>4, <2>5, <2>6
<1>19. CASE UNCHANGED vars
  <2>1. LockDiscipline'
    BY <1>19, <1>0 DEF vars, LockDiscipline
  <2>2. AtMostOnce'
    BY <1>19, <1>0 DEF vars, AtMostOnce, InTable, Sent, Reports
  <2>3. UnambiguousBatches'
    BY <1>19, <1>0 DEF vars, UnambiguousBatches, OneOfEachClient, Reports
  <2>4. NoEmptyBatch'
    BY <1>19, <1>0 DEF vars, NoEmptyBatch, Reports
  <2>5. CleanStop'
    BY <1>19, <1>0 DEF vars, CleanStop
  <2>6. Phases'
    BY <1>19, <1>0 DEF vars, Phases, Sent, Reports, Stored
  <2> QED
    BY <1>0, <2>1, <2>2, <2>3, <2>4, <2>5, <2>6
<1> QED
  BY <1>1, <1>2, <1>3, <1>4, <1>5, <1>6, <1>7, <1>8, <1>9, <1>10, <1>11, <1>12,
    <1>13, <1>14, <1>15, <1>16, <1>17, <1>18, <1>19
    DEF Next, Running, Exited, RunScheduler, UpdateBatchTable

(* The inductive invariant holds in every state of every behaviour. *)
THEOREM InvCorrect == Spec => []IndInv
<1>1. Init => IndInv
  <2> SUFFICES ASSUME Init PROVE IndInv
    OBVIOUS
  <2>1. TypeOK
    BY InitType
  <2>2. DOMAIN sends = {}
    BY DEF Init
  <2> QED
    BY <2>1, <2>2, DistinctNames DEF IndInv, Init, LockDiscipline, AtMostOnce, UnambiguousBatches,
       OneOfEachClient, NoEmptyBatch, CleanStop, Phases, InTable, Sent, Reports
<1> QED
  BY <1>1, InvStep, PTL DEF Spec

(* rwTableMutex protects the table: only the goroutine between Lock and     *)
(* Unlock is in UpdateBatchTable's or the scheduler's critical section.     *)
THEOREM LockDisciplineHolds == Spec => []LockDiscipline
  BY InvCorrect, PTL DEF IndInv

(* No report is in two places: the copy-and-delete of the range loop never  *)
(* duplicates one (batch_scheduler.go:140-144).                             *)
THEOREM AtMostOnceHolds == Spec => []AtMostOnce
  BY InvCorrect, PTL DEF IndInv

(* No batch names a client twice, however the updaters of one client race.  *)
THEOREM UnambiguousBatchesHolds == Spec => []UnambiguousBatches
  BY InvCorrect, PTL DEF IndInv

(* The check of len(b.entry) outside the mutex never leads to an empty      *)
(* batch (batch_scheduler.go:133-151).                                      *)
THEOREM NoEmptyBatchHolds == Spec => []NoEmptyBatch
  BY InvCorrect, PTL DEF IndInv

(* The exit handed over on ctl never meets the scheduler inside a drain     *)
(* (batch_mode.go:311, batch_scheduler.go:101-103).                         *)
THEOREM CleanStopHolds == Spec => []CleanStop
  BY InvCorrect, PTL DEF IndInv

(* Between its steps a drain is where the counters say: what the table      *)
(* loses the slice gains, the map that is replaced is empty, and no drain   *)
(* that began with a filled table ends with an empty slice.                 *)
THEOREM PhasesHolds == Spec => []Phases
  BY InvCorrect, PTL DEF IndInv

(* A step takes a report out of the table, the slice and the batches only   *)
(* when it writes a newer one into the slot.                                *)
LEMMA LossStep == IndInv /\ [Next]_vars => [LossNeedsReplacement]_vars
<1> SUFFICES ASSUME IndInv, Next, NEW r \in Report, Held(r), ~Held(r)'
             PROVE  \E q \in Report \ {r} : ReplacedBy(q, r)
  BY DEF LossNeedsReplacement
<1> USE MacOfType, DistinctNames DEF IndInv, TypeOK, updaterVars, schedulerVars,
      Held, InTable, Sent, Reports
<1>1. ASSUME NEW q \in Report, UpdaterStore(q) PROVE \E p \in Report \ {r} : ReplacedBy(p, r)
  <2>1. InTable(r) /\ MacOf[q] = MacOf[r] /\ q # r
    BY <1>1 DEF UpdaterStore
  <2> QED
    BY <1>1, <2>1 DEF UpdaterStore, ReplacedBy
<1>2. ASSUME NEW m \in MAC, SchedulerTake(m) PROVE FALSE
  BY <1>2 DEF SchedulerTake
<1>3. CASE SchedulerReset
  BY <1>3 DEF SchedulerReset, Phases, Stored
<1>4. CASE SchedulerDispatch
  BY <1>4 DEF SchedulerDispatch
<1>5. ASSUME NEW n \in DOMAIN sends, SendBatch(n) PROVE FALSE
  BY <1>5 DEF SendBatch
<1>6. ASSUME UNCHANGED <<entry, t, sends>> PROVE FALSE
  BY <1>6
<1> QED
  BY <1>1, <1>2, <1>3, <1>4, <1>5, <1>6
  DEF Next, Running, Exited, RunScheduler, UpdateBatchTable, vars, BatchModeEndpointRouter,
      UpdaterLock, UpdaterUnlock, Tick, SchedulerTick, SchedulerCount, SchedulerLock,
      SchedulerRangeEnd, SchedulerUnlock, SendPanics, Interrupt, SchedulerExit, Exit

(* A report is lost before it is in a batch only by being replaced: the map *)
(* make() throws away is always empty (batch_scheduler.go:144).             *)
THEOREM NoSilentLossHolds == Spec => NoSilentLoss
  BY InvCorrect, LossStep, PTL DEF Spec, NoSilentLoss

(* Every step is a step of the ledger, or leaves it alone. *)
LEMMA LedgerStep == IndInv /\ IndInv' /\ [Next]_vars => [Ledger!Next]_[r \in Report |-> LedgerStatus(r)]
<1> DEFINE status == [r \in Report |-> LedgerStatus(r)]
<1> SUFFICES ASSUME IndInv, IndInv', [Next]_vars PROVE [Ledger!Next]_status
  OBVIOUS
<1> USE MacOfType, DistinctNames DEF IndInv, TypeOK, updaterVars, schedulerVars,
      InTable, Sent, Reports, InBatch
<1>1. ASSUME NEW r \in Report, BatchModeEndpointRouter(r) PROVE Ledger!Acknowledge(r)
  BY <1>1 DEF BatchModeEndpointRouter, Ledger!Acknowledge, LedgerStatus
<1>2. ASSUME NEW r \in Report, UpdaterStore(r) PROVE Ledger!Stage(r)
  <2>1. status[r] = "acked"
    BY <1>2 DEF UpdaterStore, LedgerStatus
  <2>2. LedgerStatus(r)' = "staged"
    BY <1>2 DEF UpdaterStore, Phases, LedgerStatus
  <2>3. ASSUME NEW q \in Report \ {r}
        PROVE  LedgerStatus(q)' = IF LedgerStatus(q) = "staged" /\ MacOf[q] = MacOf[r]
                                    THEN "superseded" ELSE LedgerStatus(q)
    <3>1. t = {} \/ sched \in {"unlock", "dispatch"}
      BY <1>2 DEF UpdaterStore, Phases, LockDiscipline, SchedulerPC
    <3>2. InTable(q)' <=> InTable(q) /\ MacOf[q] # MacOf[r]
      BY <1>2 DEF UpdaterStore
    <3>3. InBatch({"posted"})' = InBatch({"posted"}) /\ InBatch({"running"})' = InBatch({"running"})
          /\ InBatch({"failed", "discarded"})' = InBatch({"failed", "discarded"})
      BY <1>2 DEF UpdaterStore
    <3> QED
      BY <1>2, <3>1, <3>2, <3>3 DEF UpdaterStore, LedgerStatus
  <2> QED
    BY <2>1, <2>2, <2>3 DEF Ledger!Stage, Ledger!SameClient
<1>3. ASSUME SchedulerReset PROVE Ledger!Dispatch
  <2>1. PICK r \in Report : r \in t
    BY <1>3 DEF SchedulerReset, Phases
  <2>2. status[r] = "staged"
    BY <1>3, <2>1 DEF SchedulerReset, AtMostOnce, Phases, LedgerStatus
  <2>3. ASSUME NEW q \in Report
        PROVE  LedgerStatus(q)' = IF LedgerStatus(q) = "staged" THEN "dispatched" ELSE LedgerStatus(q)
    <3>1. ~InTable(q) /\ ~InTable(q)'
      BY <1>3 DEF SchedulerReset, Phases, Stored
    <3>2. q \in t => ~Sent(q) /\ updater[q] = "done"
      BY DEF AtMostOnce, Phases
    <3> QED
      BY <1>3, <3>1, <3>2 DEF SchedulerReset, LedgerStatus
  <2>4. r \in Ledger!WithStatus("staged")
    BY <2>2 DEF Ledger!WithStatus
  <2>5. status' = [q \in Report |-> IF status[q] = "staged" THEN "dispatched" ELSE status[q]]
    BY <2>3
  <2> QED
    BY <2>4, <2>5 DEF Ledger!Dispatch
<1>4. ASSUME NEW n \in DOMAIN sends, SendBatch(n)
      PROVE  \E outcome \in {"posted", "lost"} : Ledger!Settle(Reports(n), outcome)
  <2>1. PICK o \in {"posted", "failed", "discarded"} : sends' = [sends EXCEPT ![n].state = o]
    BY <1>4 DEF SendBatch, SendOutcome
  <2> DEFINE outcome == IF o = "posted" THEN "posted" ELSE "lost"
  <2>2. DOMAIN sends' = DOMAIN sends /\ sends'[n].state = o /\ sends'[n].items = sends[n].items
        /\ \A k \in DOMAIN sends \ {n} : sends'[k] = sends[k]
    BY <2>1 DEF Batch
  <2>3. ASSUME NEW q \in Reports(n)
        PROVE  LedgerStatus(q) = "dispatched" /\ LedgerStatus(q)' = outcome
    <3>1. q \in Report /\ updater[q] = "done"
      BY DEF Phases, Batch
    <3>2. \A k \in DOMAIN sends : q \in sends[k].items => k = n
      BY DEF AtMostOnce
    <3>3. updater'[q] = "done" /\ sends[n].state = "running"
      BY <1>4, <3>1 DEF SendBatch
    <3> QED
      BY <2>2, <3>1, <3>2, <3>3 DEF LedgerStatus
  <2>4. ASSUME NEW q \in Report, q \notin Reports(n)
        PROVE  LedgerStatus(q)' = LedgerStatus(q)
    <3>1. UNCHANGED <<updater, entry, t, sched>>
      BY <1>4 DEF SendBatch
    <3>2. \A k \in DOMAIN sends : q \in sends[k].items => k # n
      BY <2>4
    <3> QED
      BY <2>2, <3>1, <3>2 DEF LedgerStatus
  <2>5. Reports(n) # {} /\ Reports(n) \subseteq Report
    BY DEF NoEmptyBatch, Batch
  <2> QED
    BY <2>3, <2>4, <2>5 DEF Ledger!Settle, Ledger!WithStatus
<1>5. ASSUME NEW r \in Report, UpdaterLock(r) \/ UpdaterUnlock(r) PROVE UNCHANGED status
  <2>1. UNCHANGED <<entry, sends, t, sched>> /\ \A q \in Report \ {r} : updater'[q] = updater[q]
    BY <1>5 DEF UpdaterLock, UpdaterUnlock
  <2>2. \/ updater[r] = "spawned" /\ updater'[r] = "locked"
        \/ updater[r] = "stored" /\ updater'[r] = "done"
    BY <1>5 DEF UpdaterLock, UpdaterUnlock
  <2> QED
    BY <2>1, <2>2 DEF LedgerStatus
<1>6. ASSUME NEW m \in MAC, SchedulerTake(m) PROVE UNCHANGED status
  <2>1. ASSUME NEW q \in Report PROVE LedgerStatus(q)' = LedgerStatus(q)
    <3>1. (q \in t' \/ InTable(q)') <=> (q \in t \/ InTable(q))
      BY <1>6 DEF SchedulerTake, Phases
    <3> QED
      BY <1>6, <3>1 DEF SchedulerTake, LedgerStatus
  <2> QED
    BY <2>1
<1>7. ASSUME SchedulerDispatch PROVE UNCHANGED status
  <2>1. DOMAIN sends' = DOMAIN sends \cup {currentID} /\ currentID \notin DOMAIN sends
    BY <1>7 DEF SchedulerDispatch
  <2>2. sends'[currentID] = [items |-> t, state |-> "running"]
        /\ \A k \in DOMAIN sends : sends'[k] = sends[k]
    BY <1>7 DEF SchedulerDispatch
  <2>3. ASSUME NEW q \in Report PROVE LedgerStatus(q)' = LedgerStatus(q)
    <3>1. CASE q \in t
      <4>1. ~Sent(q) /\ updater[q] = "done"
        BY <3>1 DEF AtMostOnce, Phases
      <4> QED
        BY <1>7, <2>1, <2>2, <3>1, <4>1 DEF SchedulerDispatch, LedgerStatus
    <3>2. CASE q \notin t
      BY <1>7, <2>1, <2>2, <3>2 DEF SchedulerDispatch, LedgerStatus
    <3> QED
      BY <3>1, <3>2
  <2> QED
    BY <2>3
<1>8. ASSUME UNCHANGED <<updater, entry, sends, t>>,
             t = {} \/ (sched \in {"unlock", "dispatch"} <=> sched' \in {"unlock", "dispatch"})
      PROVE  UNCHANGED status
  BY <1>8 DEF LedgerStatus
<1>9. CASE RunScheduler
  <2>1. CASE SchedulerTick \/ SchedulerCount \/ SchedulerLock \/ SchedulerRangeEnd \/ SchedulerUnlock
    <3>1. UNCHANGED <<updater, entry, sends, t>>
      BY <2>1 DEF SchedulerTick, SchedulerCount, SchedulerLock, SchedulerRangeEnd, SchedulerUnlock
    <3>2. sched \in {"unlock", "dispatch"} <=> sched' \in {"unlock", "dispatch"}
      BY <2>1 DEF SchedulerTick, SchedulerCount, SchedulerLock, SchedulerRangeEnd, SchedulerUnlock
    <3> QED
      BY <1>8, <3>1, <3>2
  <2> QED
    BY <1>9, <2>1, <1>3, <1>6, <1>7 DEF RunScheduler, Ledger!Next
<1>10. CASE Tick \/ Interrupt \/ SchedulerExit \/ Exit \/ UNCHANGED vars
            \/ \E n \in DOMAIN sends : SendPanics(n)
  <2>1. UNCHANGED <<updater, entry, sends, t>>
    BY <1>10 DEF Tick, Interrupt, SchedulerExit, Exit, SendPanics, vars
  <2>2. sched \in {"unlock", "dispatch"} <=> sched' \in {"unlock", "dispatch"}
    BY <1>10 DEF Tick, Interrupt, SchedulerExit, Exit, SendPanics, vars
  <2> QED
    BY <1>8, <2>1, <2>2
<1>11. ASSUME NEW r \in Report, BatchModeEndpointRouter(r) \/ UpdateBatchTable(r)
       PROVE  [Ledger!Next]_status
  BY <1>1, <1>2, <1>5, <1>11 DEF UpdateBatchTable, Ledger!Next
<1>12. ASSUME NEW n \in DOMAIN sends, SendBatch(n) PROVE Ledger!Next
  <2>1. Reports(n) \in SUBSET Report
    BY DEF Batch
  <2> QED
    BY <1>4, <1>12, <2>1 DEF Ledger!Next
<1> QED
  BY <1>9, <1>10, <1>11, <1>12 DEF Next, Running, Exited

(* Whatever the goroutines do, a router's report goes from acknowledged to  *)
(* staged, superseded, dispatched, and posted or lost, and never back: the  *)
(* mutex makes a drain look like one step.                                  *)
THEOREM ImplementsLedgerHolds == Spec => ImplementsLedger
<1>1. Init => Ledger!Init
  BY DEF Init, Ledger!Init, LedgerStatus
<1> QED
  BY <1>1, InvCorrect, LedgerStep, PTL DEF Spec, ImplementsLedger, Ledger!Spec
=============================================================================
