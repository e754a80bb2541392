SPECIFICATION FairOrderSpec
CONSTANTS
  r1 = r1
  r2 = r2
  r3 = r3
  r4 = r4
  m1 = m1
  m2 = m2
  Report <- MCFewReports
  MAC <- MCMAC
  MacOf <- MCFewMacOf
  SonarVersion = 1
  None = None
  Scheduler = Scheduler
INVARIANTS
  TypeOK
  LockDiscipline
  AtMostOnce
  UnambiguousBatches
  NoEmptyBatch
  CleanStop
  BatchesFollowTheTable
  SonarUpToDate
PROPERTIES
  NoSilentLoss
  ImplementsLedger
  ReportsGetDispatched
  ShutdownCompletes
