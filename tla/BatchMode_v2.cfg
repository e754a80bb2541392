SPECIFICATION OrderSpec
CONSTANTS
  r1 = r1
  r2 = r2
  r3 = r3
  r4 = r4
  m1 = m1
  m2 = m2
  Report <- MCFewReports
  MAC <- MCMAC
  MacOf <- MCFewMacOf
  SonarVersion = 2
  None = None
  Scheduler = Scheduler
INVARIANT ClientsReachSonar
