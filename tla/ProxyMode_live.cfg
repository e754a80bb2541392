SPECIFICATION FairSpec
CONSTANTS
  a1 = a1
  a2 = a2
  a3 = a3
  a4 = a4
  m1 = m1
  m2 = m2
  port67 = port67
  port68 = port68
  Ack <- MCFewAcks
  MAC <- MCMAC
  MacOf <- MCFewMacOf
  GrantOf <- MCFewGrantOf
  AgentOf <- MCFewAgentOf
  Listener <- MCOneListener
  Period = 10
  Uint = 32
  None = None
  Trim = Trim
  Scheduler = Scheduler
INVARIANT SecondValueReported
PROPERTIES
  ExpiryGetsReported
  ShutdownCompletes
