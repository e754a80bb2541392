SPECIFICATION Spec
CONSTANTS
  c1 = c1
  c2 = c2
  x1 = x1
  x2 = x2
  Client <- MCClient
  Xid <- MCXid
  XidOf <- MCXidOf
  Server = {s1}
  ClientSends <- MCClientSends
  Stray <- MCStray
  None = None
INVARIANT RequestsLeaveUpstream
