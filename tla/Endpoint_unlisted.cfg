SPECIFICATION Spec
CONSTANTS
  RequestId = {r1, r2}
  Request <- MCRequest
  Routers <- MCRouters
  ParseMAC <- MCParseMAC
  ParseIP <- MCParseIP
  Atoi <- MCAtoi
  ZeroValue = ZeroValue
  Invalid = Invalid
  None = None
INVARIANT OnlyListedRoutersReport
