SPECIFICATION Spec
CONSTANTS
  Lower <- MCLower
  StripHTTPS <- MCStripHTTPS
  Length <- MCLength
  IsAddress <- MCIsAddress
  IsInteger <- MCIsInteger
  Exists <- MCExists
  IsNotExist <- MCIsNotExist
  MakesURL <- MCMakesURL
  CutShort <- MCCutShort
  CutNumber <- MCCutNumber
  Minute = 4
  Half = 64
  Given <- MCGiven
  Flags <- MCFlags
  Interfaces <- MCInterfaces
  Addresses <- MCAddresses
  Input <- MCInput
  Router <- MCRouter
  Server <- MCServer
  Usage <- MCUsage
  MaxRows = 2
  MaxSessions = 1
  Unreadable = Unreadable
  None = None
INVARIANTS
  TypeOK
  WritesWhatWasSaved
  TableShowsRouters
  TableShowsServers
  TLSGuardsEndpoint
  RoutersAreWhole
PROPERTY LoadedSurvives
