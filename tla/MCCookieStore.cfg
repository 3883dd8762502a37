SPECIFICATION Spec
CONSTANTS
  site = site
  sub = sub
  other = other
  none = none
  Names = {"n"}
  Values = {"v", "w", "x"}
  Paths <- MCPaths
  Hosts <- MCHosts
  Under <- MCUnder
  NoAttribute = none
  Sent <- MCSent
  Asked <- MCAsked
  Second = 1
  MaxTime = 7
  MaxClock = 2
INVARIANTS ServesLastSet
PROPERTIES ImplementsCookieJar KeptForMaxAge
