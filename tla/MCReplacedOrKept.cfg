SPECIFICATION LoadSpec
CONSTANTS
  p1 = p1
  p2 = p2
  p3 = p3
  v1 = v1
  v2 = v2
  Invalid = Invalid
  Absent = Absent
  Partial = Partial
  Nobody = Nobody
  Installers <- MCPair
  Versions <- MCVersions
  MaxPublishes = 0
  MaxFaults = 0
  MaxCrashes = 1
INVARIANT
  ReplacedOrKept
CHECK_DEADLOCK FALSE
