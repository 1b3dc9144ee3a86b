SPECIFICATION FairSpec
CONSTANTS
  c1 = c1
  c2 = c2
  Unparsable = Unparsable
  NoPolicy = NoPolicy
  Calls <- MCCalls
  Requests <- MCContenders
  Policies <- MCAskCli
  MaxFaults = 1
  MaxCrashes = 1
  MaxEdits = 1
PROPERTIES
  CallsEnd
CHECK_DEADLOCK FALSE
