SPECIFICATION LoadSpec
CONSTANTS
  p1 = p1
  p2 = p2
  p3 = p3
  v1 = v1
  v2 = v2
  Invalid = Invalid
  Absent = Absent
  Partial = Partial
  Nobody = Nobody
  Installers <- MCInstallers
  Versions <- MCVersions
  MaxPublishes = 1
  MaxFaults = 1
  MaxCrashes = 1
SYMMETRY MCSymmetry
INVARIANTS
  TypeOK
  HalfThereOnlyByForce
  SuccessStays
  SuccessIsRecorded
  InstalledWasValidated
  LoadedAsRecorded
PROPERTIES
  KeptWithoutForce
CHECK_DEADLOCK FALSE
