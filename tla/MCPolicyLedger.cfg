SPECIFICATION Spec
CONSTANTS
  p1 = p1
  p2 = p2
  p3 = p3
  Processes = {p1, p2, p3}
  Revisions = {"r1", "r2"}
  MaxChanges = 4
  MaxFailures = 2
SYMMETRY Symmetry
INVARIANTS
  RevisionsAreRecorded
  SerialChangesAgree
CHECK_DEADLOCK FALSE
