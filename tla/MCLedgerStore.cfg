SPECIFICATION Spec
CONSTANTS
  w1 = w1
  w2 = w2
  Writers = {w1, w2}
  Readers = {"reader"}
  Drafts <- MCDrafts
  Times = {1, 2}
  Listings <- MCListings
  Lookups <- MCLookups
  Exports <- MCExports
  PageSizes = {1}
  MaxRecords = 3
  MaxTears = 1
SYMMETRY Symmetry
INVARIANTS
  LossesAreTears
  PagesMissNothing
  ExportIsOldest
PROPERTIES
  LookupsNeverGoBack
CHECK_DEADLOCK FALSE
