SPECIFICATION Spec
CONSTANTS
  Calls = {c1, c2}
  Text <- MCText
  Trim <- MCTrim
  Upper <- MCUpper
  Length <- MCLength
  HexText <- MCHexText
  OpaqueText <- MCOpaqueText
  UpsertParams <- Competing
  DeleteParams <- NoDeletes
  GateValues = {"1"}
  AccountZones = {"z1"}
  ZoneName <- MCZoneName
  RecordIds = {"r1", "r2", "r3"}
  InitialRecords <- EmptyOnly
  MaxElsewhere = 0
  None = None
  Free = Free
  Gone = Gone
SYMMETRY CallSymmetry
INVARIANTS OneRecordPerTypeAndName
