SPECIFICATION FairSpec
CONSTANTS
  Calls = {c1, c2}
  Text <- MCText
  Trim <- MCTrim
  Upper <- MCUpper
  Length <- MCLength
  HexText <- MCHexText
  OpaqueText <- MCOpaqueText
  UpsertParams <- MCUpsertParams
  DeleteParams <- MCDeleteParams
  GateValues = {None, "1", "true"}
  AccountZones = {"z1"}
  ZoneName <- MCZoneName
  RecordIds = {"r1", "r2"}
  InitialRecords <- EmptyOrOne
  MaxElsewhere = 0
  None = None
  Free = Free
  Gone = Gone
INVARIANTS TypeOK RefusedNeverTouchApi WritesAreAuthorised
PROPERTIES EveryCallIsAnswered
