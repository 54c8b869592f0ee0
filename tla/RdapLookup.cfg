SPECIFICATION FairRdapSpec
CONSTANTS
  MAX_UPSTREAM_RESPONSE_BYTES = 5
  SizeMax = 7
  MaxDeclared = 9
  None = None
  Text <- MCText
  Domains <- MCDomains
  Locations <- MCLocations
  Documents <- MCDocuments
INVARIANTS RdapTypeOK HeldWithinCap ReturnedWhole RefusedOnlyIfTooLarge RequestsAreDue FactsAreTheLastHops
PROPERTIES LookupReturns
