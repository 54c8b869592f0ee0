SPECIFICATION FairSpec
CONSTANTS
  Items <- MCItems
  InitialItems <- MCInitialItems
  ZonesPerPage = 5
  PerPage = 2
  U32 = 16
  MaxChanges = 2
  None = None
INVARIANTS TypeOK HidesAtMostRemoved RepeatsAtMostAdded
PROPERTIES QuietListingIsExact ListingEnds
