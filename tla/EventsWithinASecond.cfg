SPECIFICATION Spec
CONSTANTS
  Events <- MixedEvents
  MaxEvents = 4
  Lasts = {0, 1, 3}
  DefaultLast = 2
  MAX_OUTPUT = 4
  None = None
INVARIANTS MostRecentFirst
