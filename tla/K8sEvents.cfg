SPECIFICATION Spec
CONSTANTS
  Events <- UniformEvents
  MaxEvents = 4
  Lasts = {0, 1, 3, 4}
  DefaultLast = 2
  MAX_OUTPUT = 3
  None = None
INVARIANTS MostRecentFirst CutsLoseTheOldest
