SPECIFICATION Spec
CONSTANTS
  Downloads = {d1}
  Prewarms = {g1, g2}
  Webs = {d1}
  Ids = {a, b, c}
  Slots = 2
  MaxCached = 1
  MaxLookups = 4
SYMMETRY Symmetry
INVARIANTS
  TypeOK LookupsAreSparing FailureIsNotCached ISRCRescues WaitersAreServed
CHECK_DEADLOCK FALSE
