SPECIFICATION FairSpec
CONSTANTS
  Runs = {g1, g2}
  MaxRuns = 1
  MaxStream = 5
  MaxRetained = 4
INVARIANTS TypeOK SlotsAccounted NoChildLeft
PROPERTIES ResultIsAccepted GenerationEnds
