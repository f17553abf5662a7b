SPECIFICATION FairSpec
CONSTANTS
  Sensors = {1, 2}
  Times = {0, 1, 2}
  Request = {r1, r2}
  Shapes <- DataShapes
  Filters <- TwoFilters
  Initial <- Some
  MaxValue = 2
  MaxBuffers = 6
  MaxChanges = 1
INVARIANTS CompletedOnce ViewCurrent
PROPERTY RequestCompletes
CHECK_DEADLOCK FALSE
