SPECIFICATION SpanSpec
CONSTANTS
  Sensors = {1, 2}
  Times = {0, 1, 2, 3, 4}
  Request = {r1, r2, r3}
  Shapes <- SpanShapes
  Filters <- OneFilter
  Initial <- Empty
  MaxValue = 1
  MaxBuffers = 9
  MaxChanges = 0
INVARIANTS RequestCovered FetchedOnce
SYMMETRY Requests
CHECK_DEADLOCK FALSE
