SPECIFICATION FairSpec
CONSTANTS
  s1 = s1
  s2 = s2
  n1 = n1
  n2 = n2
  q1 = q1
  q2 = q2
  low = low
  miss = miss
  AnySensor = AnySensor
  NoData = NoData
  Sensor = {s1, s2}
  Station = {n1, n2}
  Request = {q1, q2}
  Value = {low, miss}
  stationId <- MCStationId
  Sensors <- MCSensors
  Accepts <- MCAccepts
  Initial <- MCInitial
  Changing = {s1}
  MaxChanges = 2
INVARIANTS ViewCatchesUp SubscribedForRequests
PROPERTIES DroppedStaysQuiet RequestServed
CHECK_DEADLOCK FALSE
