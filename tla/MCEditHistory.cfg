SPECIFICATION ModelSpec
CONSTANTS
  o1 = o1
  o2 = o2
  all = all
  some = some
  other = other
  low = low
  miss = miss
  Obs = {o1, o2}
  Req = {all}
  Val = {low, miss}
  NoData = NoData
  Missing = miss
  Covers <- MCCovers
  Accepts <- MCAccepts
  Changing = {}
  MaxVersion = 3
  MaxEntries = 3
INVARIANTS
  CountMatches
  PointerMatches
  RowPerVersion
PROPERTIES
  ImplementsHistory
