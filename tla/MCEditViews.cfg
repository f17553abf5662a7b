SPECIFICATION ViewSpec
CONSTANTS
  o1 = o1
  o2 = o2
  all = all
  some = some
  other = other
  low = low
  miss = miss
  Obs = {o1}
  Req = {all, some, other}
  Val = {low, miss}
  NoData = NoData
  Missing = miss
  Covers <- MCCovers
  Accepts <- MCAccepts
  Changing = {o1}
  MaxVersion = 2
  MaxEntries = 4
INVARIANTS
  TypeOK
  

  
  
