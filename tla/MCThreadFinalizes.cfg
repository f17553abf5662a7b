SPECIFICATION FairSpec
CONSTANTS
  t1 = t1
  t2 = t2
  t3 = t3
  NoTask = NoTask
  Task = {t1, t2, t3}
  Helped = {t1}
  Own = {t2}
  Stacked = {t3}
  Priority <- FirstUrgent
PROPERTY ThreadFinalizes
CHECK_DEADLOCK FALSE
