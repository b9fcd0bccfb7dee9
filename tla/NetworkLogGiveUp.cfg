SPECIFICATION Spec
CONSTANTS
  Ids = {i1, i2}
  Urls = {u1}
  Statuses = {s1}
  Waiters = {w1}
  None = None
  MaxEntries = 2
  MaxPending = 1
  Capacity = 1
  MaxEvents = 4
PROPERTIES
  GivesUpOnlyUnanswered
