SPECIFICATION Spec
CONSTANTS
  Ids = {i1, i2, i3}
  Urls = {u1, u2}
  Statuses = {s1}
  Waiters = {w1}
  None = None
  MaxEntries = 2
  MaxPending = 1
  Capacity = 2
  MaxEvents = 4
INVARIANTS
  TypeOK
  IndexOK
  AnswersBelong
  PendingIsEarly
  WithinCaps
  NoLostWakeup
  CountersAccount
PROPERTIES
  TimesOutOnlyUnanswered
  ImplementsKeyedLog
SYMMETRY Symmetry
