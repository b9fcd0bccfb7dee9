\* A verb, an `as` and a close at once.
SPECIFICATION FairSpec
CONSTANTS
  Users = {u1}
  Adopters = {a1}
  Closers = {c1}
  Engines = {e1, e2, e3, e4}
  None = None
INVARIANTS
  TypeOK
PROPERTIES
  EveryCallReturns
