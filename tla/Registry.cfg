\* Two clients race for one context that is kept and for one that is closed.
SPECIFICATION Spec
CONSTANTS
  Clients = {c1, c2}
  Reaper = reaper
  Contexts = {kept, other}
  Kept = {kept}
  Refusable = {kept}
  Sessions = {s1, s2, s3, s4}
  Locks = {k1, k2, k3}
  None = None
SYMMETRY Symmetry
INVARIANTS
  TypeOK
  NothingLeftBehind
  LocksFollowSessions
PROPERTIES
  ImplementsOpenContexts
