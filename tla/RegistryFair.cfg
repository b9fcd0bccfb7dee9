\* Two clients and the reaper on one context.
SPECIFICATION FairSpec
CONSTANTS
  Clients = {c1, c2}
  Reaper = reaper
  Contexts = {x}
  Kept = {}
  Refusable = {x}
  Sessions = {s1, s2, s3}
  Locks = {k1, k2}
  None = None
PROPERTIES
  EveryRequestAnswered
  IdleIsReaped
