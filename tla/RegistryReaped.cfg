SPECIFICATION Spec
CONSTANTS
  Clients = {c1, c2}
  Reaper = reaper
  Contexts = {x}
  Kept = {}
  Refusable = {}
  Sessions = {s1, s2, s3}
  Locks = {k1, k2, k3}
  None = None
SYMMETRY Symmetry
PROPERTY ReapsOnlyIdle
