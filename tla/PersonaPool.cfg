\* Two callers and two domains, three ids, one snapshot, every policy.
SPECIFICATION Spec
CONSTANTS
  Callers = {c1, c2}
  Domains = {a, b}
  Policies = {"Never", "PerSession", "PerTarget", "PerRequests"}
  Every = 2
  Caps = {0, 1}
  MaxId = 2
  Tries = 1
  IdentityOf <- TwoIdentities
  None = None
  MaxSeed = 3
  MaxRequests = 3
  MaxSaved = 1
SYMMETRY Symmetry
INVARIANTS
  TypeOK
  BindingsUsable
  InFlightIsHeld
PROPERTIES
  NoMidRequestRotation
  ImplementsPersonaLease
  StickyPerSession
  AcquireWithinCap
  NewIdentityIfAny
