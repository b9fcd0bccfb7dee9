\* One caller, one domain, no cap, one snapshot; more seeds than sessions, so that
\* an identity nobody wears is always found.
SPECIFICATION Spec
CONSTANTS
  Callers = {c1}
  Domains = {a}
  Policies = {"PerSession"}
  Every = 2
  Caps = {0}
  MaxId = 2
  Tries = 4
  IdentityOf <- OwnIdentities
  None = None
  MaxSeed = 4
  MaxRequests = 3
  MaxSaved = 1
PROPERTIES
  NeverReassigned
